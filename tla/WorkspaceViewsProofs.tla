-------------------------- MODULE WorkspaceViewsProofs --------------------------
(* What WorkspaceViews promises for every value of its constants.          *)
EXTENDS WorkspaceViews, SequenceTheorems, FiniteSetTheorems, WellFoundedInduction, TLAPS

-----------------------------------------------------------------------------
(* Least and greatest numbers.                                             *)

\* Some natural number of a set of them is the least.
LEMMA LeastNat ==
    ASSUME NEW T \in SUBSET Nat, T # {}
    PROVE  \E n \in T : \A m \in T : n <= m
<1>1. PICK n \in T : \A m \in T : ~(<<m, n>> \in OpToRel(<, Nat))
  <2>1. IsWellFoundedOn(OpToRel(<, Nat), Nat)
    BY NatLessThanWellFounded
  <2> HIDE DEF OpToRel
  <2> QED
    BY <2>1, WFMin, Zenon
<1>2. ASSUME NEW m \in T PROVE n <= m
  <2>1. ~(m < n)
    BY <1>1 DEF OpToRel
  <2> QED
    BY <2>1
<1> QED
  BY <1>2

\* Min finds it.
LEMMA MinIn ==
    ASSUME NEW T \in SUBSET Nat, T # {}
    PROVE  Min(T) \in T /\ \A m \in T : Min(T) <= m
BY LeastNat DEF Min

\* A set of natural numbers below a bound has a greatest.
LEMMA GreatestNat ==
    ASSUME NEW T \in SUBSET Nat, T # {}, NEW b \in Nat, \A m \in T : m <= b
    PROVE  \E n \in T : \A m \in T : m <= n
<1> DEFINE U == {u \in Nat : \A m \in T : m <= u}
<1>1. PICK u \in U : \A v \in U : u <= v
  <2>1. U \in SUBSET Nat /\ U # {}
    OBVIOUS
  <2> HIDE DEF U
  <2> QED
    BY <2>1, LeastNat
<1>2. CASE u \in T
  BY <1>1, <1>2
<1>3. CASE u \notin T
  <2>1. u \in Nat /\ \A m \in T : m <= u /\ m \in Nat
    OBVIOUS
  <2>2. \A m \in T : m <= u - 1
    BY <1>3, <2>1
  <2>3. u - 1 \in Nat
    <3>1. PICK m \in T : TRUE
      OBVIOUS
    <3> QED
      BY <2>1, <2>2, <3>1
  <2>4. u - 1 \in U
    BY <2>2, <2>3
  <2> QED
    BY <1>1, <2>1, <2>4
<1> QED
  BY <1>2, <1>3

LEMMA MaxIn ==
    ASSUME NEW T \in SUBSET Nat, T # {}, NEW b \in Nat, \A m \in T : m <= b
    PROVE  Max(T) \in T /\ \A m \in T : m <= Max(T)
<1>1. \E n \in T : \A m \in T : n >= m
  BY GreatestNat
<1> QED
  BY <1>1 DEF Max

\* With a bound for any k - 1 numbers there is one for any k.
LEMMA OneMore ==
    ASSUME NEW k \in Nat, k # 0,
           \A h \in [1 .. k - 1 -> Nat] : \E b \in Nat : \A i \in 1 .. k - 1 : h[i] <= b
    PROVE  \A g \in [1 .. k -> Nat] : \E b \in Nat : \A i \in 1 .. k : g[i] <= b
<1> SUFFICES ASSUME NEW g \in [1 .. k -> Nat]
             PROVE  \E b \in Nat : \A i \in 1 .. k : g[i] <= b
  OBVIOUS
<1> DEFINE h == [i \in 1 .. k - 1 |-> g[i]]
<1>1. h \in [1 .. k - 1 -> Nat]
  OBVIOUS
<1>2. PICK b \in Nat : \A i \in 1 .. k - 1 : h[i] <= b
  BY <1>1
<1>3. g[k] \in Nat
  OBVIOUS
<1>4. \A i \in 1 .. k : g[i] <= b + g[k]
  BY <1>2, <1>3
<1>5. b + g[k] \in Nat
  BY <1>3
<1> QED
  BY <1>4, <1>5

\* Finitely many natural numbers have a bound: the least n for which n numbers
\* had none would be one more than a number of numbers with a bound.
LEMMA Bounded ==
    ASSUME NEW n \in Nat, NEW f \in [1 .. n -> Nat]
    PROVE  \E b \in Nat : \A i \in 1 .. n : f[i] <= b
<1> DEFINE HasBound(k) == \A g \in [1 .. k -> Nat] : \E b \in Nat : \A i \in 1 .. k : g[i] <= b
           Bad == {k \in Nat : ~HasBound(k)}
<1>1. SUFFICES ASSUME Bad # {} PROVE FALSE
  OBVIOUS
<1>2. PICK k \in Bad : \A m \in Bad : k <= m
  <2>1. Bad \in SUBSET Nat
    OBVIOUS
  <2> HIDE DEF Bad
  <2> QED
    BY <1>1, <2>1, LeastNat
<1>3. k \in Nat /\ ~HasBound(k)
  OBVIOUS
<1>4. k # 0
  <2>1. HasBound(0)
    <3>1. \A i \in 1 .. 0 : FALSE
      OBVIOUS
    <3>2. 0 \in Nat
      OBVIOUS
    <3> QED
      BY <3>1, <3>2, Zenon
  <2> QED
    BY <1>3, <2>1
<1>5. k - 1 \in Nat
  BY <1>3, <1>4
<1>6. HasBound(k - 1)
  <2> HIDE DEF HasBound
  <2> QED
    BY <1>2, <1>3, <1>5
<1>7. HasBound(k)
  BY <1>3, <1>4, <1>5, <1>6, OneMore
<1> QED
  BY <1>3, <1>7

\* Among finitely many one has the greatest number.
LEMMA Greatest ==
    ASSUME NEW n \in Nat, NEW I \in SUBSET (1 .. n), I # {}, NEW m \in [I -> Nat]
    PROVE  \E i \in I : \A j \in I : m[j] <= m[i]
<1> DEFINE f == [i \in 1 .. n |-> IF i \in I THEN m[i] ELSE 0]
           T == {m[i] : i \in I}
<1>1. PICK b \in Nat : \A i \in 1 .. n : f[i] <= b
  <2>1. f \in [1 .. n -> Nat]
    OBVIOUS
  <2> HIDE DEF f
  <2> QED
    BY <2>1, Bounded
<1>2. \A t \in T : t <= b
  BY <1>1
<1>3. T \in SUBSET Nat /\ T # {}
  OBVIOUS
<1>4. \E t \in T : \A u \in T : u <= t
  <2> HIDE DEF T
  <2> QED
    BY <1>2, <1>3, GreatestNat
<1> QED
  BY <1>4

-----------------------------------------------------------------------------
(* Workspaces in the order of the listing.                                 *)

\* Every workspace has a place in the listing.
LEMMA Ranked ==
    /\ Len(Listing) \in Nat
    /\ \A w \in Workspaces : Rank(w) \in 1 .. Len(Listing) /\ Listing[Rank(w)] = w
<1>1. Listing \in Seq(Workspaces) /\ ToSet(Listing) = Workspaces
  BY ResolverAssumption
<1>2. Len(Listing) \in Nat /\ DOMAIN Listing = 1 .. Len(Listing)
  BY <1>1
<1>3. ASSUME NEW w \in Workspaces PROVE \E i \in DOMAIN Listing : Listing[i] = w
  BY <1>1 DEF ToSet
<1> QED
  BY <1>2, <1>3 DEF Rank

\* Some workspace of a set has a rank no other is below, and one no other is above.
LEMMA FirstListedIn ==
    ASSUME NEW S \in SUBSET Workspaces, S # {}
    PROVE  FirstListed(S) \in S
<1> DEFINE T == {Rank(w) : w \in S}
<1>1. T \in SUBSET Nat /\ T # {}
  BY Ranked
<1>2. PICK n \in T : \A m \in T : n <= m
  <2> HIDE DEF T
  <2> QED
    BY <1>1, LeastNat
<1>3. \E w \in S : \A v \in S : Rank(w) <= Rank(v)
  BY <1>2
<1> QED
  BY <1>3 DEF FirstListed

LEMMA LastListedIn ==
    ASSUME NEW S \in SUBSET Workspaces, S # {}
    PROVE  LastListed(S) \in S
<1> DEFINE T == {Rank(w) : w \in S}
<1>1. T \in SUBSET Nat /\ T # {} /\ \A m \in T : m <= Len(Listing)
  BY Ranked
<1>2. PICK n \in T : \A m \in T : m <= n
  <2> HIDE DEF T
  <2> QED
    BY <1>1, GreatestNat, Ranked
<1>3. \E w \in S : \A v \in S : Rank(v) <= Rank(w)
  BY <1>2
<1> QED
  BY <1>3 DEF LastListed

\* Among workspaces one has the greatest number.
LEMMA GreatestOf ==
    ASSUME NEW S \in SUBSET Workspaces, S # {}, NEW m \in [S -> Nat]
    PROVE  \E w \in S : \A v \in S : m[v] <= m[w]
<1> DEFINE I == {Rank(w) : w \in S}
           f == [i \in I |-> m[Listing[i]]]
<1>1. I \in SUBSET (1 .. Len(Listing)) /\ I # {}
  BY Ranked
<1>2. \A w \in S : Rank(w) \in I /\ Listing[Rank(w)] = w
  BY Ranked
<1>3. \A i \in I : Listing[i] \in S
  BY Ranked
<1>4. f \in [I -> Nat]
  BY <1>3
<1>5. PICK i \in I : \A j \in I : f[j] <= f[i]
  <2> HIDE DEF I, f
  <2> QED
    BY <1>1, <1>4, Greatest, Ranked
<1>6. \A w \in S : f[Rank(w)] = m[w]
  BY <1>2
<1>7. \A w \in S : m[w] <= m[Listing[i]]
  BY <1>2, <1>5, <1>6
<1> QED
  BY <1>3, <1>7

-----------------------------------------------------------------------------
(* The first that is not None.                                             *)

\* FirstSome gives the first element that is not None.
LEMMA FirstSomeAt ==
    ASSUME NEW S, NEW s \in Seq(S), NEW i \in DOMAIN s, s[i] # None
    PROVE  \E j \in DOMAIN s :
              /\ j <= i /\ s[j] # None /\ FirstSome(s) = s[j]
              /\ \A k \in DOMAIN s : k < j => s[k] = None
<1> DEFINE hits == {k \in DOMAIN s : s[k] # None}
<1>1. hits \in SUBSET Nat /\ hits # {} /\ i \in hits /\ DOMAIN s \subseteq Nat
  OBVIOUS
<1>2. Min(hits) \in hits /\ \A m \in hits : Min(hits) <= m
  <2> HIDE DEF hits
  <2> QED
    BY <1>1, MinIn
<1>3. FirstSome(s) = s[Min(hits)]
  BY <1>1 DEF FirstSome
<1>4. Min(hits) \in DOMAIN s /\ s[Min(hits)] # None /\ Min(hits) <= i
  BY <1>1, <1>2
<1>5. \A k \in DOMAIN s : k < Min(hits) => s[k] = None
  <2>1. \A k \in DOMAIN s : k \in hits \/ s[k] = None
    OBVIOUS
  <2>2. \A k \in DOMAIN s : k \in Nat
    BY <1>1
  <2>3. Min(hits) \in Nat
    BY <1>1, <1>2
  <2> HIDE DEF hits
  <2> QED
    BY <1>2, <2>1, <2>2, <2>3
<1> QED
  BY <1>3, <1>4, <1>5

LEMMA FirstSomeNone ==
    ASSUME NEW s, \A i \in DOMAIN s : s[i] = None
    PROVE  FirstSome(s) = None
BY DEF FirstSome

\* It is one of the elements, or None.
LEMMA FirstSomeIn ==
    ASSUME NEW S, NEW s \in Seq(S \cup {None})
    PROVE  FirstSome(s) \in S \cup {None}
<1>1. CASE \A i \in DOMAIN s : s[i] = None
  BY <1>1, FirstSomeNone
<1>2. ASSUME NEW i \in DOMAIN s, s[i] # None PROVE FirstSome(s) \in S \cup {None}
  <2>1. PICK j \in DOMAIN s : FirstSome(s) = s[j]
    BY <1>2, FirstSomeAt
  <2> QED
    BY <2>1
<1> QED
  BY <1>1, <1>2

-----------------------------------------------------------------------------
(* The owners of a root, a file and a name.                                *)

\* The workspaces that have a folder.
Homes(fs) == Workspaces \ Invalid(fs)

\* How deep the folders of a workspace are that contain a file.
Around(w, file, fs) == {Len(t.path) : t \in {u \in ToSet(fs[w]) : Within(file, u)}}

\* A workspace without folders has none that could contain anything.
LEMMA HasHome ==
    ASSUME NEW fs, Known(fs), NEW w \in Workspaces, NEW u \in ToSet(fs[w])
    PROVE  w \in Homes(fs) /\ u \in Text /\ u.path \in Seq(Names) /\ u.path # <<>>
<1>1. fs[w] \in Seq(Text)
  BY DEF Known
<1>2. PICK i \in DOMAIN fs[w] : u = fs[w][i]
  BY DEF ToSet
<1>3. fs[w] # <<>> /\ u \in Text /\ u.path # <<>>
  BY <1>1, <1>2 DEF Known
<1> QED
  BY <1>3 DEF Homes, Invalid, Text

\* The numbers some elements of a sequence have include a greatest.
LEMMA MaxOfSome ==
    ASSUME NEW T, NEW s \in Seq(T), NEW f \in [ToSet(s) -> Nat],
           NEW A \in SUBSET ToSet(s), A # {},
           NEW D, \A d \in D : \E x \in A : d = f[x], \A x \in A : f[x] \in D
    PROVE  Max(D) \in D /\ Max(D) \in Nat /\ \A d \in D : d <= Max(D)
<1> DEFINE g == [i \in 1 .. Len(s) |-> f[s[i]]]
<1>1. Len(s) \in Nat /\ g \in [1 .. Len(s) -> Nat]
  BY DEF ToSet
<1>2. PICK b \in Nat : \A i \in 1 .. Len(s) : g[i] <= b
  BY <1>1, Bounded
<1>3. \A x \in A : f[x] <= b
  BY <1>2 DEF ToSet
<1>4. D \in SUBSET Nat /\ D # {} /\ \A d \in D : d <= b
  BY <1>3
<1> QED
  BY <1>4, MaxIn

LEMMA AroundMax ==
    ASSUME NEW fs, Known(fs), NEW w \in Workspaces, NEW file, Around(w, file, fs) # {}
    PROVE  /\ Max(Around(w, file, fs)) \in Nat
           /\ \A d \in Around(w, file, fs) : d <= Max(Around(w, file, fs))
<1> DEFINE A == {u \in ToSet(fs[w]) : Within(file, u)}
           f == [t \in ToSet(fs[w]) |-> Len(t.path)]
<1>1. fs[w] \in Seq(Text)
  BY DEF Known
<1>2. f \in [ToSet(fs[w]) -> Nat]
  <2>1. \A t \in ToSet(fs[w]) : Len(t.path) \in Nat
    BY HasHome
  <2> QED
    BY <2>1
<1>3. A \in SUBSET ToSet(fs[w]) /\ A # {}
  BY DEF Around
<1>4. \A d \in Around(w, file, fs) : \E t \in A : d = f[t]
  BY DEF Around
<1>5. \A t \in A : f[t] \in Around(w, file, fs)
  BY DEF Around
<1> HIDE DEF A, f
<1> QED
  BY <1>1, <1>2, <1>3, <1>4, <1>5, MaxOfSome

\* Of the workspaces around a file, FileOwner is one with the innermost folder.
LEMMA FileOwnerIs ==
    ASSUME NEW fs, Known(fs), NEW file, NEW owners,
           owners = {w \in Workspaces : Around(w, file, fs) # {}}
    PROVE  /\ owners = {} => FileOwner(file, fs) = None
           /\ owners # {} =>
                 /\ FileOwner(file, fs) \in owners
                 /\ \A v \in owners :
                       Max(Around(v, file, fs)) <= Max(Around(FileOwner(file, fs), file, fs))
<1> DEFINE best == {w \in owners : \A v \in owners :
                       Max(Around(v, file, fs)) <= Max(Around(w, file, fs))}
<1>1. FileOwner(file, fs) = IF owners = {} THEN None ELSE FirstListed(best)
  BY DEF FileOwner, Around
<1>2. ASSUME owners # {} PROVE best # {}
  <2> DEFINE m == [w \in owners |-> Max(Around(w, file, fs))]
  <2>1. owners \in SUBSET Workspaces /\ m \in [owners -> Nat]
    BY AroundMax
  <2>2. \E w \in owners : \A v \in owners : m[v] <= m[w]
    <3> HIDE DEF m
    <3> QED
      BY <1>2, <2>1, GreatestOf
  <2> QED
    BY <2>2
<1>3. best \in SUBSET Workspaces
  OBVIOUS
<1>4. ASSUME owners # {} PROVE FirstListed(best) \in best
  <2> HIDE DEF best
  <2> QED
    BY <1>2, <1>3, <1>4, FirstListedIn
<1> QED
  BY <1>1, <1>4

LEMMA FileOwnerIn ==
    ASSUME NEW fs, Known(fs), NEW file
    PROVE  FileOwner(file, fs) \in Homes(fs) \cup {None}
<1> DEFINE owners == {w \in Workspaces : Around(w, file, fs) # {}}
<1>1. \A w \in owners : w \in Homes(fs)
  BY HasHome DEF Around
<1>2. FileOwner(file, fs) \in owners \cup {None}
  BY FileOwnerIs
<1> QED
  BY <1>1, <1>2

LEMMA LayoutOwnerIn ==
    ASSUME NEW fs, Known(fs), NEW root
    PROVE  LayoutOwner(root, fs) \in Homes(fs) \cup {None}
<1>1. OfPath(root, fs) \in Homes(fs) \cup {None}
  <2> DEFINE ws == {w \in Workspaces : \E u \in ToSet(fs[w]) : Normal(u) = Normal(root)}
  <2>1. ws \in SUBSET Workspaces /\ ws \subseteq Homes(fs)
    BY HasHome
  <2>2. OfPath(root, fs) = IF ws = {} THEN None ELSE LastListed(ws)
    BY DEF OfPath
  <2> HIDE DEF ws
  <2> QED
    BY <2>1, <2>2, LastListedIn
<1>2. OfName(Leaf(root), fs) \in Homes(fs) \cup {None}
  <2> DEFINE ws == {w \in Workspaces : \E u \in ToSet(fs[w]) : Leaf(u) = Leaf(root)}
  <2>1. ws \in SUBSET Workspaces /\ ws \subseteq Homes(fs)
    BY HasHome
  <2>2. OfName(Leaf(root), fs) = IF ws = {} THEN None ELSE LastListed(ws)
    BY DEF OfName
  <2> HIDE DEF ws
  <2> QED
    BY <2>1, <2>2, LastListedIn
<1>3. <<OfPath(root, fs), OfName(Leaf(root), fs)>> \in Seq(Homes(fs) \cup {None})
  BY <1>1, <1>2
<1> QED
  BY <1>3, FirstSomeIn DEF LayoutOwner

\* How long the names of a workspace's folders are that a file's path has.
NamesFound(i, w, files, fs) ==
    {NameLength[Leaf(t)] : t \in {u \in ToSet(fs[w]) : NamedIn(files[i], Leaf(u))}}

\* The names of all folders have a bound.
LEMMA NamesBounded ==
    ASSUME NEW fs, Known(fs)
    PROVE  \E b \in Nat : \A w \in Workspaces : \A t \in ToSet(fs[w]) :
              NameLength[Leaf(t)] \in Nat /\ NameLength[Leaf(t)] <= b
<1>1. ASSUME NEW w \in Workspaces, NEW t \in ToSet(fs[w]) PROVE NameLength[Leaf(t)] \in Nat
  <2>1. t.path \in Seq(Names) /\ t.path # <<>>
    BY HasHome
  <2>2. Leaf(t) \in Names
    BY <2>1 DEF Leaf, Last
  <2> QED
    BY <2>2, ResolverAssumption
<1>2. ASSUME NEW w \in Workspaces
      PROVE  \E b \in Nat : \A t \in ToSet(fs[w]) : NameLength[Leaf(t)] <= b
  <2> DEFINE g == [i \in 1 .. Len(fs[w]) |-> NameLength[Leaf(fs[w][i])]]
  <2>1. fs[w] \in Seq(Text)
    BY DEF Known
  <2>2. Len(fs[w]) \in Nat /\ g \in [1 .. Len(fs[w]) -> Nat]
    BY <1>1, <2>1 DEF ToSet
  <2>3. PICK b \in Nat : \A i \in 1 .. Len(fs[w]) : g[i] <= b
    <3> HIDE DEF g
    <3> QED
      BY <2>2, Bounded
  <2>4. ASSUME NEW t \in ToSet(fs[w]) PROVE NameLength[Leaf(t)] <= b
    <3>1. PICK i \in 1 .. Len(fs[w]) : t = fs[w][i]
      BY <2>1 DEF ToSet
    <3> QED
      BY <2>3, <3>1
  <2> QED
    BY <2>4
<1> DEFINE Of(w) == CHOOSE b \in Nat : \A t \in ToSet(fs[w]) : NameLength[Leaf(t)] <= b
           f == [i \in 1 .. Len(Listing) |-> Of(Listing[i])]
<1>3. \A w \in Workspaces : Of(w) \in Nat /\ \A t \in ToSet(fs[w]) : NameLength[Leaf(t)] <= Of(w)
  BY <1>2
<1>4. Listing \in Seq(Workspaces)
  BY ResolverAssumption
<1> HIDE DEF Of
<1>5. f \in [1 .. Len(Listing) -> Nat] /\ Len(Listing) \in Nat
  BY <1>3, <1>4
<1>6. PICK b \in Nat : \A i \in 1 .. Len(Listing) : f[i] <= b
  <2> HIDE DEF f
  <2> QED
    BY <1>5, Bounded
<1>7. \A w \in Workspaces : Of(w) <= b
  BY <1>6, Ranked
<1>8. \A w \in Workspaces : \A t \in ToSet(fs[w]) : NameLength[Leaf(t)] <= b
  BY <1>1, <1>3, <1>7
<1> QED
  BY <1>1, <1>8

\* Some pair of a set comes first, by its number, then by its workspace.
LEMMA FirstHit ==
    ASSUME NEW n \in Nat, NEW H \in SUBSET ((1 .. n) \X Workspaces), H # {}
    PROVE  \E h \in H : \A g \in H : h[1] < g[1] \/ (h[1] = g[1] /\ Rank(h[2]) <= Rank(g[2]))
<1> DEFINE I == {h[1] : h \in H}
<1>1. I \in SUBSET Nat /\ I # {}
  OBVIOUS
<1>2. PICK i \in I : \A j \in I : i <= j
  <2> HIDE DEF I
  <2> QED
    BY <1>1, LeastNat
<1> DEFINE R == {Rank(h[2]) : h \in {g \in H : g[1] = i}}
<1>3. R \in SUBSET Nat /\ R # {}
  BY Ranked
<1>4. PICK r \in R : \A q \in R : r <= q
  <2> HIDE DEF R
  <2> QED
    BY <1>3, LeastNat
<1>5. PICK h \in H : h[1] = i /\ Rank(h[2]) = r
  OBVIOUS
<1>6. ASSUME NEW g \in H PROVE h[1] < g[1] \/ (h[1] = g[1] /\ Rank(h[2]) <= Rank(g[2]))
  <2>1. g[1] \in I /\ g[1] \in Nat /\ i \in Nat
    OBVIOUS
  <2>2. i <= g[1]
    BY <1>2, <2>1
  <2>3. g[1] = i => r <= Rank(g[2])
    BY <1>4
  <2> QED
    BY <1>5, <2>1, <2>2, <2>3
<1> QED
  BY <1>6

LEMMA NameOwnerIn ==
    ASSUME NEW fs, Known(fs), NEW files \in Seq(Text)
    PROVE  NameOwner(files, fs) \in Homes(fs) \cup {None}
<1> DEFINE hits == {h \in (DOMAIN files) \X Workspaces : NamesFound(h[1], h[2], files, fs) # {}}
           Length(h) == Max(NamesFound(h[1], h[2], files, fs))
           longest == {h \in hits : \A g \in hits : Length(g) <= Length(h)}
           First(h) == \A g \in longest :
                          h[1] < g[1] \/ (h[1] = g[1] /\ Rank(h[2]) <= Rank(g[2]))
<1>1. NameOwner(files, fs) = IF hits = {} THEN None ELSE (CHOOSE h \in longest : First(h))[2]
  BY DEF NameOwner, NamesFound
<1>2. ASSUME NEW h \in hits PROVE h[2] \in Homes(fs)
  BY HasHome DEF NamesFound
<1>3. ASSUME hits # {} PROVE longest # {}
  <2> DEFINE T == {Length(h) : h \in hits}
  <2>1. PICK b \in Nat : \A w \in Workspaces : \A t \in ToSet(fs[w]) :
                            NameLength[Leaf(t)] \in Nat /\ NameLength[Leaf(t)] <= b
    BY NamesBounded
  <2>2. ASSUME NEW h \in hits PROVE Length(h) \in Nat /\ Length(h) <= b
    <3> DEFINE D == NamesFound(h[1], h[2], files, fs)
    <3>1. D \in SUBSET Nat /\ D # {} /\ \A d \in D : d <= b
      BY <2>1 DEF NamesFound
    <3>2. Max(D) \in D
      <4> HIDE DEF D
      <4> QED
        BY <3>1, MaxIn
    <3> QED
      BY <3>1, <3>2
  <2> HIDE DEF Length, hits
  <2>3. T \in SUBSET Nat /\ T # {} /\ \A t \in T : t <= b
    BY <1>3, <2>2
  <2>4. PICK t \in T : \A u \in T : u <= t
    <3> HIDE DEF T
    <3> QED
      BY <2>3, GreatestNat
  <2> QED
    BY <2>4
<1>4. ASSUME hits # {} PROVE \E h \in longest : First(h)
  <2>1. longest \in SUBSET ((1 .. Len(files)) \X Workspaces) /\ Len(files) \in Nat
    OBVIOUS
  <2> HIDE DEF longest
  <2> QED
    BY <1>3, <1>4, <2>1, FirstHit
<1>5. ASSUME hits # {} PROVE (CHOOSE h \in longest : First(h)) \in hits
  <2>1. \A h \in longest : h \in hits
    OBVIOUS
  <2> HIDE DEF longest, hits, First
  <2> QED
    BY <1>4, <1>5, <2>1
<1> HIDE DEF longest, hits, First
<1> QED
  BY <1>1, <1>2, <1>5

-----------------------------------------------------------------------------
(* Where a conversation is assigned.                                       *)

\* What the heuristics infer is a workspace that has a folder, in the maps or by now.
LEMMA InferredIn ==
    ASSUME NEW mapped, Known(mapped), NEW fs, Known(fs), NEW roots \in Seq(Text),
           NEW own \in Seq(Text), NEW said \in Seq(Text)
    PROVE  Inferred(mapped, fs, roots, own, said) \in Homes(mapped) \cup Homes(fs) \cup {None}
<1> DEFINE S == (Homes(mapped) \cup Homes(fs)) \cup {None}
           files == own \o said
           s1 == [i \in DOMAIN roots |-> LayoutOwner(roots[i], mapped)]
           s2 == [i \in DOMAIN files |-> FileOwner(files[i], fs)]
           s3 == <<NameOwner(files, fs)>>
<1>1. files \in Seq(Text)
  BY ConcatProperties
<1>2. s1 \in Seq(S)
  <2>1. \A i \in DOMAIN roots : LayoutOwner(roots[i], mapped) \in S
    BY LayoutOwnerIn
  <2> HIDE DEF S
  <2> QED
    BY <2>1
<1>3. s2 \in Seq(S)
  <2>1. \A i \in DOMAIN files : FileOwner(files[i], fs) \in S
    BY FileOwnerIn
  <2> HIDE DEF S, files
  <2>2. Len(files) \in Nat /\ DOMAIN files = 1 .. Len(files)
    BY <1>1
  <2>3. s2 = [i \in 1 .. Len(files) |-> FileOwner(files[i], fs)]
    BY <2>2
  <2> QED
    BY <2>1, <2>2, <2>3
<1>4. s3 \in Seq(S)
  <2>1. NameOwner(files, fs) \in S
    BY <1>1, NameOwnerIn
  <2> HIDE DEF S
  <2> QED
    BY <2>1
<1>5. s1 \o s2 \o s3 \in Seq(S)
  <2> HIDE DEF s1, s2, s3, S
  <2> QED
    BY <1>2, <1>3, <1>4, ConcatProperties
<1>6. Inferred(mapped, fs, roots, own, said) = FirstSome(s1 \o s2 \o s3)
  BY DEF Inferred
<1> HIDE DEF s1, s2, s3
<1> QED
  BY <1>5, <1>6, FirstSomeIn

\* The first workspace that has registered a conversation.
LEMMA RegisteredIn ==
    ASSUME NEW rost, NEW c
    PROVE  Registered(c, rost) \in Workspaces \cup {None}
<1> DEFINE ws == {w \in Workspaces : c \in rost[w]}
<1>1. ws \in SUBSET Workspaces
  OBVIOUS
<1>2. Registered(c, rost) = IF ws = {} THEN None ELSE FirstListed(ws)
  BY DEF Registered
<1> HIDE DEF ws
<1> QED
  BY <1>1, <1>2, FirstListedIn

\* An alias is a workspace with a folder.
LEMMA AliasIn ==
    ASSUME NEW w, NEW mapped, Known(mapped), NEW fs, Known(fs), NEW rost,
           NEW lay \in [Composers -> Seq(Text)], NEW rs \in [Composers -> Row]
    PROVE  Alias(w, mapped, fs, rost, lay, rs) \in Homes(mapped) \cup {None}
<1> DEFINE votes == Votes(w, mapped, fs, rost, lay, rs)
           Count(v) == Cardinality({i \in DOMAIN votes : votes[i] = v})
           winners == {i \in DOMAIN votes : \A v \in ToSet(votes) : Count(v) <= Count(votes[i])}
<1>1. Alias(w, mapped, fs, rost, lay, rs) =
        IF DOMAIN votes = {} THEN None ELSE votes[Min(winners)]
  BY DEF Alias
<1>2. Len(RowOrder) \in Nat /\ RowOrder \in Seq(Composers)
  BY ResolverAssumption
<1>3. /\ DOMAIN votes \subseteq 1 .. Len(RowOrder)
      /\ \A i \in DOMAIN votes : votes[i] \in Homes(mapped)
  <2> DEFINE Vote(c) ==
          IF Registered(c, rost) = w /\ rs[c].kind \in {"draft", "inline", "chunked"}
            THEN Inferred(mapped, fs, lay[c], rs[c].own, <<>>) ELSE None
        voters == {i \in DOMAIN RowOrder : Vote(RowOrder[i]) \notin Invalid(mapped) \cup {None}}
  <2>1. votes = [i \in voters |-> Vote(RowOrder[i])]
    BY DEF Votes
  <2>2. \A c \in Composers : Vote(c) \in Workspaces \cup {None}
    <3>1. \A c \in Composers : lay[c] \in Seq(Text) /\ rs[c].own \in Seq(Text) /\ <<>> \in Seq(Text)
      BY DEF Row
    <3> QED
      BY <3>1, InferredIn DEF Homes
  <2> HIDE DEF Vote
  <2>3. DOMAIN votes = voters /\ \A i \in voters : votes[i] = Vote(RowOrder[i])
    BY <2>1
  <2>4. \A i \in voters : Vote(RowOrder[i]) \in Workspaces \ Invalid(mapped)
    BY <1>2, <2>2
  <2> QED
    BY <1>2, <2>3, <2>4 DEF Homes
<1> HIDE DEF votes
<1>4. ASSUME NEW i \in DOMAIN votes PROVE Count(votes[i]) \in Nat
  <2>1. IsFiniteSet(1 .. Len(RowOrder))
    BY <1>2, FS_Interval
  <2>2. IsFiniteSet({j \in DOMAIN votes : votes[j] = votes[i]})
    BY <1>3, <2>1, FS_Subset
  <2> QED
    BY <2>2, FS_CardinalityType
<1>5. ASSUME DOMAIN votes # {} PROVE winners # {}
  <2> DEFINE m == [i \in DOMAIN votes |-> Count(votes[i])]
  <2>1. m \in [DOMAIN votes -> Nat]
    BY <1>4
  <2>2. PICK i \in DOMAIN votes : \A j \in DOMAIN votes : m[j] <= m[i]
    <3> HIDE DEF m
    <3> QED
      BY <1>2, <1>3, <1>5, <2>1, Greatest
  <2>3. \A j \in DOMAIN votes : Count(votes[j]) <= Count(votes[i])
    BY <2>2
  <2> HIDE DEF Count
  <2> QED
    BY <2>3 DEF ToSet
<1>6. winners \in SUBSET Nat /\ winners \subseteq DOMAIN votes
  BY <1>3
<1> HIDE DEF winners
<1>7. ASSUME DOMAIN votes # {} PROVE Min(winners) \in DOMAIN votes
  BY <1>5, <1>6, <1>7, MinIn
<1> QED
  BY <1>1, <1>3, <1>7

\* A conversation is assigned to a workspace that has a folder, or to "global".
LEMMA AssignedIn ==
    ASSUME NEW c \in Composers, NEW mapped, Known(mapped), NEW fs, Known(fs), NEW rost,
           NEW lay \in [Composers -> Seq(Text)], NEW rs \in [Composers -> Row],
           NEW said \in Seq(Text)
    PROVE  Assigned(c, mapped, fs, rost, lay, rs, said)
              \in Homes(mapped) \cup Homes(fs) \cup {"global"}
<1> DEFINE r == Registered(c, rost)
           d == Determined(c, mapped, fs, rost, lay[c], rs[c].own, said)
           alias == IF r \in Invalid(mapped) THEN Alias(r, mapped, fs, rost, lay, rs) ELSE None
           S == Homes(mapped) \cup Homes(fs)
<1>1. d \in S \cup {None}
  <2>1. r \in Workspaces \cup {None}
    BY RegisteredIn
  <2>2. lay[c] \in Seq(Text) /\ rs[c].own \in Seq(Text)
    BY DEF Row
  <2>3. Inferred(mapped, fs, lay[c], rs[c].own, said) \in S \cup {None}
    BY <2>2, InferredIn
  <2>4. d = IF r # None /\ r \notin Invalid(mapped) THEN r
            ELSE Inferred(mapped, fs, lay[c], rs[c].own, said)
    BY DEF Determined
  <2> HIDE DEF r, d
  <2> QED
    BY <2>1, <2>3, <2>4 DEF Homes
<1>2. alias \in S \cup {None}
  BY AliasIn
<1>3. FirstSome(<<d, alias>>) \in S \cup {None}
  <2> HIDE DEF d, alias, S
  <2>1. <<d, alias>> \in Seq(S \cup {None})
    BY <1>1, <1>2
  <2> QED
    BY <2>1, FirstSomeIn
<1>4. Assigned(c, mapped, fs, rost, lay, rs, said) =
        IF FirstSome(<<d, alias>>) = None THEN "global" ELSE FirstSome(<<d, alias>>)
  BY DEF Assigned
<1> HIDE DEF d, alias
<1> QED
  BY <1>3, <1>4

-----------------------------------------------------------------------------
(* Projects.                                                               *)

\* What a request has read, of whatever time.
Grounds(r) ==
    /\ Known(r.folders) /\ r.roster \in [Workspaces -> SUBSET Composers]
    /\ r.rows \in [Composers -> Row] /\ r.layouts \in [Composers -> Seq(Text)]

\* The groups part the workspaces, and their members have one name.
LEMMA GroupsPart ==
    ASSUME NEW w \in Ids, NEW fs, NEW v \in Group(w, fs)
    PROVE  v \in Ids /\ Group(v, fs) = Group(w, fs) /\ DisplayName(v, fs) = DisplayName(w, fs)
<1>1. "global" \notin Workspaces
  BY ResolverAssumption
<1>2. v \in Ids
  BY DEF Group, Ids
<1>3. CASE v = w
  BY <1>2, <1>3
<1>4. CASE v # w
  <2>1. /\ v \in Workspaces /\ w \in Workspaces /\ v # "global" /\ w # "global"
        /\ fs[w] # <<>> /\ fs[v] # <<>> /\ Normal(fs[v][1]) = Normal(fs[w][1])
    BY <1>1, <1>4 DEF Group, Ids
  <2>2. Group(v, fs) = Group(w, fs)
    <3>1. ASSUME NEW u \in Group(v, fs) PROVE u \in Group(w, fs)
      BY <2>1 DEF Group
    <3>2. ASSUME NEW u \in Group(w, fs) PROVE u \in Group(v, fs)
      BY <2>1 DEF Group
    <3> QED
      BY <3>1, <3>2
  <2>3. fs[v][1].path = fs[w][1].path
    BY <2>1 DEF Normal
  <2> QED
    BY <1>2, <2>1, <2>2, <2>3 DEF DisplayName, Leaf
<1> QED
  BY <1>3, <1>4

\* A group with a workspace that has lost its folders has no other member.
LEMMA OrphanIsAlone ==
    ASSUME NEW w \in Ids, NEW fs, NEW v \in Group(w, fs), v \in Invalid(fs)
    PROVE  Group(w, fs) = {v}
BY ResolverAssumption DEF Group, Ids, Invalid

LEMMA GlobalIsAlone == \A fs : Group("global", fs) = {"global"}
BY DEF Group

\* The conversations listed in a workspace are those assigned to it.
LEMMA ListedInIs ==
    ASSUME NEW w, NEW r, NEW fs, NEW c
    PROVE  c \in ListedIn(w, r, fs, r.layouts) <=>
              /\ c \in Readable(r.rows)
              /\ Assigned(c, r.folders, fs, r.roster, r.layouts, r.rows, <<>>) = w
BY DEF ListedIn

\* The workspace, or "global", a readable conversation is assigned to.
LEMMA HomeIn ==
    ASSUME NEW r, Grounds(r), NEW fs, Known(fs), NEW c \in Composers
    PROVE  Assigned(c, r.folders, fs, r.roster, r.layouts, r.rows, <<>>)
              \in Homes(r.folders) \cup Homes(fs) \cup {"global"}
<1>1. <<>> \in Seq(Text)
  OBVIOUS
<1> QED
  BY <1>1, AssignedIn DEF Grounds

\* A conversation is in a project exactly when the project is that of its home
\* and no rule hides it.
LEMMA InProject ==
    ASSUME NEW w \in Ids, NEW r, NEW fs, NEW c \in Readable(r.rows), NEW home,
           home = Assigned(c, r.folders, fs, r.roster, r.layouts, r.rows, <<>>)
    PROVE  c \in ProjectOf(w, r, fs).chats <=>
              /\ home \in Group(w, fs)
              /\ ~Excluded({DisplayName(w, fs), ListTitle(r.rows[c])})
<1>1. c \in UNION {ListedIn(v, r, fs, r.layouts) : v \in Group(w, fs)} <=> home \in Group(w, fs)
  <2>1. ASSUME NEW v \in Group(w, fs), c \in ListedIn(v, r, fs, r.layouts)
        PROVE  home \in Group(w, fs)
    BY <2>1, ListedInIs
  <2>2. c \in ListedIn(home, r, fs, r.layouts)
    BY ListedInIs
  <2> QED
    BY <2>1, <2>2
<1> QED
  BY <1>1 DEF ProjectOf

Holders(c, projects) == {p \in projects : c \in p.chats}
HiddenAs(c, r, fs) == \E w \in Ids : Excluded({DisplayName(w, fs), ListTitle(r.rows[c])})

\* Each readable conversation is in one project of the list, or a rule hides it.
LEMMA OneProject ==
    ASSUME NEW r, Grounds(r), NEW fs, Known(fs), NEW c \in Readable(r.rows)
    PROVE  \/ Cardinality(Holders(c, Projects(r, fs))) = 1
           \/ Holders(c, Projects(r, fs)) = {} /\ HiddenAs(c, r, fs)
<1> DEFINE holders == {p \in Projects(r, fs) : c \in p.chats}
<1>h. SUFFICES \/ Cardinality(holders) = 1
               \/ /\ holders = {}
                  /\ \E w \in Ids : Excluded({DisplayName(w, fs), ListTitle(r.rows[c])})
  BY Zenon DEF Holders, HiddenAs
<1> DEFINE home == Assigned(c, r.folders, fs, r.roster, r.layouts, r.rows, <<>>)
           primary == IF home = "global" THEN home ELSE FirstListed(Group(home, fs))
           primaries == {w \in Workspaces : FirstListed(Group(w, fs)) = w}
<1>1. home \in Ids
  <2>1. c \in Composers
    BY DEF Readable
  <2> QED
    BY <2>1, HomeIn DEF Homes, Ids
<1>2. Projects(r, fs) =
        {p \in {ProjectOf(w, r, fs) : w \in primaries \cup {"global"}} : p.chats # {}}
  BY DEF Projects
<1> HIDE DEF home
<1>3. primary \in Ids /\ home \in Group(primary, fs) /\ primary \in primaries \cup {"global"}
  <2>1. CASE home = "global"
    BY <2>1, GlobalIsAlone DEF Ids
  <2>2. CASE home # "global"
    <3>1. home \in Workspaces /\ home \in Group(home, fs)
      BY <1>1, <2>2 DEF Ids, Group
    <3>2. Group(home, fs) \in SUBSET Workspaces
      BY <3>1 DEF Group
    <3>3. primary \in Group(home, fs) /\ primary \in Workspaces
      BY <2>2, <3>1, <3>2, FirstListedIn
    <3>4. Group(primary, fs) = Group(home, fs)
      BY <1>1, <3>3, GroupsPart
    <3> QED
      BY <2>2, <3>1, <3>3, <3>4 DEF Ids
  <2> QED
    BY <2>1, <2>2
<1>4. ASSUME NEW w \in primaries \cup {"global"}, home \in Group(w, fs) PROVE w = primary
  <2>1. CASE w = "global"
    BY <1>4, <2>1, GlobalIsAlone
  <2>2. CASE w # "global"
    <3>1. w \in Workspaces /\ FirstListed(Group(w, fs)) = w
      BY <2>2
    <3>2. Group(home, fs) = Group(w, fs)
      BY <1>4, <3>1, GroupsPart DEF Ids
    <3>3. home # "global"
      BY <1>4, <3>1, ResolverAssumption DEF Group
    <3> QED
      BY <3>1, <3>2, <3>3
  <2> QED
    BY <2>1, <2>2
<1> HIDE DEF primary
<1> DEFINE hidden == Excluded({DisplayName(primary, fs), ListTitle(r.rows[c])})
<1>5. ASSUME NEW w \in primaries \cup {"global"}
      PROVE  c \in ProjectOf(w, r, fs).chats <=> w = primary /\ ~hidden
  <2>1. w \in Ids
    BY DEF Ids
  <2>2. c \in ProjectOf(w, r, fs).chats <=>
          home \in Group(w, fs) /\ ~Excluded({DisplayName(w, fs), ListTitle(r.rows[c])})
    BY <2>1, InProject DEF home
  <2> QED
    BY <1>3, <1>4, <2>2
<1>6. CASE hidden
  BY <1>2, <1>3, <1>5, <1>6
<1>7. CASE ~hidden
  <2>1. holders = {ProjectOf(primary, r, fs)}
    <3>1. c \in ProjectOf(primary, r, fs).chats
      BY <1>3, <1>5, <1>7
    <3>2. ProjectOf(primary, r, fs) \in holders
      BY <1>2, <1>3, <3>1
    <3>3. ASSUME NEW p \in holders PROVE p = ProjectOf(primary, r, fs)
      <4>1. PICK w \in primaries \cup {"global"} : p = ProjectOf(w, r, fs)
        BY <1>2
      <4> QED
        BY <1>5, <4>1
    <3> QED
      BY <3>2, <3>3
  <2> QED
    BY <2>1, FS_Singleton
<1> QED
  BY <1>6, <1>7

-----------------------------------------------------------------------------
(* Type correctness.                                                       *)

\* What is chosen of the choices is one for each of their elements.
LEMMA ChosenIn ==
    ASSUME NEW choices, NEW f \in Chosen(choices)
    PROVE  /\ f = [x \in DOMAIN choices |-> f[x]]
           /\ \A x \in DOMAIN choices : f[x] \in choices[x]
BY DEF Chosen

\* Every answer is of its type, whatever was read.
LEMMA AnswersTyped ==
    ASSUME NEW r, NEW fs, r.rows \in [Composers -> Row]
    PROVE  /\ Projects(r, fs) \subseteq Project
           /\ \A w : SummariesOf(w, r, fs) \in Warned /\ TabsOf(w, r, fs) \in Warned
           /\ \A w, c : TabOf(w, c, r, fs) \in Warned
<1>1. /\ Readable(r.rows) \subseteq Composers /\ Skipped(r.rows) \subseteq Composers
      /\ \A w : ListedIn(w, r, fs, r.layouts) \subseteq Composers
  BY DEF Readable, Skipped, ListedIn
<1>2. \A w : AssignedTo(w, r, fs) \subseteq Composers
  BY <1>1 DEF AssignedTo
<1>3. ASSUME NEW w \in Ids PROVE ProjectOf(w, r, fs) \in Project
  <2>1. Group(w, fs) \subseteq Ids
    BY <1>3 DEF Group, Ids
  <2>2. {c \in UNION {ListedIn(v, r, fs, r.layouts) : v \in Group(w, fs)} :
           ~Excluded({DisplayName(w, fs), ListTitle(r.rows[c])})} \subseteq Composers
    BY <1>1
  <2> QED
    BY <2>1, <2>2 DEF ProjectOf, Project
<1>4. Projects(r, fs) \subseteq Project
  BY <1>3 DEF Projects, Ids
<1>5. ASSUME NEW w PROVE SummariesOf(w, r, fs) \in Warned /\ TabsOf(w, r, fs) \in Warned
  BY <1>1, <1>2 DEF SummariesOf, TabsOf, Warned
<1>6. ASSUME NEW w, NEW c PROVE TabOf(w, c, r, fs) \in Warned
  BY <1>1 DEF TabOf, Warned
<1> QED
  BY <1>4, <1>5, <1>6

\* What may be written is of its type.
LEMMA ChoicesTyped ==
    /\ \A w \in Workspaces : \A f \in FolderChoices[w] :
          f \in Seq(Text) /\ \A i \in DOMAIN f : f[i].path # <<>>
    /\ \A w \in Workspaces : \A s \in RosterChoices[w] : s \in SUBSET Composers
    /\ \A c \in Composers :
          /\ \A r \in RowChoices[c] : r \in Row
          /\ \A l \in LayoutChoices[c] : l \in Seq(Text)
          /\ \A m \in MessageChoices[c] : m \in Message
BY ViewsAssumption

LEMMA EmptyTyped ==
    /\ Empty.folders \in [Workspaces -> Seq(Text)] /\ Empty.roster \in [Workspaces -> SUBSET Composers]
    /\ Empty.rows \in [Composers -> Row] /\ Empty.layouts \in [Composers -> Seq(Text)]
    /\ Empty.messages \in [Composers -> Message]
    /\ Known(Empty.folders) /\ DOMAIN Empty = Sources
<1>1. <<>> \in Seq(Text)
  OBVIOUS
<1>2. NoRows \in [Composers -> Row]
  BY <1>1 DEF NoRows, Row
<1>3. [first |-> None, files |-> <<>>] \in Message
  BY <1>1 DEF Message
<1>4. \A w \in Workspaces : \A i \in DOMAIN <<>> : FALSE
  OBVIOUS
<1> QED
  BY <1>1, <1>2, <1>3, <1>4 DEF Empty, Known, Sources

LEMMA InitTyped == Init => TypeOK /\ WellRead
<1> SUFFICES ASSUME Init PROVE TypeOK /\ WellRead
  OBVIOUS
<1>1. /\ DOMAIN FolderChoices = Workspaces /\ DOMAIN RosterChoices = Workspaces
      /\ DOMAIN RowChoices = Composers /\ DOMAIN LayoutChoices = Composers
      /\ DOMAIN MessageChoices = Composers /\ MaxWrites \in Nat /\ MaxFaults \in Nat
  BY ViewsAssumption
<1>2. /\ folders = [w \in Workspaces |-> folders[w]] /\ \A w \in Workspaces : folders[w] \in FolderChoices[w]
      /\ roster = [w \in Workspaces |-> roster[w]] /\ \A w \in Workspaces : roster[w] \in RosterChoices[w]
      /\ rows = [c \in Composers |-> rows[c]] /\ \A c \in Composers : rows[c] \in RowChoices[c]
      /\ layouts = [c \in Composers |-> layouts[c]] /\ \A c \in Composers : layouts[c] \in LayoutChoices[c]
      /\ messages = [c \in Composers |-> messages[c]] /\ \A c \in Composers : messages[c] \in MessageChoices[c]
  BY <1>1, ChosenIn DEF Init
<1>3. folders \in [Workspaces -> Seq(Text)] /\ Known(folders)
  BY <1>2, ChoicesTyped DEF Known
<1>4. roster \in [Workspaces -> SUBSET Composers]
  BY <1>2, ChoicesTyped
<1>5. rows \in [Composers -> Row]
  BY <1>2, ChoicesTyped
<1>6. layouts \in [Composers -> Seq(Text)]
  BY <1>2, ChoicesTyped
<1>7. messages \in [Composers -> Message]
  BY <1>2, ChoicesTyped
<1>8. /\ ask \in Asks /\ busy \in BOOLEAN /\ todo \in Seq(Sources)
      /\ still \in BOOLEAN /\ writes \in 0 .. MaxWrites /\ faults \in 0 .. MaxFaults
  <2>1. Nothing \in Asks
    BY DEF Nothing, Asks, Ids
  <2>2. <<>> \in Seq(Sources)
    OBVIOUS
  <2>3. /\ ask = Nothing /\ busy = FALSE /\ todo = <<>> /\ still = FALSE
        /\ writes = 0 /\ faults = 0
    BY DEF Init
  <2>4. busy \in BOOLEAN /\ still \in BOOLEAN
    BY <2>3, Zenon
  <2>5. writes \in 0 .. MaxWrites /\ faults \in 0 .. MaxFaults
    BY <1>1, <2>3
  <2> QED
    BY <2>1, <2>2, <2>3, <2>4, <2>5
<1>9. /\ listing.projects \subseteq Project /\ listing.rows \in [Composers -> Row]
      /\ listing.warnings \subseteq Composers /\ tabs \in Warned /\ page \in Warned
  BY EmptyTyped DEF Init, NoList, NoTabs, Warned, Empty
<1> QED
  BY <1>2, <1>3, <1>4, <1>5, <1>6, <1>7, <1>8, <1>9, EmptyTyped DEF Init, TypeOK, WellRead

\* A request starts with nothing read and everything to read.
LEMMA StartTyped ==
    ASSUME NEW a \in Asks, a.kind # "none", Start(a)
    PROVE  /\ ask' \in Asks /\ busy' \in BOOLEAN /\ todo' \in Seq(Sources) /\ got' = Empty
           /\ ask'.kind # "none"
<1>1. a.kind \in {"list", "summaries", "tabs", "tab"}
  BY DEF Asks
<1>2. /\ <<"folders", "roster", "rows", "layouts">> \in Seq(Sources)
      /\ <<"folders", "roster", "layouts", "rows">> \in Seq(Sources)
      /\ <<"folders", "roster", "messages", "layouts", "rows">> \in Seq(Sources)
      /\ <<"folders", "roster", "rows", "layouts", "messages">> \in Seq(Sources)
  BY DEF Sources
<1>3. Reads(a.kind) \in {<<"folders", "roster", "rows", "layouts">>,
                         <<"folders", "roster", "layouts", "rows">>,
                         <<"folders", "roster", "messages", "layouts", "rows">>,
                         <<"folders", "roster", "rows", "layouts", "messages">>}
  BY <1>1 DEF Reads
<1> QED
  BY <1>2, <1>3 DEF Start

\* What the answer to each request changes.
LEMMA AnswerIs ==
    ASSUME Answer
    PROVE  /\ ask.kind = "list" =>
                /\ listing' = [projects |-> Projects(got, folders),
                               warnings |-> Skipped(got.rows), rows |-> got.rows]
                /\ tabs' = tabs /\ page' = page
           /\ ask.kind = "summaries" =>
                tabs' = SummariesOf(ask.ws, got, folders) /\ listing' = listing /\ page' = page
           /\ ask.kind = "tabs" =>
                page' = TabsOf(ask.ws, got, folders) /\ listing' = listing /\ tabs' = tabs
           /\ ask.kind = "tab" =>
                /\ page' = TabOf(ask.ws, ask.chat, got, folders)
                /\ listing' = listing /\ tabs' = tabs
<1>1. CASE ask.kind = "list"
  BY <1>1 DEF Answer
<1>2. CASE ask.kind = "summaries"
  BY <1>2 DEF Answer
<1>3. CASE ask.kind = "tabs"
  BY <1>3 DEF Answer
<1>4. CASE ask.kind = "tab"
  BY <1>4 DEF Answer
<1> QED
  BY <1>1, <1>2, <1>3, <1>4

LEMMA TypeStep == TypeOK /\ WellRead /\ [Next]_vars => TypeOK' /\ WellRead'
<1> SUFFICES ASSUME TypeOK, WellRead, [Next]_vars PROVE TypeOK' /\ WellRead'
  OBVIOUS
<1> DEFINE Disk == UNCHANGED disk
           Shown == UNCHANGED shown
<1>1. MaxWrites \in Nat /\ MaxFaults \in Nat
  BY ViewsAssumption
<1>2. NoList.projects \subseteq Project /\ NoList.rows \in [Composers -> Row]
      /\ NoList.warnings \subseteq Composers /\ NoTabs \in Warned
  BY EmptyTyped DEF NoList, NoTabs, Warned, Empty
<1>3. ASSUME NEW a \in Asks, a.kind # "none", Start(a), Disk,
             UNCHANGED <<writes, faults>>, still' \in BOOLEAN,
             listing' \in {listing, NoList}, tabs' \in {tabs, NoTabs}, page' \in {page, NoTabs}
      PROVE  TypeOK' /\ WellRead'
  <2>1. ask' \in Asks /\ busy' \in BOOLEAN /\ todo' \in Seq(Sources) /\ got' = Empty
        /\ ask'.kind # "none"
    BY <1>3, StartTyped
  <2>2. /\ folders' = folders /\ roster' = roster /\ rows' = rows /\ layouts' = layouts
        /\ messages' = messages
    BY <1>3 DEF disk
  <2>3. WellRead'
    BY <2>1, <2>2, EmptyTyped DEF WellRead, Known
  <2>4. /\ listing'.projects \subseteq Project /\ listing'.rows \in [Composers -> Row]
        /\ listing'.warnings \subseteq Composers /\ tabs' \in Warned /\ page' \in Warned
    BY <1>2, <1>3 DEF TypeOK
  <2> QED
    BY <1>3, <2>1, <2>2, <2>3, <2>4, EmptyTyped DEF TypeOK
<1>4. CASE AskList
  <2>1. [Nothing EXCEPT !.kind = "list"] \in Asks
    BY DEF Nothing, Asks, Ids
  <2>2. [Nothing EXCEPT !.kind = "list"].kind # "none"
    BY DEF Nothing
  <2> QED
    BY <1>3, <1>4, <2>1, <2>2 DEF AskList
<1>5. CASE AskSummaries
  <2>1. PICK p \in listing.projects : \E w \in p.group :
                Start([Nothing EXCEPT !.kind = "summaries", !.ws = w])
    BY <1>5 DEF AskSummaries
  <2> PICK w \in p.group : Start([Nothing EXCEPT !.kind = "summaries", !.ws = w])
    BY <2>1
  <2>2. w \in Ids
    BY DEF TypeOK, Project
  <2>3. [Nothing EXCEPT !.kind = "summaries", !.ws = w] \in Asks
        /\ [Nothing EXCEPT !.kind = "summaries", !.ws = w].kind # "none"
    BY <2>2 DEF Nothing, Asks, Ids
  <2>4. Disk /\ UNCHANGED <<writes, faults>> /\ still' \in BOOLEAN
        /\ listing' = listing /\ tabs' = NoTabs /\ page' = NoTabs
    BY <1>5 DEF AskSummaries, TypeOK
  <2> QED
    BY <1>3, <2>1, <2>3, <2>4
<1>6. CASE AskTabs
  <2>1. PICK p \in listing.projects : Start([Nothing EXCEPT !.kind = "tabs", !.ws = p.id])
    BY <1>6 DEF AskTabs
  <2>2. p.id \in Ids
    BY DEF TypeOK, Project
  <2>3. [Nothing EXCEPT !.kind = "tabs", !.ws = p.id] \in Asks
        /\ [Nothing EXCEPT !.kind = "tabs", !.ws = p.id].kind # "none"
    BY <2>2 DEF Nothing, Asks, Ids
  <2>4. Disk /\ UNCHANGED <<writes, faults>> /\ still' \in BOOLEAN
        /\ listing' = listing /\ tabs' = NoTabs /\ page' = NoTabs
    BY <1>6 DEF AskTabs, TypeOK
  <2> QED
    BY <1>3, <2>1, <2>3, <2>4
<1>7. CASE AskTab
  <2>1. PICK c \in tabs.tabs : Start([kind |-> "tab", ws |-> ask.ws, chat |-> c])
    BY <1>7 DEF AskTab
  <2>2. c \in Composers /\ ask.ws \in Ids
    BY DEF TypeOK, Warned, Asks
  <2>3. [kind |-> "tab", ws |-> ask.ws, chat |-> c] \in Asks
        /\ [kind |-> "tab", ws |-> ask.ws, chat |-> c].kind # "none"
    BY <2>2 DEF Asks
  <2>4. Disk /\ UNCHANGED <<writes, faults>> /\ still' \in BOOLEAN
        /\ listing' = listing /\ tabs' = tabs /\ page' = NoTabs
    BY <1>7 DEF AskTab, TypeOK
  <2> QED
    BY <1>3, <2>1, <2>3, <2>4
<1>8. ASSUME todo # <<>>, todo' = Tail(todo), NEW from, DOMAIN from = Sources,
             got' = [got EXCEPT ![Head(todo)] = from[Head(todo)]],
             /\ from.folders \in [Workspaces -> Seq(Text)]
             /\ from.roster \in [Workspaces -> SUBSET Composers]
             /\ from.rows \in [Composers -> Row] /\ from.layouts \in [Composers -> Seq(Text)]
             /\ from.messages \in [Composers -> Message] /\ Known(from.folders),
             UNCHANGED <<disk, ask, busy, shown, writes>>,
             still' \in BOOLEAN, faults' \in 0 .. MaxFaults
      PROVE  TypeOK' /\ WellRead'
  <2>1. Head(todo) \in Sources /\ todo' \in Seq(Sources)
    BY <1>8, HeadTailProperties DEF TypeOK
  <2>2. DOMAIN got' = Sources /\ \A s \in Sources : got'[s] = IF s = Head(todo) THEN from[s] ELSE got[s]
    BY <1>8, <2>1 DEF WellRead
  <2>3. /\ got'.folders \in {from.folders, got.folders} /\ got'.roster \in {from.roster, got.roster}
        /\ got'.rows \in {from.rows, got.rows} /\ got'.layouts \in {from.layouts, got.layouts}
        /\ got'.messages \in {from.messages, got.messages}
    BY <2>2 DEF Sources
  <2>4. /\ got'.folders \in [Workspaces -> Seq(Text)] /\ got'.roster \in [Workspaces -> SUBSET Composers]
        /\ got'.rows \in [Composers -> Row] /\ got'.layouts \in [Composers -> Seq(Text)]
        /\ got'.messages \in [Composers -> Message] /\ Known(got'.folders)
    BY <1>8, <2>3 DEF TypeOK, WellRead
  <2>5. WellRead'
    BY <1>8, <2>2, <2>4 DEF WellRead, Known, disk
  <2> QED
    BY <1>8, <2>1, <2>4, <2>5 DEF TypeOK, disk, shown
<1>9. CASE Read
  <2>1. /\ OnDisk.folders = folders /\ OnDisk.roster = roster /\ OnDisk.rows = rows
        /\ OnDisk.layouts = layouts /\ OnDisk.messages = messages /\ DOMAIN OnDisk = Sources
    BY DEF OnDisk, Sources
  <2>2. /\ todo # <<>> /\ todo' = Tail(todo)
        /\ got' = [got EXCEPT ![Head(todo)] = OnDisk[Head(todo)]]
        /\ UNCHANGED <<disk, ask, busy, shown, writes>> /\ still' = still /\ faults' = faults
    BY <1>9 DEF Read
  <2>3. /\ still' \in BOOLEAN /\ faults' \in 0 .. MaxFaults
        /\ folders \in [Workspaces -> Seq(Text)] /\ roster \in [Workspaces -> SUBSET Composers]
        /\ rows \in [Composers -> Row] /\ layouts \in [Composers -> Seq(Text)]
        /\ messages \in [Composers -> Message] /\ Known(folders)
    BY <2>2 DEF TypeOK, WellRead
  <2> HIDE DEF OnDisk
  <2> QED
    BY <1>8, <2>1, <2>2, <2>3
<1>10. CASE FailingRead
  <2>1. /\ todo # <<>> /\ todo' = Tail(todo)
        /\ got' = [got EXCEPT ![Head(todo)] = Empty[Head(todo)]]
        /\ UNCHANGED <<disk, ask, busy, shown, writes>> /\ still' = FALSE
        /\ faults' = faults + 1 /\ faults < MaxFaults
    BY <1>10 DEF FailingRead
  <2>2. still' \in BOOLEAN
    BY <2>1, Zenon
  <2>3. faults' \in 0 .. MaxFaults
    BY <1>1, <2>1 DEF TypeOK
  <2> QED
    BY <1>8, <2>1, <2>2, <2>3, EmptyTyped
<1>11. CASE Answer
  <2>1. UNCHANGED <<disk, ask, todo, got, still, writes, faults>> /\ busy' = FALSE /\ busy
    BY <1>11 DEF Answer
  <2>2. WellRead'
    BY <2>1 DEF WellRead, Known, disk
  <2>3. /\ Projects(got, folders) \subseteq Project /\ Skipped(got.rows) \subseteq Composers
        /\ got.rows \in [Composers -> Row] /\ ask.chat \in Composers \cup {None}
        /\ SummariesOf(ask.ws, got, folders) \in Warned /\ TabsOf(ask.ws, got, folders) \in Warned
        /\ TabOf(ask.ws, ask.chat, got, folders) \in Warned
    <3>1. got.rows \in [Composers -> Row] /\ ask.chat \in Composers \cup {None}
      BY DEF TypeOK, Asks
    <3>2. Skipped(got.rows) \subseteq Composers
      BY DEF Skipped
    <3> QED
      BY <3>1, <3>2, AnswersTyped
  <2>4. ask.kind \in {"list", "summaries", "tabs", "tab"}
    BY <2>1 DEF WellRead, TypeOK, Asks
  <2>5. /\ listing'.projects \subseteq Project /\ listing'.rows \in [Composers -> Row]
        /\ listing'.warnings \subseteq Composers /\ tabs' \in Warned /\ page' \in Warned
    BY <1>11, <2>3, <2>4, AnswerIs DEF TypeOK
  <2> QED
    BY <2>1, <2>2, <2>5 DEF TypeOK, disk
<1>12. ASSUME Write, writes < MaxWrites,
              \/ /\ \E w \in Workspaces : \E f \in FolderChoices[w] : folders' = [folders EXCEPT ![w] = f]
                 /\ UNCHANGED <<roster, rows, layouts, messages>>
              \/ /\ folders' = folders /\ roster' \in [Workspaces -> SUBSET Composers]
                 /\ rows' \in [Composers -> Row] /\ layouts' \in [Composers -> Seq(Text)]
                 /\ messages' \in [Composers -> Message]
       PROVE  TypeOK' /\ WellRead'
  <2>1. /\ UNCHANGED <<ask, busy, todo, got, shown, faults>> /\ still' = FALSE /\ writes' = writes + 1
    BY <1>12 DEF Write
  <2>2. writes' \in 0 .. MaxWrites
    BY <1>1, <1>12, <2>1 DEF TypeOK
  <2>3. /\ roster' \in [Workspaces -> SUBSET Composers]
        /\ rows' \in [Composers -> Row] /\ layouts' \in [Composers -> Seq(Text)]
        /\ messages' \in [Composers -> Message]
    BY <1>12 DEF TypeOK
  <2>4. /\ folders' \in [Workspaces -> Seq(Text)] /\ Known(folders')
        /\ \A w \in Workspaces : folders'[w] \in FolderChoices[w]
    <3>1. CASE folders' = folders
      BY <3>1 DEF TypeOK, WellRead
    <3>2. ASSUME NEW w \in Workspaces, NEW f \in FolderChoices[w], folders' = [folders EXCEPT ![w] = f]
          PROVE  /\ folders' \in [Workspaces -> Seq(Text)] /\ Known(folders')
                 /\ \A v \in Workspaces : folders'[v] \in FolderChoices[v]
      <4>1. f \in Seq(Text) /\ \A i \in DOMAIN f : f[i].path # <<>>
        BY ChoicesTyped
      <4>2. \A v \in Workspaces : folders'[v] = IF v = w THEN f ELSE folders[v]
        BY <3>2 DEF TypeOK
      <4>3. folders' \in [Workspaces -> Seq(Text)]
        BY <3>2, <4>1 DEF TypeOK
      <4> QED
        BY <4>1, <4>2, <4>3 DEF WellRead, Known
    <3> QED
      BY <1>12, <3>1, <3>2
  <2>5. WellRead'
    BY <2>1, <2>4 DEF WellRead, Known
  <2> QED
    BY <2>1, <2>2, <2>3, <2>4, <2>5 DEF TypeOK, shown
<1>13. ASSUME NEW w \in Workspaces, WriteFolders(w) PROVE TypeOK' /\ WellRead'
  BY <1>12, <1>13 DEF WriteFolders, Write
<1>14. ASSUME NEW w \in Workspaces, WriteRoster(w) PROVE TypeOK' /\ WellRead'
  <2>1. roster' \in [Workspaces -> SUBSET Composers]
    BY <1>14, ChoicesTyped DEF WriteRoster, TypeOK
  <2> QED
    BY <1>12, <1>14, <2>1 DEF WriteRoster, Write, TypeOK
<1>15. ASSUME NEW c \in Composers, WriteRow(c) PROVE TypeOK' /\ WellRead'
  <2>1. rows' \in [Composers -> Row]
    BY <1>15, ChoicesTyped DEF WriteRow, TypeOK
  <2> QED
    BY <1>12, <1>15, <2>1 DEF WriteRow, Write, TypeOK
<1>16. ASSUME NEW c \in Composers, WriteLayouts(c) PROVE TypeOK' /\ WellRead'
  <2>1. layouts' \in [Composers -> Seq(Text)]
    BY <1>16, ChoicesTyped DEF WriteLayouts, TypeOK
  <2> QED
    BY <1>12, <1>16, <2>1 DEF WriteLayouts, Write, TypeOK
<1>17. ASSUME NEW c \in Composers, WriteMessages(c) PROVE TypeOK' /\ WellRead'
  <2>1. messages' \in [Composers -> Message]
    BY <1>17, ChoicesTyped DEF WriteMessages, TypeOK
  <2> QED
    BY <1>12, <1>17, <2>1 DEF WriteMessages, Write, TypeOK
<1>18. CASE UNCHANGED vars
  BY <1>18 DEF vars, disk, shown, TypeOK, WellRead, Known
<1> QED
  BY <1>4, <1>5, <1>6, <1>7, <1>9, <1>10, <1>11, <1>13, <1>14, <1>15, <1>16, <1>17, <1>18 DEF Next

\* A state of a request, of its answers and of the disk is always of its type.
THEOREM ViewsTypeCorrect == Spec => []TypeOK
<1>1. Spec => [](TypeOK /\ WellRead)
  BY InitTyped, TypeStep, PTL DEF Spec
<1> QED
  BY <1>1, PTL

-----------------------------------------------------------------------------
(* The list.                                                               *)

\* Together, what every state is known to be.
Sound == TypeOK /\ WellRead

LEMMA SoundHolds == Spec => []Sound
<1>1. Init => Sound
  BY InitTyped DEF Sound
<1>2. Sound /\ [Next]_vars => Sound'
  BY TypeStep DEF Sound
<1> QED
  BY <1>1, <1>2, PTL DEF Spec

\* What was read, and what is on disk, is something to answer from.
LEMMA GroundsHold ==
    ASSUME Sound
    PROVE  Grounds(got) /\ Grounds(OnDisk) /\ Known(folders)
BY DEF Sound, TypeOK, WellRead, Grounds, OnDisk

\* Only a request for the list changes the list.
LEMMA ListChanges ==
    Sound /\ [Next]_vars => \/ listing' = listing
                            \/ AskList /\ listing' = NoList
                            \/ Answer /\ ask.kind = "list"
<1> SUFFICES ASSUME Sound, [Next]_vars
             PROVE  \/ listing' = listing
                    \/ AskList /\ listing' = NoList
                    \/ Answer /\ ask.kind = "list"
  OBVIOUS
<1>1. CASE AskList
  BY <1>1 DEF AskList
<1>2. CASE AskSummaries
  BY <1>2 DEF AskSummaries
<1>3. CASE AskTabs
  BY <1>3 DEF AskTabs
<1>4. CASE AskTab
  BY <1>4 DEF AskTab
<1>5. CASE Read \/ FailingRead
  BY <1>5 DEF Read, FailingRead, shown
<1>6. CASE Answer /\ ask.kind # "list"
  <2>1. busy
    BY <1>6 DEF Answer
  <2>2. ask.kind \in {"summaries", "tabs", "tab"}
    BY <1>6, <2>1 DEF Sound, WellRead, TypeOK, Asks
  <2> QED
    BY <1>6, <2>2, AnswerIs
<1>7. ASSUME NEW w \in Workspaces, WriteFolders(w) \/ WriteRoster(w) PROVE listing' = listing
  BY <1>7 DEF WriteFolders, WriteRoster, Write, shown
<1>8. ASSUME NEW c \in Composers, WriteRow(c) \/ WriteLayouts(c) \/ WriteMessages(c)
      PROVE  listing' = listing
  BY <1>8 DEF WriteRow, WriteLayouts, WriteMessages, Write, shown
<1>9. CASE UNCHANGED vars
  BY <1>9 DEF vars, shown
<1> QED
  BY <1>1, <1>2, <1>3, <1>4, <1>5, <1>6, <1>7, <1>8, <1>9 DEF Next

\* A rule that hides a listed conversation matches its name or a folder's.
LEMMA HiddenByName ==
    ASSUME NEW w \in Ids, NEW fs, \A v \in Workspaces : fs[v] \in FolderChoices[v],
           NEW rs, NEW c, Excluded({DisplayName(w, fs), ListTitle(rs[c])})
    PROVE  MayBeHidden(c, rs)
<1>1. None \notin Secret
  BY ResolverAssumption, ViewsAssumption
<1>2. CASE ListTitle(rs[c]) \in Secret
  BY <1>2 DEF ListTitle, MayBeHidden
<1>3. CASE DisplayName(w, fs) \in Secret
  <2>1. w \in Workspaces /\ fs[w] # <<>> /\ Leaf(fs[w][1]) \in Secret
    BY <1>1, <1>3 DEF DisplayName, Ids
  <2> QED
    BY <2>1 DEF MayBeHidden
<1> QED
  BY <1>2, <1>3 DEF Excluded

LEMMA NoneIsLostStep == Sound /\ NoneIsLost /\ [Next]_vars => NoneIsLost'
<1> SUFFICES ASSUME Sound, NoneIsLost, [Next]_vars PROVE NoneIsLost'
  OBVIOUS
<1>1. CASE listing' = listing
  BY <1>1 DEF NoneIsLost
<1>2. CASE listing' = NoList
  <2>1. \A c \in Composers : listing'.rows[c].kind = "none"
    BY <1>2 DEF NoList, NoRows
  <2> QED
    BY <2>1 DEF NoneIsLost
<1>3. CASE Answer /\ ask.kind = "list"
  <2>1. listing' = [projects |-> Projects(got, folders),
                    warnings |-> Skipped(got.rows), rows |-> got.rows]
    BY <1>3, AnswerIs
  <2>2. listing'.projects = Projects(got, folders) /\ listing'.rows = got.rows
        /\ listing'.warnings = Skipped(got.rows)
    BY <2>1
  <2>3. ASSUME NEW c \in Composers, got.rows[c].kind \in {"inline", "chunked"}
        PROVE  \/ Cardinality(Holders(c, Projects(got, folders))) = 1
               \/ Holders(c, Projects(got, folders)) = {} /\ MayBeHidden(c, got.rows)
    <3>1. c \in Readable(got.rows)
      BY <2>3 DEF Readable
    <3>2. Grounds(got) /\ Known(folders)
      BY GroundsHold, Zenon
    <3>3. \/ Cardinality(Holders(c, Projects(got, folders))) = 1
          \/ Holders(c, Projects(got, folders)) = {} /\ HiddenAs(c, got, folders)
      BY <3>1, <3>2, OneProject, Zenon
    <3>4. \A v \in Workspaces : folders[v] \in FolderChoices[v]
      BY DEF Sound, WellRead
    <3>5. HiddenAs(c, got, folders) => MayBeHidden(c, got.rows)
      BY <3>4, HiddenByName DEF HiddenAs
    <3> QED
      BY <3>3, <3>5, Zenon
  <2>4. \A c \in Composers : got.rows[c].kind = "broken" => c \in Skipped(got.rows)
    BY DEF Skipped
  <2>5. \A c \in Composers :
          listing'.rows[c].kind \in {"inline", "chunked"} =>
             \/ Cardinality(Holders(c, listing'.projects)) = 1
             \/ Holders(c, listing'.projects) = {} /\ MayBeHidden(c, listing'.rows)
    BY <2>2, <2>3, Zenon
  <2>6. \A c \in Composers : listing'.rows[c].kind = "broken" => c \in listing'.warnings
    BY <2>2, <2>4, Zenon
  <2> QED
    BY <2>5, <2>6, Zenon DEF NoneIsLost, Holders
<1> QED
  BY <1>1, <1>2, <1>3, ListChanges

\* Whatever Cursor writes while the list reads, and whichever read fails: each
\* conversation the list has read is under one project, or a rule hides it, and
\* each row it could not parse is counted.
THEOREM NoConversationIsLost == Spec => []NoneIsLost
<1>1. Init => NoneIsLost
  <2> SUFFICES ASSUME Init PROVE NoneIsLost
    OBVIOUS
  <2>1. \A c \in Composers : listing.rows[c].kind = "none"
    BY DEF Init, NoList, NoRows
  <2> QED
    BY <2>1 DEF NoneIsLost
<1> QED
  BY <1>1, NoneIsLostStep, SoundHolds, PTL DEF Spec

-----------------------------------------------------------------------------
(* While nothing is written and no read fails.                             *)

\* A step after which nothing has been written leaves the disk alone, and only
\* a request for the list starts such a time.
LEMMA StillSteps ==
    ASSUME [Next]_vars, still'
    PROVE  /\ disk' = disk /\ OnDisk' = OnDisk
           /\ still \/ AskList
<1>1. CASE AskList \/ AskSummaries \/ AskTabs \/ AskTab
  BY <1>1 DEF AskList, AskSummaries, AskTabs, AskTab, disk, OnDisk
<1>2. CASE Read \/ Answer
  <2>1. disk' = disk /\ still' = still
    BY <1>2 DEF Read, Answer
  <2> QED
    BY <2>1 DEF disk, OnDisk
<1>3. CASE FailingRead
  BY <1>3 DEF FailingRead
<1>4. ASSUME NEW w \in Workspaces, WriteFolders(w) \/ WriteRoster(w) PROVE FALSE
  BY <1>4 DEF WriteFolders, WriteRoster, Write
<1>5. ASSUME NEW c \in Composers, WriteRow(c) \/ WriteLayouts(c) \/ WriteMessages(c) PROVE FALSE
  BY <1>5 DEF WriteRow, WriteLayouts, WriteMessages, Write
<1>6. CASE UNCHANGED vars
  BY <1>6 DEF vars, disk, OnDisk
<1> QED
  BY <1>1, <1>2, <1>3, <1>4, <1>5, <1>6 DEF Next

\* What a step of a request does to what is asked, read and still to be read.
LEMMA RequestSteps ==
    ASSUME [Next]_vars, still'
    PROVE  \/ /\ AskList \/ AskSummaries \/ AskTabs \/ AskTab
              /\ busy' /\ todo' = Reads(ask'.kind)
           \/ Read
           \/ Answer
           \/ UNCHANGED vars
<1>1. ASSUME NEW a, Start(a) PROVE busy' /\ todo' = Reads(ask'.kind)
  BY <1>1 DEF Start
<1>2. CASE AskList \/ AskSummaries \/ AskTabs \/ AskTab
  BY <1>1, <1>2 DEF AskList, AskSummaries, AskTabs, AskTab
<1>3. CASE FailingRead
  BY <1>3 DEF FailingRead
<1>4. ASSUME NEW w \in Workspaces, WriteFolders(w) \/ WriteRoster(w) PROVE FALSE
  BY <1>4 DEF WriteFolders, WriteRoster, Write
<1>5. ASSUME NEW c \in Composers, WriteRow(c) \/ WriteLayouts(c) \/ WriteMessages(c) PROVE FALSE
  BY <1>5 DEF WriteRow, WriteLayouts, WriteMessages, Write
<1> QED
  BY <1>2, <1>3, <1>4, <1>5 DEF Next

LEMMA ReadsNowStep == Sound /\ ReadsNow /\ [Next]_vars => ReadsNow'
<1> SUFFICES ASSUME Sound, ReadsNow, [Next]_vars, still', busy',
                    NEW s \in ToSet(Reads(ask'.kind))
             PROVE  s \in ToSet(todo') \/ got'[s] = OnDisk'[s]
  BY DEF ReadsNow
<1>1. CASE todo' = Reads(ask'.kind)
  BY <1>1
<1>2. CASE Read
  <2>1. /\ todo # <<>> /\ todo' = Tail(todo) /\ ask' = ask /\ busy' = busy /\ still' = still
        /\ got' = [got EXCEPT ![Head(todo)] = OnDisk[Head(todo)]]
    BY <1>2 DEF Read
  <2>2. s \in ToSet(todo) \/ got[s] = OnDisk[s]
    BY <2>1 DEF ReadsNow
  <2>3. todo \in Seq(Sources) /\ DOMAIN got = Sources
    BY DEF Sound, TypeOK, WellRead
  <2>4. Head(todo) \in Sources /\ OnDisk' = OnDisk
    BY <2>1, <2>3, StillSteps
  <2>5. CASE s = Head(todo)
    BY <2>1, <2>3, <2>4, <2>5
  <2>6. CASE s # Head(todo) /\ s \in ToSet(todo)
    <3>1. PICK i \in DOMAIN todo : s = todo[i]
      BY <2>6 DEF ToSet
    <3>2. i # 1 /\ i \in 1 .. Len(todo) /\ Len(todo) \in Nat
      BY <2>3, <2>6, <3>1
    <3>3. i - 1 \in DOMAIN Tail(todo) /\ Tail(todo)[i - 1] = todo[i]
      <4>1. /\ Tail(todo) \in Seq(Sources) /\ Len(Tail(todo)) = Len(todo) - 1
            /\ \A j \in 1 .. Len(Tail(todo)) : Tail(todo)[j] = todo[j + 1]
        BY <2>1, <2>3, HeadTailProperties
      <4>2. i - 1 \in 1 .. Len(Tail(todo)) /\ (i - 1) + 1 = i
        BY <3>2, <4>1
      <4>3. i - 1 \in DOMAIN Tail(todo)
        BY <4>1, <4>2
      <4> QED
        BY <4>1, <4>2, <4>3
    <3> QED
      BY <2>1, <3>1, <3>3 DEF ToSet
  <2>7. CASE s # Head(todo) /\ s \notin ToSet(todo)
    <3>1. got'[s] = got[s]
      BY <2>1, <2>3, <2>4, <2>7
    <3> QED
      BY <2>2, <2>4, <2>7, <3>1
  <2> QED
    BY <2>5, <2>6, <2>7
<1>3. CASE Answer
  BY <1>3 DEF Answer
<1>4. CASE UNCHANGED vars
  BY <1>4 DEF vars, disk, OnDisk, ReadsNow
<1> QED
  BY <1>1, <1>2, <1>3, <1>4, RequestSteps

\* An answer needs of what was read only the folders, the rosters, the rows and
\* the layouts, and for tabs the messages.
LEMMA SameGrounds ==
    ASSUME NEW r1, NEW r2, NEW fs, r1.folders = r2.folders, r1.roster = r2.roster,
           r1.rows = r2.rows, r1.layouts = r2.layouts
    PROVE  /\ Projects(r1, fs) = Projects(r2, fs)
           /\ \A w : AssignedTo(w, r1, fs) = AssignedTo(w, r2, fs)
           /\ \A w : SummariesOf(w, r1, fs) = SummariesOf(w, r2, fs)
<1>1. \A w : ListedIn(w, r1, fs, r1.layouts) = ListedIn(w, r2, fs, r2.layouts)
  BY DEF ListedIn
<1>2. ASSUME NEW w PROVE ProjectOf(w, r1, fs) = ProjectOf(w, r2, fs)
  <2>1. {ListedIn(v, r1, fs, r1.layouts) : v \in Group(w, fs)}
          = {ListedIn(v, r2, fs, r2.layouts) : v \in Group(w, fs)}
    BY <1>1
  <2> HIDE DEF ListedIn, Group
  <2> QED
    BY <2>1 DEF ProjectOf
<1>3. Projects(r1, fs) = Projects(r2, fs)
  BY <1>2 DEF Projects
<1>4. ASSUME NEW w PROVE AssignedTo(w, r1, fs) = AssignedTo(w, r2, fs)
  <2>1. {ListedIn(v, r1, fs, r1.layouts) : v \in Group(w, r1.folders)}
          = {ListedIn(v, r2, fs, r2.layouts) : v \in Group(w, r2.folders)}
    BY <1>1
  <2> QED
    BY <2>1 DEF AssignedTo
<1>5. ASSUME NEW w PROVE SummariesOf(w, r1, fs) = SummariesOf(w, r2, fs)
  <2>1. {c \in AssignedTo(w, r1, fs) : ~Excluded({DisplayName(w, fs), ListTitle(r1.rows[c])})}
          = {c \in AssignedTo(w, r2, fs) : ~Excluded({DisplayName(w, fs), ListTitle(r2.rows[c])})}
    BY <1>4
  <2> QED
    BY <2>1 DEF SummariesOf
<1> QED
  BY <1>3, <1>4, <1>5

\* When a request is answered it has read what is on disk.
LEMMA AnsweredFromDisk ==
    ASSUME Sound, ReadsNow, still, Answer
    PROVE  /\ got.folders = folders /\ got.roster = roster /\ got.rows = rows
           /\ got.layouts = layouts
           /\ ask.kind \in {"tabs", "tab"} => got.messages = messages
<1>1. busy /\ todo = <<>>
  BY DEF Answer
<1>2. \A s \in ToSet(Reads(ask.kind)) : got[s] = OnDisk[s]
  BY <1>1 DEF ReadsNow, ToSet
<1>3. ask.kind \in {"list", "summaries", "tabs", "tab"}
  BY <1>1 DEF Sound, WellRead, TypeOK, Asks
<1>4. /\ {"folders", "roster", "rows", "layouts"} \subseteq ToSet(Reads(ask.kind))
      /\ ask.kind \in {"tabs", "tab"} => "messages" \in ToSet(Reads(ask.kind))
  <2>1. CASE ask.kind = "list"
    <3>1. Reads(ask.kind) = <<"folders", "roster", "rows", "layouts">>
      BY <2>1 DEF Reads
    <3> QED
      BY <2>1, <3>1 DEF ToSet
  <2>2. CASE ask.kind = "summaries"
    <3>1. Reads(ask.kind) = <<"folders", "roster", "layouts", "rows">>
      BY <2>2 DEF Reads
    <3> QED
      BY <2>2, <3>1 DEF ToSet
  <2>3. CASE ask.kind = "tabs"
    <3>1. Reads(ask.kind) = <<"folders", "roster", "messages", "layouts", "rows">>
      BY <2>3 DEF Reads
    <3> QED
      BY <3>1 DEF ToSet
  <2>4. CASE ask.kind = "tab"
    <3>1. Reads(ask.kind) = <<"folders", "roster", "rows", "layouts", "messages">>
      BY <2>4 DEF Reads
    <3> QED
      BY <3>1 DEF ToSet
  <2> QED
    BY <1>3, <2>1, <2>2, <2>3, <2>4
<1>5. /\ OnDisk["folders"] = folders /\ OnDisk["roster"] = roster /\ OnDisk["rows"] = rows
      /\ OnDisk["layouts"] = layouts /\ OnDisk["messages"] = messages
  BY DEF OnDisk
<1> QED
  BY <1>2, <1>4, <1>5

LEMMA ListNowStep == Sound /\ ReadsNow /\ ListNow /\ [Next]_vars => ListNow'
<1> SUFFICES ASSUME Sound, ReadsNow, ListNow, [Next]_vars, still',
                    ~(busy' /\ ask'.kind = "list")
             PROVE  listing' = [projects |-> Projects(OnDisk', folders'),
                                warnings |-> Skipped(rows'), rows |-> rows']
  BY DEF ListNow
<1>1. OnDisk' = OnDisk /\ folders' = folders /\ rows' = rows
  BY StillSteps DEF disk
<1>2. ASSUME still, ~(busy /\ ask.kind = "list"), listing' = listing
      PROVE  listing' = [projects |-> Projects(OnDisk', folders'),
                         warnings |-> Skipped(rows'), rows |-> rows']
  BY <1>1, <1>2 DEF ListNow
<1>3. CASE AskList
  BY <1>3 DEF AskList, Start, Nothing
<1>4. CASE AskSummaries \/ AskTabs \/ AskTab
  <2>1. ~busy /\ listing' = listing /\ still
    BY <1>4 DEF AskSummaries, AskTabs, AskTab, Start
  <2> QED
    BY <1>2, <2>1
<1>5. CASE Read \/ UNCHANGED vars
  <2>1. busy' = busy /\ ask' = ask /\ listing' = listing /\ still
    BY <1>5 DEF Read, vars, shown
  <2> QED
    BY <1>2, <2>1
<1>6. CASE Answer
  <2>1. still
    BY <1>6 DEF Answer
  <2>2. CASE ask.kind = "list"
    <3>1. listing' = [projects |-> Projects(got, folders),
                      warnings |-> Skipped(got.rows), rows |-> got.rows]
      BY <1>6, <2>2, AnswerIs
    <3>2. /\ got.folders = folders /\ got.roster = roster /\ got.rows = rows
          /\ got.layouts = layouts
      BY <1>6, <2>1, AnsweredFromDisk
    <3>3. Projects(got, folders) = Projects(OnDisk, folders)
      <4>1. /\ got.folders = OnDisk.folders /\ got.roster = OnDisk.roster
            /\ got.rows = OnDisk.rows /\ got.layouts = OnDisk.layouts
        BY <3>2 DEF OnDisk
      <4> QED
        BY <4>1, SameGrounds
    <3> QED
      BY <1>1, <3>1, <3>2, <3>3
  <2>3. CASE ask.kind # "list"
    <3>1. busy
      BY <1>6 DEF Answer
    <3>2. ask.kind \in {"summaries", "tabs", "tab"}
      BY <2>3, <3>1 DEF Sound, WellRead, TypeOK, Asks
    <3>3. listing' = listing
      BY <1>6, <3>2, AnswerIs
    <3> QED
      BY <1>2, <2>1, <2>3, <3>3
  <2> QED
    BY <2>2, <2>3
<1> QED
  BY <1>3, <1>4, <1>5, <1>6, RequestSteps

\* Who asks is on a page that is linked, and no page changes while it is asked.
LEMMA AskedStep == Sound /\ AskedFromList /\ [Next]_vars => AskedFromList'
<1> SUFFICES ASSUME Sound, AskedFromList, [Next]_vars PROVE AskedFromList'
  OBVIOUS
<1>1. CASE AskList
  <2>1. ask'.kind = "list"
    BY <1>1 DEF AskList, Start, Nothing
  <2> QED
    BY <2>1 DEF AskedFromList
<1>2. CASE AskSummaries
  <2>1. PICK p \in listing.projects : \E w \in p.group :
                Start([Nothing EXCEPT !.kind = "summaries", !.ws = w])
    BY <1>2 DEF AskSummaries
  <2>2. ask'.kind = "summaries" /\ ask'.ws \in p.group
    BY <2>1 DEF Start, Nothing
  <2>3. listing' = listing
    BY <1>2 DEF AskSummaries
  <2> QED
    BY <2>2, <2>3 DEF AskedFromList
<1>3. CASE AskTabs
  <2>1. PICK p \in listing.projects : Start([Nothing EXCEPT !.kind = "tabs", !.ws = p.id])
    BY <1>3 DEF AskTabs
  <2>2. ask'.kind = "tabs" /\ ask'.ws = p.id
    BY <2>1 DEF Start, Nothing
  <2>3. listing' = listing
    BY <1>3 DEF AskTabs
  <2> QED
    BY <2>2, <2>3 DEF AskedFromList
<1>4. CASE AskTab
  <2>1. PICK c \in tabs.tabs : Start([kind |-> "tab", ws |-> ask.ws, chat |-> c])
    BY <1>4 DEF AskTab
  <2>2. ask'.kind = "tab" /\ ask'.chat = c /\ tabs' = tabs
    BY <1>4, <2>1 DEF AskTab, Start
  <2> QED
    BY <2>2 DEF AskedFromList
<1>5. CASE Answer
  <2>1. busy /\ ask' = ask
    BY <1>5 DEF Answer
  <2>2. ask.kind \in {"list", "summaries", "tabs", "tab"}
    BY <2>1 DEF Sound, WellRead, TypeOK, Asks
  <2>3. /\ ask.kind = "list" \/ listing' = listing
        /\ ask.kind = "tab" => tabs' = tabs
    BY <1>5, <2>2, AnswerIs
  <2> QED
    BY <2>1, <2>3 DEF AskedFromList
<1>6. CASE ask' = ask /\ listing' = listing /\ tabs' = tabs
  BY <1>6 DEF AskedFromList
<1>7. CASE Read \/ FailingRead
  BY <1>6, <1>7 DEF Read, FailingRead, shown
<1>8. ASSUME NEW w \in Workspaces, WriteFolders(w) \/ WriteRoster(w) PROVE AskedFromList'
  BY <1>6, <1>8 DEF WriteFolders, WriteRoster, Write, shown
<1>9. ASSUME NEW c \in Composers, WriteRow(c) \/ WriteLayouts(c) \/ WriteMessages(c)
      PROVE  AskedFromList'
  BY <1>6, <1>9 DEF WriteRow, WriteLayouts, WriteMessages, Write, shown
<1>10. CASE UNCHANGED vars
  BY <1>6, <1>10 DEF vars, shown
<1> QED
  BY <1>1, <1>2, <1>3, <1>4, <1>5, <1>7, <1>8, <1>9, <1>10 DEF Next

LEMMA SummariesNowStep == Sound /\ ReadsNow /\ SummariesNow /\ [Next]_vars => SummariesNow'
<1> SUFFICES ASSUME Sound, ReadsNow, SummariesNow, [Next]_vars, still'
             PROVE  tabs'.tabs \subseteq AssignedTo(ask'.ws, OnDisk', folders')
  BY DEF SummariesNow
<1>1. OnDisk' = OnDisk /\ folders' = folders
  BY StillSteps DEF disk
<1>2. ASSUME still, ask'.ws = ask.ws, tabs' = tabs
      PROVE  tabs'.tabs \subseteq AssignedTo(ask'.ws, OnDisk', folders')
  BY <1>1, <1>2 DEF SummariesNow
<1>3. CASE AskList \/ AskSummaries \/ AskTabs
  <2>1. tabs' = NoTabs
    BY <1>3 DEF AskList, AskSummaries, AskTabs
  <2> QED
    BY <2>1 DEF NoTabs
<1>4. CASE AskTab
  <2>1. still /\ ask'.ws = ask.ws /\ tabs' = tabs
    BY <1>4 DEF AskTab, Start
  <2> QED
    BY <1>2, <2>1
<1>5. CASE Read \/ UNCHANGED vars
  <2>1. still /\ ask'.ws = ask.ws /\ tabs' = tabs
    BY <1>5 DEF Read, vars, shown
  <2> QED
    BY <1>2, <2>1
<1>6. CASE Answer
  <2>1. still /\ ask' = ask /\ busy
    BY <1>6 DEF Answer
  <2>2. CASE ask.kind = "summaries"
    <3>1. tabs' = SummariesOf(ask.ws, got, folders)
      BY <1>6, <2>2, AnswerIs
    <3>2. /\ got.folders = OnDisk.folders /\ got.roster = OnDisk.roster
          /\ got.rows = OnDisk.rows /\ got.layouts = OnDisk.layouts
      BY <1>6, <2>1, AnsweredFromDisk DEF OnDisk
    <3>3. AssignedTo(ask.ws, got, folders) = AssignedTo(ask.ws, OnDisk, folders)
      BY <3>2, SameGrounds
    <3>4. tabs'.tabs \subseteq AssignedTo(ask.ws, got, folders)
      BY <3>1 DEF SummariesOf
    <3> QED
      BY <1>1, <2>1, <3>3, <3>4
  <2>3. CASE ask.kind # "summaries"
    <3>1. ask.kind \in {"list", "tabs", "tab"}
      BY <2>1, <2>3 DEF Sound, WellRead, TypeOK, Asks
    <3>2. tabs' = tabs
      BY <1>6, <3>1, AnswerIs
    <3> QED
      BY <1>2, <2>1, <3>2
  <2> QED
    BY <2>2, <2>3
<1> QED
  BY <1>3, <1>4, <1>5, <1>6, RequestSteps

LEMMA ViewsHold == Spec => [](Sound /\ ReadsNow /\ ListNow /\ AskedFromList /\ SummariesNow)
<1>1. Init => ReadsNow /\ ListNow /\ AskedFromList /\ SummariesNow
  BY DEF Init, ReadsNow, ListNow, AskedFromList, SummariesNow, Nothing, NoTabs
<1> QED
  BY <1>1, SoundHolds, ReadsNowStep, ListNowStep, AskedStep, SummariesNowStep, PTL DEF Spec

-----------------------------------------------------------------------------
(* The pages that follow the list.                                         *)

\* A project of the list is that of a workspace, or of "global".
LEMMA ProjectIs ==
    ASSUME NEW r, NEW fs, NEW p \in Projects(r, fs)
    PROVE  \E w \in Ids : p = ProjectOf(w, r, fs) /\ p.id = w /\ p.group = Group(w, fs) /\ p.chats # {}
<1>1. PICK w \in Ids : p = ProjectOf(w, r, fs) /\ p.chats # {}
  BY DEF Projects, Ids
<1>2. ProjectOf(w, r, fs).id = w /\ ProjectOf(w, r, fs).group = Group(w, fs)
  BY DEF ProjectOf
<1> QED
  BY <1>1, <1>2

\* The chats of a project are those assigned to any workspace of its group, but
\* for those a rule hides.
LEMMA ChatsAre ==
    ASSUME NEW r, NEW fs, r.folders = fs, NEW w \in Ids, NEW v \in Group(w, fs), NEW c
    PROVE  c \in ProjectOf(w, r, fs).chats <=>
              /\ c \in AssignedTo(v, r, fs)
              /\ ~Excluded({DisplayName(v, fs), ListTitle(r.rows[c])})
<1>1. Group(v, fs) = Group(w, fs) /\ DisplayName(v, fs) = DisplayName(w, fs)
  BY GroupsPart
<1>2. AssignedTo(v, r, fs) = UNION {ListedIn(u, r, fs, r.layouts) : u \in Group(w, fs)}
  BY <1>1 DEF AssignedTo
<1> QED
  BY <1>1, <1>2 DEF ProjectOf

\* What is answered from the disk, while still, is what would be answered of it.
LEMMA SummariesAgreeStep ==
    Sound /\ ReadsNow /\ ListNow /\ AskedFromList /\ SummariesAgree /\ [Next]_vars => SummariesAgree'
<1> SUFFICES ASSUME Sound, ReadsNow, ListNow, AskedFromList, SummariesAgree, [Next]_vars,
                    still', ~busy', ask'.kind = "summaries"
             PROVE  \E p \in listing'.projects :
                       ask'.ws \in p.group /\ tabs' = [tabs |-> p.chats, warnings |-> listing'.warnings]
  BY DEF SummariesAgree, Answered
<1>1. CASE Answer
  <2>1. still /\ ask' = ask /\ busy
    BY <1>1 DEF Answer
  <2>2. tabs' = SummariesOf(ask.ws, got, folders) /\ listing' = listing
    BY <1>1, <2>1, AnswerIs
  <2>3. /\ got.folders = OnDisk.folders /\ got.roster = OnDisk.roster
        /\ got.rows = OnDisk.rows /\ got.layouts = OnDisk.layouts
    BY <1>1, <2>1, AnsweredFromDisk DEF OnDisk
  <2>4. tabs' = SummariesOf(ask.ws, OnDisk, folders)
    BY <2>2, <2>3, SameGrounds
  <2>5. listing.projects = Projects(OnDisk, folders) /\ listing.warnings = Skipped(rows)
    <3>1. listing = [projects |-> Projects(OnDisk, folders), warnings |-> Skipped(rows), rows |-> rows]
      BY <2>1 DEF ListNow
    <3> QED
      BY <3>1
  <2>6. PICK p \in listing.projects : ask.ws \in p.group
    BY <2>1 DEF AskedFromList
  <2>7. PICK w \in Ids : p = ProjectOf(w, OnDisk, folders) /\ p.group = Group(w, folders)
    BY <2>5, ProjectIs
  <2>8. OnDisk.folders = folders /\ OnDisk.rows = rows
    BY DEF OnDisk
  <2>9. p.chats = {c \in AssignedTo(ask.ws, OnDisk, folders) :
                     ~Excluded({DisplayName(ask.ws, folders), ListTitle(OnDisk.rows[c])})}
    <3>1. \A c : c \in p.chats <=>
             /\ c \in AssignedTo(ask.ws, OnDisk, folders)
             /\ ~Excluded({DisplayName(ask.ws, folders), ListTitle(OnDisk.rows[c])})
      BY <2>6, <2>7, <2>8, ChatsAre
    <3> QED
      BY <3>1
  <2>10. tabs' = [tabs |-> p.chats, warnings |-> listing.warnings]
    BY <2>4, <2>5, <2>8, <2>9 DEF SummariesOf
  <2> QED
    BY <2>1, <2>2, <2>6, <2>10
<1>2. CASE Read \/ UNCHANGED vars
  <2>1. still /\ ask' = ask /\ busy' = busy /\ tabs' = tabs /\ listing' = listing
    BY <1>2 DEF Read, vars, shown
  <2> QED
    BY <2>1 DEF SummariesAgree, Answered
<1> QED
  BY <1>1, <1>2, RequestSteps

LEMMA TabsAreListedStep ==
    Sound /\ ReadsNow /\ ListNow /\ AskedFromList /\ TabsAreListed /\ [Next]_vars => TabsAreListed'
<1> SUFFICES ASSUME Sound, ReadsNow, ListNow, AskedFromList, TabsAreListed, [Next]_vars,
                    still', ~busy', ask'.kind = "tabs"
             PROVE  \E p \in listing'.projects : p.id = ask'.ws /\ page'.tabs \subseteq p.chats
  BY DEF TabsAreListed, Answered
<1>1. CASE Answer
  <2>1. still /\ ask' = ask /\ busy
    BY <1>1 DEF Answer
  <2>2. page' = TabsOf(ask.ws, got, folders) /\ listing' = listing
    BY <1>1, <2>1, AnswerIs
  <2>3. /\ got.folders = folders /\ got.roster = roster /\ got.rows = rows /\ got.layouts = layouts
    BY <1>1, <2>1, AnsweredFromDisk
  <2>4. listing.projects = Projects(OnDisk, folders)
    <3>1. listing = [projects |-> Projects(OnDisk, folders), warnings |-> Skipped(rows), rows |-> rows]
      BY <2>1 DEF ListNow
    <3> QED
      BY <3>1
  <2>5. PICK p \in listing.projects : ask.ws = p.id
    BY <2>1 DEF AskedFromList
  <2>6. ask.ws \in Ids /\ p = ProjectOf(ask.ws, OnDisk, folders)
    BY <2>4, <2>5, ProjectIs
  <2>7. OnDisk.folders = folders /\ OnDisk.rows = rows /\ OnDisk.roster = roster /\ OnDisk.layouts = layouts
    BY DEF OnDisk
  <2>8. AssignedTo(ask.ws, got, folders) = AssignedTo(ask.ws, OnDisk, folders)
    BY <2>3, <2>7, SameGrounds
  <2>9. ask.ws \in Group(ask.ws, OnDisk.folders)
    BY DEF Group
  <2>10. \A c : c \in p.chats <=>
            /\ c \in AssignedTo(ask.ws, OnDisk, folders)
            /\ ~Excluded({DisplayName(ask.ws, folders), ListTitle(rows[c])})
    BY <2>6, <2>7, <2>9, ChatsAre
  <2>11. ASSUME NEW c \in page'.tabs PROVE c \in p.chats
    <3>1. c \in AssignedTo(ask.ws, OnDisk, folders) /\ HasTab(c, ask.ws, got, folders)
      BY <2>2, <2>8 DEF TabsOf
    <3>2. ~Excluded({DisplayName(ask.ws, folders), TabTitle(rows[c], got.messages[c])})
      BY <2>3, <3>1 DEF HasTab
    <3>3. None \notin Secret
      BY ResolverAssumption, ViewsAssumption
    <3>4. ~Excluded({DisplayName(ask.ws, folders), ListTitle(rows[c])})
      BY <3>2, <3>3 DEF Excluded, ListTitle, TabTitle
    <3> QED
      BY <2>10, <3>1, <3>4
  <2> QED
    BY <2>1, <2>2, <2>5, <2>11
<1>2. CASE Read \/ UNCHANGED vars
  <2>1. still /\ ask' = ask /\ busy' = busy /\ page' = page /\ listing' = listing
    BY <1>2 DEF Read, vars, shown
  <2> QED
    BY <2>1 DEF TabsAreListed, Answered
<1> QED
  BY <1>1, <1>2, RequestSteps

\* While nothing is written and no read fails, the summaries of a listed project
\* are the conversations the list counted for it, and so are the skipped rows.
THEOREM SummariesAreTheListed == Spec => []SummariesAgree
<1>1. Init => SummariesAgree
  BY DEF Init, SummariesAgree
<1> QED
  BY <1>1, SummariesAgreeStep, ViewsHold, PTL DEF Spec

\* All tabs of a listed project are among the conversations listed for it.
THEOREM TabsAreOfTheListed == Spec => []TabsAreListed
<1>1. Init => TabsAreListed
  BY DEF Init, TabsAreListed
<1> QED
  BY <1>1, TabsAreListedStep, ViewsHold, PTL DEF Spec

\* A workspace that has lost its folder has no conversation of the list.
THEOREM OrphansOwnNothing == Spec => []NoOrphanOwns
<1>1. Sound /\ ListNow => NoOrphanOwns
  <2> SUFFICES ASSUME Sound, ListNow, still, ~busy, NEW p \in listing.projects,
                      NEW u \in p.group \cap Invalid(folders)
               PROVE  FALSE
    BY DEF NoOrphanOwns, Answered
  <2>1. listing.projects = Projects(OnDisk, folders)
    <3>1. listing = [projects |-> Projects(OnDisk, folders), warnings |-> Skipped(rows), rows |-> rows]
      BY DEF ListNow
    <3> QED
      BY <3>1
  <2>2. PICK w \in Ids : /\ p = ProjectOf(w, OnDisk, folders) /\ p.group = Group(w, folders)
                         /\ p.chats # {}
    BY <2>1, ProjectIs
  <2>3. PICK v \in Group(w, folders) : ListedIn(v, OnDisk, folders, OnDisk.layouts) # {}
    BY <2>2 DEF ProjectOf
  <2>4. PICK c \in Readable(OnDisk.rows) :
            v = Assigned(c, OnDisk.folders, folders, OnDisk.roster, OnDisk.layouts, OnDisk.rows, <<>>)
    BY <2>3 DEF ListedIn
  <2>5. v \in Homes(folders) \cup {"global"}
    <3>1. c \in Composers /\ OnDisk.folders = folders
      BY DEF Readable, OnDisk
    <3> QED
      BY <2>4, <3>1, HomeIn, GroundsHold
  <2>6. v = u
    BY <2>2, <2>3, OrphanIsAlone
  <2> QED
    BY <2>5, <2>6, ResolverAssumption DEF Homes, Invalid
<1> QED
  BY <1>1, ViewsHold, PTL

-----------------------------------------------------------------------------
(* What decides of the heuristics.                                         *)

\* A sequence that starts with the owners of the roots and of the own files.
StartsWith(s, mapped, fs, roots, own) ==
    /\ s \in Seq(Workspaces \cup {None})
    /\ Len(roots) + Len(own) <= Len(s)
    /\ \A i \in 1 .. Len(roots) : s[i] = LayoutOwner(roots[i], mapped)
    /\ \A i \in 1 .. Len(own) : s[Len(roots) + i] = FileOwner(own[i], fs)

\* A root or a file of its own leads somewhere.
Leads(mapped, fs, roots, own) ==
    \/ \E i \in DOMAIN roots : LayoutOwner(roots[i], mapped) # None
    \/ \E i \in DOMAIN own : FileOwner(own[i], fs) # None

\* What a concatenation consists of.
LEMMA Joined ==
    ASSUME NEW S, NEW a \in Seq(S), NEW b \in Seq(S)
    PROVE  /\ a \o b \in Seq(S) /\ Len(a \o b) = Len(a) + Len(b)
           /\ \A i \in 1 .. Len(a) : (a \o b)[i] = a[i]
           /\ \A i \in 1 .. Len(b) : (a \o b)[Len(a) + i] = b[i]
<1>1. /\ a \o b \in Seq(S) /\ Len(a \o b) = Len(a) + Len(b)
      /\ \A i \in 1 .. Len(a) + Len(b) : (a \o b)[i] = IF i <= Len(a) THEN a[i] ELSE b[i - Len(a)]
  BY ConcatProperties
<1>2. Len(a) \in Nat /\ Len(b) \in Nat
  OBVIOUS
<1>3. \A i \in 1 .. Len(a) : (a \o b)[i] = a[i]
  BY <1>1, <1>2
<1>4. ASSUME NEW i \in 1 .. Len(b) PROVE (a \o b)[Len(a) + i] = b[i]
  <2>1. Len(a) + i \in 1 .. Len(a) + Len(b) /\ ~(Len(a) + i <= Len(a)) /\ (Len(a) + i) - Len(a) = i
    BY <1>2
  <2> QED
    BY <1>1, <2>1
<1> QED
  BY <1>1, <1>3, <1>4

\* The candidates of the heuristics: the owners of the roots, then those of the
\* conversation's own files, then others.
LEMMA Candidates ==
    ASSUME NEW mapped, Known(mapped), NEW fs, Known(fs), NEW roots \in Seq(Text),
           NEW own \in Seq(Text), NEW said \in Seq(Text)
    PROVE  \E s : /\ StartsWith(s, mapped, fs, roots, own)
                  /\ Inferred(mapped, fs, roots, own, said) = FirstSome(s)
<1> DEFINE S == Workspaces \cup {None}
           files == own \o said
           s1 == [i \in DOMAIN roots |-> LayoutOwner(roots[i], mapped)]
           s2 == [i \in DOMAIN files |-> FileOwner(files[i], fs)]
           s3 == <<NameOwner(files, fs)>>
<1>1. /\ files \in Seq(Text) /\ Len(files) = Len(own) + Len(said)
      /\ \A i \in 1 .. Len(own) : files[i] = own[i]
  BY ConcatProperties
<1>2. Len(roots) \in Nat /\ Len(own) \in Nat /\ Len(said) \in Nat
  OBVIOUS
<1>3. s1 \in Seq(S) /\ Len(s1) = Len(roots)
      /\ \A i \in 1 .. Len(roots) : s1[i] = LayoutOwner(roots[i], mapped)
  <2>1. \A i \in DOMAIN roots : LayoutOwner(roots[i], mapped) \in S
    BY LayoutOwnerIn DEF Homes
  <2> HIDE DEF S
  <2> QED
    BY <2>1
<1>4. s2 \in Seq(S) /\ Len(s2) = Len(own) + Len(said)
      /\ \A i \in 1 .. Len(own) : s2[i] = FileOwner(own[i], fs)
  <2>1. \A i \in DOMAIN files : FileOwner(files[i], fs) \in S
    BY FileOwnerIn DEF Homes
  <2> HIDE DEF S, files
  <2>2. Len(files) \in Nat /\ DOMAIN files = 1 .. Len(files)
    BY <1>1
  <2>3. s2 = [i \in 1 .. Len(files) |-> FileOwner(files[i], fs)]
    BY <2>2
  <2>4. s2 \in Seq(S) /\ Len(s2) = Len(files)
    BY <2>1, <2>2, <2>3
  <2>5. \A i \in 1 .. Len(own) : s2[i] = FileOwner(own[i], fs)
    BY <1>1, <1>2, <2>3
  <2> QED
    BY <1>1, <2>4, <2>5
<1>5. s3 \in Seq(S) /\ Len(s3) = 1
  <2>1. NameOwner(files, fs) \in S
    BY <1>1, NameOwnerIn DEF Homes
  <2> HIDE DEF S
  <2> QED
    BY <2>1
<1>6. Inferred(mapped, fs, roots, own, said) = FirstSome((s1 \o s2) \o s3)
  BY DEF Inferred
<1> HIDE DEF s1, s2, s3, S
<1>7. /\ s1 \o s2 \in Seq(S) /\ Len(s1 \o s2) = Len(s1) + Len(s2)
      /\ \A i \in 1 .. Len(s1) : (s1 \o s2)[i] = s1[i]
      /\ \A i \in 1 .. Len(s2) : (s1 \o s2)[Len(s1) + i] = s2[i]
  <2>1. s1 \in Seq(S) /\ s2 \in Seq(S)
    BY <1>3, <1>4
  <2> QED
    BY <2>1, Joined
<1> DEFINE r == s1 \o s2
           s == r \o s3
<1>8. /\ s \in Seq(S) /\ Len(s) = Len(r) + Len(s3)
      /\ \A i \in 1 .. Len(r) : s[i] = r[i]
  <2>1. r \in Seq(S) /\ s3 \in Seq(S)
    BY <1>5, <1>7
  <2> HIDE DEF r
  <2> QED
    BY <2>1, Joined
<1>9. Len(roots) + Len(own) <= Len(s)
  BY <1>2, <1>3, <1>4, <1>5, <1>7, <1>8
<1>10. ASSUME NEW i \in 1 .. Len(roots) PROVE s[i] = LayoutOwner(roots[i], mapped)
  <2>1. i \in 1 .. Len(r) /\ i \in 1 .. Len(s1)
    BY <1>2, <1>3, <1>4, <1>7
  <2>2. s[i] = r[i] /\ r[i] = s1[i]
    BY <1>7, <1>8, <2>1
  <2> QED
    BY <1>3, <2>2
<1>11. ASSUME NEW i \in 1 .. Len(own) PROVE s[Len(roots) + i] = FileOwner(own[i], fs)
  <2>1. Len(s1) + i \in 1 .. Len(r) /\ i \in 1 .. Len(s2)
    BY <1>2, <1>3, <1>4, <1>7
  <2>2. s[Len(s1) + i] = r[Len(s1) + i] /\ r[Len(s1) + i] = s2[i]
    BY <1>7, <1>8, <2>1
  <2> QED
    BY <1>3, <1>4, <2>2
<1>12. StartsWith(s, mapped, fs, roots, own)
  BY <1>8, <1>9, <1>10, <1>11 DEF StartsWith, S
<1> QED
  BY <1>6, <1>12

\* Sequences that agree up to an element that is not None have the same first.
LEMMA SameFirst ==
    ASSUME NEW S, NEW s \in Seq(S), NEW t \in Seq(S), NEW m \in Nat, m <= Len(s), m <= Len(t),
           \A k \in 1 .. m : s[k] = t[k], NEW i \in 1 .. m, s[i] # None
    PROVE  FirstSome(s) = FirstSome(t)
<1>1. /\ DOMAIN s = 1 .. Len(s) /\ DOMAIN t = 1 .. Len(t) /\ Len(s) \in Nat /\ Len(t) \in Nat
      /\ i \in DOMAIN s /\ i \in DOMAIN t /\ t[i] # None
  OBVIOUS
<1>2. PICK j \in DOMAIN s : /\ j <= i /\ s[j] # None /\ FirstSome(s) = s[j]
                            /\ \A k \in DOMAIN s : k < j => s[k] = None
  BY <1>1, FirstSomeAt
<1>3. PICK l \in DOMAIN t : /\ l <= i /\ t[l] # None /\ FirstSome(t) = t[l]
                            /\ \A k \in DOMAIN t : k < l => t[k] = None
  BY <1>1, FirstSomeAt
<1>4. j \in 1 .. m /\ l \in 1 .. m
  BY <1>1, <1>2, <1>3
<1>5. ~(j < l) /\ ~(l < j)
  BY <1>1, <1>2, <1>3, <1>4
<1> QED
  BY <1>2, <1>3, <1>4, <1>5

\* With a root or a file of its own that leads somewhere, the messages do not count.
LEMMA MessagesDoNotCount ==
    ASSUME NEW mapped, Known(mapped), NEW fs, Known(fs), NEW roots \in Seq(Text),
           NEW own \in Seq(Text), NEW said \in Seq(Text), NEW heard \in Seq(Text),
           Leads(mapped, fs, roots, own)
    PROVE  Inferred(mapped, fs, roots, own, said) = Inferred(mapped, fs, roots, own, heard)
<1>1. PICK s : /\ StartsWith(s, mapped, fs, roots, own)
               /\ Inferred(mapped, fs, roots, own, said) = FirstSome(s)
  BY Candidates
<1>2. PICK t : /\ StartsWith(t, mapped, fs, roots, own)
               /\ Inferred(mapped, fs, roots, own, heard) = FirstSome(t)
  BY Candidates
<1> DEFINE m == Len(roots) + Len(own)
<1>3. Len(roots) \in Nat /\ Len(own) \in Nat /\ DOMAIN roots = 1 .. Len(roots) /\ DOMAIN own = 1 .. Len(own)
      /\ m \in Nat
  OBVIOUS
<1>4. ASSUME NEW k \in 1 .. m PROVE s[k] = t[k]
  <2>1. CASE k <= Len(roots)
    <3>1. k \in 1 .. Len(roots)
      BY <1>3, <2>1
    <3> QED
      BY <1>1, <1>2, <3>1 DEF StartsWith
  <2>2. CASE ~(k <= Len(roots))
    <3>1. k - Len(roots) \in 1 .. Len(own) /\ Len(roots) + (k - Len(roots)) = k
      BY <1>3, <2>2
    <3>2. /\ s[Len(roots) + (k - Len(roots))] = FileOwner(own[k - Len(roots)], fs)
          /\ t[Len(roots) + (k - Len(roots))] = FileOwner(own[k - Len(roots)], fs)
      BY <1>1, <1>2, <3>1 DEF StartsWith
    <3> QED
      BY <3>1, <3>2
  <2> QED
    BY <2>1, <2>2
<1>5. \E i \in 1 .. m : s[i] # None
  <2>1. ASSUME NEW i \in DOMAIN roots, LayoutOwner(roots[i], mapped) # None PROVE i \in 1 .. m /\ s[i] # None
    BY <1>1, <1>3, <2>1 DEF StartsWith
  <2>2. ASSUME NEW i \in DOMAIN own, FileOwner(own[i], fs) # None
        PROVE  Len(roots) + i \in 1 .. m /\ s[Len(roots) + i] # None
    BY <1>1, <1>3, <2>2 DEF StartsWith
  <2> QED
    BY <2>1, <2>2 DEF Leads
<1> HIDE DEF m
<1>6. FirstSome(s) = FirstSome(t)
  <2>1. /\ m <= Len(s) /\ m <= Len(t)
        /\ s \in Seq(Workspaces \cup {None}) /\ t \in Seq(Workspaces \cup {None})
    BY <1>1, <1>2 DEF m, StartsWith
  <2> QED
    BY <1>3, <1>4, <1>5, <2>1, SameFirst
<1> QED
  BY <1>1, <1>2, <1>6

\* So one that is anchored is assigned alike, whatever its messages refer to.
LEMMA AnchoredAlike ==
    ASSUME Sound, NEW c \in Composers, Anchored(c), NEW said \in Seq(Text)
    PROVE  Assigned(c, folders, folders, roster, layouts, rows, said)
             = Assigned(c, folders, folders, roster, layouts, rows, <<>>)
<1>1. /\ layouts[c] \in Seq(Text) /\ rows[c].own \in Seq(Text) /\ <<>> \in Seq(Text)
      /\ Known(folders)
  BY DEF Sound, TypeOK, WellRead, Row
<1>2. Determined(c, folders, folders, roster, layouts[c], rows[c].own, said)
        = Determined(c, folders, folders, roster, layouts[c], rows[c].own, <<>>)
  <2>1. CASE Registered(c, roster) \notin Invalid(folders) \cup {None}
    BY <2>1 DEF Determined
  <2>2. CASE Leads(folders, folders, layouts[c], rows[c].own)
    <3>1. Inferred(folders, folders, layouts[c], rows[c].own, said)
            = Inferred(folders, folders, layouts[c], rows[c].own, <<>>)
      <4>1. ASSUME NEW roots \in Seq(Text), NEW own \in Seq(Text), NEW heard \in Seq(Text),
                   Leads(folders, folders, roots, own)
            PROVE  Inferred(folders, folders, roots, own, said)
                     = Inferred(folders, folders, roots, own, heard)
        BY <1>1, <4>1, MessagesDoNotCount
      <4> QED
        BY <1>1, <2>2, <4>1
    <3> QED
      BY <3>1 DEF Determined
  <2> QED
    BY <2>1, <2>2 DEF Anchored, Leads
<1> QED
  BY <1>2 DEF Assigned

LEMMA OpensStep ==
    Sound /\ ReadsNow /\ AskedFromList /\ SummariesNow /\ OpensWhatIsAnchored /\ [Next]_vars
    => OpensWhatIsAnchored'
<1> SUFFICES ASSUME Sound, ReadsNow, AskedFromList, SummariesNow, OpensWhatIsAnchored, [Next]_vars,
                    still', ~busy', ask'.kind = "tab", Anchored(ask.chat)', ask'.chat = ask.chat
             PROVE  page'.tabs = {ask.chat} \/ ~HasTab(ask.chat, ask.ws, OnDisk, folders)'
  <2>1. CASE ask' = ask
    BY <2>1 DEF OpensWhatIsAnchored, Answered
  <2>2. CASE ask' # ask
    BY <2>2, RequestSteps DEF OpensWhatIsAnchored, Answered, Read, Answer, vars
  <2> QED
    BY <2>1, <2>2
<1> USE DEF Answered
<1>1. CASE Answer
  <2>1. still /\ ask' = ask /\ busy /\ disk' = disk /\ OnDisk' = OnDisk
    BY <1>1, StillSteps DEF Answer
  <2>2. folders' = folders /\ roster' = roster /\ rows' = rows /\ layouts' = layouts
    BY <2>1 DEF disk
  <2>3. page' = TabOf(ask.ws, ask.chat, got, folders)
    BY <1>1, <2>1, AnswerIs
  <2>4. /\ got.folders = folders /\ got.roster = roster /\ got.rows = rows /\ got.layouts = layouts
        /\ got.messages = messages
    BY <1>1, <2>1, AnsweredFromDisk
  <2> DEFINE c == ask.chat
  <2>5. c \in AssignedTo(ask.ws, OnDisk, folders)
    BY <2>1 DEF AskedFromList, SummariesNow
  <2>6. /\ c \in Readable(rows)
        /\ Assigned(c, folders, folders, roster, layouts, rows, <<>>) \in Group(ask.ws, folders)
    BY <2>5 DEF AssignedTo, ListedIn, OnDisk
  <2>7. c \in Composers /\ messages[c].files \in Seq(Text)
    BY <2>6 DEF Readable, Sound, TypeOK, Message
  <2>8. Anchored(c)
    BY <2>1, <2>2 DEF Anchored
  <2>9. Assigned(c, folders, folders, roster, layouts, rows, messages[c].files) \in Group(ask.ws, folders)
    BY <2>6, <2>7, <2>8, AnchoredAlike
  <2>10. [layouts EXCEPT ![c] = got.layouts[c]] = layouts /\ [rows EXCEPT ![c] = got.rows[c]] = rows
    BY <2>4, <2>7 DEF Sound, TypeOK
  <2>11. HasTab(c, ask.ws, got, folders) <=> HasTab(c, ask.ws, OnDisk, folders)
    BY <2>4 DEF HasTab, OnDisk
  <2>12. ASSUME HasTab(c, ask.ws, OnDisk, folders) PROVE page'.tabs = {c}
    <3>1. \A d \in {c} \cap Readable(rows) : d = c
      OBVIOUS
    <3>2. page'.tabs =
            {d \in {c} \cap Readable(rows) :
               /\ Assigned(d, folders, folders, roster, [layouts EXCEPT ![d] = got.layouts[d]],
                           [rows EXCEPT ![d] = got.rows[d]], messages[d].files) \in Group(ask.ws, folders)
               /\ HasTab(d, ask.ws, got, folders)}
      BY <2>3, <2>4 DEF TabOf
    <3>3. c \in page'.tabs
      BY <2>6, <2>9, <2>10, <2>11, <2>12, <3>2
    <3> QED
      BY <3>2, <3>3
  <2> QED
    BY <2>1, <2>2, <2>12 DEF HasTab, DisplayName
<1>2. CASE Read \/ UNCHANGED vars
  <2>1. still /\ ask' = ask /\ busy' = busy /\ page' = page /\ OnDisk' = OnDisk /\ disk' = disk
    BY <1>2, StillSteps DEF Read, vars, shown
  <2> QED
    BY <2>1 DEF OpensWhatIsAnchored, Anchored, disk, HasTab, DisplayName
<1> QED
  BY <1>1, <1>2, RequestSteps

\* A conversation of the summaries that is anchored opens, unless it has nothing
\* to show or its first message brings it under a rule.
THEOREM AnchoredOpens == Spec => []OpensWhatIsAnchored
<1>1. Init => OpensWhatIsAnchored
  BY DEF Init, OpensWhatIsAnchored
<1> QED
  BY <1>1, OpensStep, ViewsHold, PTL DEF Spec

\* On Windows a folder contains a file when its path starts that of the file.
LEMMA AroundIs ==
    ASSUME Host = "win32", NEW w, NEW file
    PROVE  Around(w, file, folders) = Depths(w, file)
<1>1. \A u : Within(file, u) <=> IsPrefix(u.path, file.path)
  BY DEF Within, Normal
<1> QED
  BY <1>1 DEF Around, Depths

\* On Windows, a conversation nothing else is known of is listed under the
\* innermost folder around the first file it has touched.  (On a POSIX host it
\* is not: see the run WorkspaceViewsPosix.)
THEOREM InnermostOwnsOnWindows ==
    ASSUME Host = "win32"
    PROVE  Spec => []InnermostOwns
<1>1. Sound /\ ListNow => InnermostOwns
  <2> SUFFICES ASSUME Sound, ListNow, still, ~busy, NEW p \in listing.projects, NEW c \in p.chats,
                      Registered(c, roster) \in Invalid(folders) \cup {None},
                      layouts[c] = <<>>, rows[c].own # <<>>,
                      NEW around, around = {w \in Workspaces : Depths(w, Head(rows[c].own)) # {}},
                      around # {}
               PROVE  \E w \in p.group \cap around : \A v \in around :
                         Max(Depths(v, Head(rows[c].own))) <= Max(Depths(w, Head(rows[c].own)))
    BY DEF InnermostOwns, Answered
  <2> DEFINE own == rows[c].own
             owner == FileOwner(Head(own), folders)
  <2>1. listing.projects = Projects(OnDisk, folders)
    <3>1. listing = [projects |-> Projects(OnDisk, folders), warnings |-> Skipped(rows), rows |-> rows]
      BY DEF ListNow
    <3> QED
      BY <3>1
  <2>2. PICK w \in Ids : p = ProjectOf(w, OnDisk, folders) /\ p.group = Group(w, folders)
    BY <2>1, ProjectIs
  <2>3. PICK v \in p.group : c \in ListedIn(v, OnDisk, folders, OnDisk.layouts)
    BY <2>2 DEF ProjectOf
  <2>4. c \in Readable(rows) /\ Assigned(c, folders, folders, roster, layouts, rows, <<>>) = v
    BY <2>3 DEF ListedIn, OnDisk
  <2>5. own \in Seq(Text) /\ Known(folders) /\ <<>> \in Seq(Text)
    BY <2>4 DEF Readable, Sound, TypeOK, WellRead, Row
  <2>6. around = {x \in Workspaces : Around(x, Head(own), folders) # {}}
    BY AroundIs
  <2>7. /\ owner \in around
        /\ \A x \in around :
              Max(Around(x, Head(own), folders)) <= Max(Around(owner, Head(own), folders))
    BY <2>5, <2>6, FileOwnerIs
  <2>8. owner # None
    BY <2>6, <2>7, ResolverAssumption
  <2>9. Inferred(folders, folders, layouts[c], own, <<>>) = owner
    <3>1. PICK s : /\ StartsWith(s, folders, folders, <<>>, own)
                   /\ Inferred(folders, folders, <<>>, own, <<>>) = FirstSome(s)
      <4>1. ASSUME NEW roots \in Seq(Text), NEW files \in Seq(Text), NEW said \in Seq(Text)
            PROVE  \E s : /\ StartsWith(s, folders, folders, roots, files)
                          /\ Inferred(folders, folders, roots, files, said) = FirstSome(s)
        BY <2>5, Candidates
      <4> HIDE DEF own
      <4> QED
        BY <2>5, <4>1
    <3>2. Len(own) \in Nat /\ Len(own) # 0 /\ own[1] = Head(own)
      BY <2>5
    <3>3. s \in Seq(Workspaces \cup {None}) /\ 1 \in DOMAIN s /\ s[1] = owner
      BY <3>1, <3>2 DEF StartsWith
    <3>4. PICK j \in DOMAIN s : j <= 1 /\ FirstSome(s) = s[j]
      BY <2>8, <3>3, FirstSomeAt
    <3>5. j = 1
      BY <3>3, <3>4
    <3> QED
      BY <3>1, <3>3, <3>4, <3>5
  <2>10. v = owner
    <3>1. Determined(c, folders, folders, roster, layouts[c], own, <<>>) = owner
      BY <2>9 DEF Determined
    <3>2. \A x : FirstSome(<<owner, x>>) = owner
      <4>1. SUFFICES ASSUME NEW x PROVE FirstSome(<<owner, x>>) = owner
        OBVIOUS
      <4> HIDE DEF owner
      <4>2. <<owner, x>> \in Seq({owner, x}) /\ 1 \in DOMAIN <<owner, x>> /\ <<owner, x>>[1] = owner
        OBVIOUS
      <4>3. PICK j \in DOMAIN <<owner, x>> : j <= 1 /\ FirstSome(<<owner, x>>) = <<owner, x>>[j]
        BY <2>8, <4>2, FirstSomeAt
      <4> QED
        BY <4>3
    <3> HIDE DEF owner
    <3> QED
      BY <2>4, <2>8, <3>1, <3>2 DEF Assigned
  <2>11. owner \in p.group \cap around
    BY <2>3, <2>7, <2>10
  <2> HIDE DEF owner
  <2> QED
    BY <2>7, <2>11, AroundIs
<1> QED
  BY <1>1, ViewsHold, PTL
===============================================================================
