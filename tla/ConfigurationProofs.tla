-------------------------- MODULE ConfigurationProofs --------------------------
(***************************************************************************)
(* Proofs about Configuration, for every number of worker processes, every *)
(* set of deployments, rules files and paths.                              *)
(***************************************************************************)
EXTENDS Configuration, SequenceTheorems, WellFoundedInduction, TLAPS

\* The server can tell when it has several workers: one of the variables that
\* DEPLOYMENT.md names is set (lines 69-71).
WorkersKnown ==
    \A d \in Deployments : (\E v, w \in d.workers : v # w) => MultiWorker(d)

\* A process has an override only where nothing says that there are others.
OverrideIsAlone ==
    /\ deployment \in Deployments
    /\ DOMAIN override = Workers
    /\ \A w \in Workers : override[w] # None => ~MultiWorker(deployment)

LEMMA OverrideInit == Init => OverrideIsAlone
<1> SUFFICES ASSUME Init PROVE OverrideIsAlone
  OBVIOUS
<1>1. deployment \in Deployments
  BY ConfigurationAssumption DEF Init
<1>2. override = [w \in Workers |-> None]
  BY DEF Init
<1> QED
  BY <1>1, <1>2 DEF OverrideIsAlone

LEMMA OverrideStep == OverrideIsAlone /\ [Next]_vars => OverrideIsAlone'
<1> SUFFICES ASSUME OverrideIsAlone, [Next]_vars PROVE OverrideIsAlone'
  OBVIOUS
<1> USE DEF OverrideIsAlone
<1>1. ASSUME NEW w \in Workers, Restart(w) PROVE OverrideIsAlone'
  <2>1. deployment' = deployment /\ override' = [override EXCEPT ![w] = None]
    BY <1>1 DEF Restart
  <2> QED
    BY <2>1 DEF MultiWorker
<1>2. ASSUME NEW w \in Workers, Validate(w) PROVE OverrideIsAlone'
  <2>1. deployment' = deployment /\ override' = override
    BY <1>2 DEF Validate
  <2> QED
    BY <2>1 DEF MultiWorker
<1>3. ASSUME NEW w \in Workers, Store(w) PROVE OverrideIsAlone'
  <2>1. deployment' = deployment
    BY <1>3 DEF Store
  <2>2. CASE MultiWorker(deployment)
    BY <1>3, <2>1, <2>2 DEF Store
  <2>3. CASE ~MultiWorker(deployment)
    <3>1. override' = [override EXCEPT ![w] = pending[w]]
      BY <1>3, <2>3 DEF Store
    <3> QED
      BY <2>1, <2>3, <3>1
  <2> QED
    BY <2>2, <2>3
<1>4. CASE (\E s \in Storages : Mark(s)) \/ EditRules \/ UNCHANGED vars
  <2>1. deployment' = deployment /\ override' = override
    BY <1>4 DEF Mark, EditRules, vars
  <2> QED
    BY <2>1 DEF MultiWorker
<1> QED
  BY <1>1, <1>2, <1>3, <1>4 DEF Next

\* Only a server that counts itself single ever stores an override, whatever the
\* order of validation, storing and replacement of processes.
THEOREM OverrideOnlyAlone == Spec => []OverrideIsAlone
<1> QED
  BY OverrideInit, OverrideStep, PTL DEF Spec

\* Where the server can tell that it has several workers, they all read the same
\* storage, however many they are.
THEOREM WorkersReadOneStorage == ASSUME WorkersKnown PROVE Spec => []WorkersAgree
<1>1. OverrideIsAlone => WorkersAgree
  <2> SUFFICES ASSUME OverrideIsAlone, NEW v \in deployment.workers, NEW w \in deployment.workers
               PROVE Resolve(v) = Resolve(w)
    BY DEF WorkersAgree
  <2>1. CASE v = w
    BY <2>1
  <2>2. CASE v # w
    <3>1. v \in Workers /\ w \in Workers
      BY ConfigurationAssumption DEF OverrideIsAlone
    <3>2. MultiWorker(deployment)
      BY <2>2, WorkersKnown DEF WorkersKnown, OverrideIsAlone
    <3> QED
      BY <3>1, <3>2 DEF OverrideIsAlone, Resolve
  <2> QED
    BY <2>1, <2>2
<1> QED
  BY <1>1, OverrideOnlyAlone, PTL

-----------------------------------------------------------------------------
(* Positions in a line.                                                    *)

\* Some natural number of a set of them is the least.
LEMMA LeastNat ==
    ASSUME NEW T \in SUBSET Nat, T # {}
    PROVE  \E n \in T : \A m \in T : n <= m
<1>1. PICK n \in T : \A m \in T : ~(<<m, n>> \in OpToRel(<, Nat))
  <2>1. IsWellFoundedOn(OpToRel(<, Nat), Nat)
    BY NatLessThanWellFounded
  <2> HIDE DEF OpToRel
  <2> QED
    BY <2>1, WFMin, Zenon
<1>2. ASSUME NEW m \in T PROVE n <= m
  <2>1. ~(m < n)
    BY <1>1 DEF OpToRel
  <2> QED
    BY <2>1
<1> QED
  BY <1>2

\* Min finds it.
LEMMA MinIn ==
    ASSUME NEW T \in SUBSET Nat, T # {}
    PROVE  Min(T) \in T /\ \A m \in T : Min(T) <= m
BY LeastNat DEF Min


\* A set of natural numbers below a bound has a greatest.
LEMMA GreatestNat ==
    ASSUME NEW T \in SUBSET Nat, T # {}, NEW b \in Nat, \A m \in T : m <= b
    PROVE  \E n \in T : \A m \in T : m <= n
<1> DEFINE U == {u \in Nat : \A m \in T : m <= u}
<1>1. PICK u \in U : \A v \in U : u <= v
  <2>1. U \in SUBSET Nat /\ U # {}
    OBVIOUS
  <2> HIDE DEF U
  <2> QED
    BY <2>1, LeastNat
<1>2. CASE u \in T
  BY <1>1, <1>2
<1>3. CASE u \notin T
  <2>1. u \in Nat /\ \A m \in T : m <= u /\ m \in Nat
    OBVIOUS
  <2>2. \A m \in T : m <= u - 1
    BY <1>3, <2>1
  <2>3. u - 1 \in Nat
    <3>1. PICK m \in T : TRUE
      OBVIOUS
    <3> QED
      BY <2>1, <2>2, <3>1
  <2>4. u - 1 \in U
    BY <2>2, <2>3
  <2> QED
    BY <1>1, <2>1, <2>4
<1> QED
  BY <1>2, <1>3

\* Max finds it.
LEMMA MaxIn ==
    ASSUME NEW T \in SUBSET Nat, T # {}, NEW b \in Nat, \A m \in T : m <= b
    PROVE  Max(T) \in T /\ \A m \in T : m <= Max(T)
<1>1. \E n \in T : \A m \in T : n >= m
  BY GreatestNat
<1> QED
  BY <1>1 DEF Max

-----------------------------------------------------------------------------
(* Tokens.                                                                 *)

Token == [op : Keywords \cup {"term"}, value : Seq(Pieces)]

\* A piece of a line is a line.
LEMMA PartTyped ==
    ASSUME NEW s \in Seq(Pieces), NEW a \in Nat \ {0}, NEW b \in Int, b <= Len(s)
    PROVE  SubSeq(s, a, b) \in Seq(Pieces)
<1>1. \A i \in a .. b : s[i] \in Pieces
  BY SMT
<1>2. a \in Int
  OBVIOUS
<1> QED
  BY <1>1, <1>2, SubSeqProperties

\* Strip takes a piece.
LEMMA StripTyped ==
    ASSUME NEW s \in Seq(Pieces)
    PROVE  Strip(s) \in Seq(Pieces)
<1> DEFINE solid == {i \in DOMAIN s : s[i] # "space"}
<1>1. CASE solid = {}
  BY <1>1 DEF Strip
<1>2. CASE solid # {}
  <2>1. Len(s) \in Nat /\ DOMAIN s = 1 .. Len(s)
    OBVIOUS
  <2>2. solid \in SUBSET Nat /\ \A i \in solid : i \in Nat \ {0} /\ i <= Len(s)
    BY <2>1
  <2>3. Strip(s) = SubSeq(s, Min(solid), Max(solid))
    BY <1>2, Zenon DEF Strip
  <2> HIDE DEF solid
  <2>4. Min(solid) \in solid
    BY <1>2, <2>2, MinIn
  <2>5. Max(solid) \in solid
    BY <1>2, <2>1, <2>2, MaxIn
  <2>6. Min(solid) \in Nat \ {0} /\ Max(solid) \in Nat /\ Max(solid) <= Len(s)
    BY <2>2, <2>4, <2>5, Zenon
  <2>7. Max(solid) \in Int
    BY <2>6
  <2> QED
    BY <2>3, <2>6, <2>7, PartTyped
<1> QED
  BY <1>1, <1>2

\* What tokenize_rule makes of a line from position i on, when f says what it makes of
\* it further on.
TokenAt(line, f, i) ==
    LET Closing(k) == {j \in (k + 1) .. Len(line) : line[j] = "quote"} IN
    IF i > Len(line) THEN <<>>
    ELSE IF line[i] = "space" THEN f[i + 1]
    ELSE IF Keyword(line, i) THEN <<Operator(line[i])>> \o f[i + 1]
    ELSE IF line[i] # "quote"
      THEN <<Term(SubSeq(line, i, WordEnd(line, i) - 1))>> \o f[WordEnd(line, i)]
    ELSE IF Closing(i) = {}
      THEN <<Term(Strip(SubSeq(line, i + 1, Len(line))))>>
    ELSE LET j == Min(Closing(i))
         IN  <<Term(SubSeq(line, i + 1, j - 1))>> \o f[j + 1]

\* A word ends behind its beginning.
LEMMA WordEndIs ==
    ASSUME NEW line \in Seq(Pieces), NEW i \in 1 .. Len(line), line[i] # "space"
    PROVE  WordEnd(line, i) \in i + 1 .. Len(line) + 1
<1> DEFINE T == {j \in i .. Len(line) : line[j] = "space"} \cup {Len(line) + 1}
<1>1. Len(line) \in Nat /\ i \in Nat /\ i <= Len(line)
  OBVIOUS
<1>2. T \in SUBSET Nat /\ T # {} /\ \A j \in T : j \in i + 1 .. Len(line) + 1
  <2>1. \A j \in i .. Len(line) : line[j] = "space" => j # i
    OBVIOUS
  <2> QED
    BY <1>1, <2>1
<1>3. WordEnd(line, i) = Min(T)
  BY Zenon DEF WordEnd
<1> HIDE DEF T
<1>4. Min(T) \in T
  BY <1>2, MinIn
<1> QED
  BY <1>2, <1>3, <1>4

\* A phrase ends behind its beginning.
LEMMA ClosingIs ==
    ASSUME NEW line \in Seq(Pieces), NEW i \in 1 .. Len(line),
           {j \in (i + 1) .. Len(line) : line[j] = "quote"} # {}
    PROVE  Min({j \in (i + 1) .. Len(line) : line[j] = "quote"}) \in i + 1 .. Len(line)
<1> DEFINE T == {j \in (i + 1) .. Len(line) : line[j] = "quote"}
<1>1. T \in SUBSET Nat /\ T \subseteq i + 1 .. Len(line)
  BY SMT
<1> HIDE DEF T
<1>2. T # {}
  BY DEF T
<1>3. Min(T) \in T
  BY <1>1, <1>2, MinIn
<1>4. Min(T) \in i + 1 .. Len(line)
  BY <1>1, <1>3
<1> QED
  BY <1>4 DEF T

\* Tokens are built one before the other.
LEMMA OneMore ==
    ASSUME NEW t \in Token, NEW s \in Seq(Token)
    PROVE  <<t>> \o s \in Seq(Token)
<1>1. <<t>> \in Seq(Token)
  OBVIOUS
<1> QED
  BY <1>1, ConcatProperties

\* An operator and a term are tokens.
LEMMA TokenTyped ==
    /\ \A k \in Keywords : Operator(k) \in Token
    /\ \A v \in Seq(Pieces) : Term(v) \in Token
<1>1. <<>> \in Seq(Pieces)
  OBVIOUS
<1> QED
  BY <1>1 DEF Operator, Term, Token

\* What follows position i is known to be tokens, or the same by f and by g.
TypedAfter(f, i, line) == \A j \in i + 1 .. Len(line) + 1 : f[j] \in Seq(Token)

SameAfter(f, g, i, line) == \A j \in i + 1 .. Len(line) + 1 : f[j] = g[j]

\* Each step looks further on only.
LEMMA TokenAtTyped ==
    ASSUME NEW line \in Seq(Pieces), NEW i \in 1 .. Len(line) + 1, NEW f, TypedAfter(f, i, line)
    PROVE  TokenAt(line, f, i) \in Seq(Token)
<1> DEFINE C == {j \in (i + 1) .. Len(line) : line[j] = "quote"}
<1>1. Len(line) \in Nat /\ i \in Nat \ {0}
  OBVIOUS
<1>2. CASE i > Len(line)
  <2>1. TokenAt(line, f, i) = <<>>
    BY <1>2, Zenon DEF TokenAt
  <2> QED
    BY <2>1
<1>3. CASE ~(i > Len(line))
  <2>1. i \in 1 .. Len(line) /\ i + 1 \in i + 1 .. Len(line) + 1
    BY <1>1, <1>3
  <2>2. f[i + 1] \in Seq(Token)
    BY <2>1, Zenon DEF TypedAfter
  <2>3. CASE line[i] = "space"
    <3>1. TokenAt(line, f, i) = f[i + 1]
      BY <1>3, <2>3, Zenon DEF TokenAt
    <3> QED
      BY <2>2, <3>1
  <2>4. CASE line[i] # "space" /\ Keyword(line, i)
    <3>1. TokenAt(line, f, i) = <<Operator(line[i])>> \o f[i + 1]
      BY <1>3, <2>4, Zenon DEF TokenAt
    <3>2. Operator(line[i]) \in Token
      BY <2>4, TokenTyped, Zenon DEF Keyword
    <3> QED
      BY <2>2, <3>1, <3>2, OneMore
  <2>5. CASE line[i] # "space" /\ ~Keyword(line, i) /\ line[i] # "quote"
    <3> DEFINE e == WordEnd(line, i)
    <3>1. TokenAt(line, f, i) = <<Term(SubSeq(line, i, e - 1))>> \o f[e]
      BY <1>3, <2>5, Zenon DEF TokenAt
    <3>2. e \in i + 1 .. Len(line) + 1
      BY <2>1, <2>5, WordEndIs
    <3>3. f[e] \in Seq(Token)
      BY <3>2, Zenon DEF TypedAfter
    <3> HIDE DEF e
    <3>4. e - 1 \in Int /\ e - 1 <= Len(line)
      BY <1>1, <3>2
    <3>5. SubSeq(line, i, e - 1) \in Seq(Pieces)
      BY <1>1, <3>4, PartTyped
    <3>6. Term(SubSeq(line, i, e - 1)) \in Token
      BY <3>5, TokenTyped, Zenon
    <3> QED
      BY <3>1, <3>3, <3>6, OneMore
  <2>6. CASE line[i] # "space" /\ ~Keyword(line, i) /\ line[i] = "quote" /\ C = {}
    <3>1. TokenAt(line, f, i) = <<Term(Strip(SubSeq(line, i + 1, Len(line))))>>
      BY <1>3, <2>6, Zenon DEF TokenAt
    <3>2. i + 1 \in Nat \ {0} /\ Len(line) \in Int /\ Len(line) <= Len(line)
      BY <1>1
    <3>3. Strip(SubSeq(line, i + 1, Len(line))) \in Seq(Pieces)
      BY <3>2, PartTyped, StripTyped
    <3>4. Term(Strip(SubSeq(line, i + 1, Len(line)))) \in Token
      BY <3>3, TokenTyped, Zenon
    <3> QED
      BY <3>1, <3>4
  <2>7. CASE line[i] # "space" /\ ~Keyword(line, i) /\ line[i] = "quote" /\ C # {}
    <3> DEFINE e == Min(C)
    <3>1. TokenAt(line, f, i) = <<Term(SubSeq(line, i + 1, e - 1))>> \o f[e + 1]
      BY <1>3, <2>7, Zenon DEF TokenAt
    <3>2. e \in i + 1 .. Len(line)
      BY <2>1, <2>7, ClosingIs
    <3> HIDE DEF e
    <3>3. e + 1 \in i + 1 .. Len(line) + 1
      BY <1>1, <3>2
    <3>4. f[e + 1] \in Seq(Token)
      BY <3>3, Zenon DEF TypedAfter
    <3>5. i + 1 \in Nat \ {0} /\ e - 1 \in Int /\ e - 1 <= Len(line)
      BY <1>1, <3>2
    <3>6. SubSeq(line, i + 1, e - 1) \in Seq(Pieces)
      BY <3>5, PartTyped
    <3>7. Term(SubSeq(line, i + 1, e - 1)) \in Token
      BY <3>6, TokenTyped, Zenon
    <3> QED
      BY <3>1, <3>4, <3>7, OneMore
  <2> QED
    BY <2>3, <2>4, <2>5, <2>6, <2>7
<1> QED
  BY <1>2, <1>3

\* And so what it makes of a line depends on that alone.
LEMMA TokenAtSame ==
    ASSUME NEW line \in Seq(Pieces), NEW i \in 1 .. Len(line) + 1, NEW f, NEW g,
           SameAfter(f, g, i, line)
    PROVE  TokenAt(line, f, i) = TokenAt(line, g, i)
<1> DEFINE C == {j \in (i + 1) .. Len(line) : line[j] = "quote"}
<1>1. Len(line) \in Nat /\ i \in Nat \ {0}
  OBVIOUS
<1>2. CASE i > Len(line)
  BY <1>2, Zenon DEF TokenAt
<1>3. CASE ~(i > Len(line))
  <2>1. i \in 1 .. Len(line) /\ i + 1 \in i + 1 .. Len(line) + 1
    BY <1>1, <1>3
  <2>2. f[i + 1] = g[i + 1]
    BY <2>1, Zenon DEF SameAfter
  <2>3. CASE line[i] = "space" \/ Keyword(line, i)
    BY <1>3, <2>2, <2>3, Zenon DEF TokenAt
  <2>4. CASE line[i] # "space" /\ ~Keyword(line, i) /\ line[i] # "quote"
    <3>1. WordEnd(line, i) \in i + 1 .. Len(line) + 1
      BY <2>1, <2>4, WordEndIs
    <3>2. f[WordEnd(line, i)] = g[WordEnd(line, i)]
      BY <3>1, Zenon DEF SameAfter
    <3> QED
      BY <1>3, <2>4, <3>2, Zenon DEF TokenAt
  <2>5. CASE line[i] # "space" /\ ~Keyword(line, i) /\ line[i] = "quote"
    <3>1. CASE C = {}
      BY <1>3, <2>5, <3>1, Zenon DEF TokenAt
    <3>2. CASE C # {}
      <4>1. Min(C) \in i + 1 .. Len(line)
        BY <2>1, <3>2, ClosingIs
      <4>2. Min(C) + 1 \in i + 1 .. Len(line) + 1
        <5> HIDE DEF C
        <5> QED
          BY <1>1, <4>1
      <4>3. f[Min(C) + 1] = g[Min(C) + 1]
        BY <4>2, Zenon DEF SameAfter
      <4> QED
        BY <1>3, <2>5, <3>2, <4>3, Zenon DEF TokenAt
    <3> QED
      BY <3>1, <3>2
  <2> QED
    BY <2>3, <2>4, <2>5
<1> QED
  BY <1>2, <1>3

\* What tokenize_rule makes of the line from each position from k on.
Reads(f, line, k) == f = [i \in k .. Len(line) + 1 |-> TokenAt(line, f, i)]

\* There is such a function: the last position first.
LEMMA ReadsExist ==
    ASSUME NEW line \in Seq(Pieces)
    PROVE  \E f : Reads(f, line, 1)
<1> DEFINE n == Len(line)
           Can(d) == \E f : Reads(f, line, n + 2 - d)
           Bad == {d \in 0 .. n + 1 : ~Can(d)}
<1>1. n \in Nat
  OBVIOUS
<1>2. SUFFICES ASSUME Bad # {} PROVE FALSE
  <2>1. n + 1 \in 0 .. n + 1 /\ n + 2 - (n + 1) = 1
    BY <1>1
  <2>2. ASSUME Bad = {} PROVE Can(n + 1)
    BY <2>1, <2>2
  <2>3. ASSUME Bad = {} PROVE \E f : Reads(f, line, 1)
    BY <2>1, <2>2, <2>3
  <2> QED
    BY <2>3
<1>3. PICK d \in Bad : \A m \in Bad : d <= m
  <2>1. Bad \in SUBSET Nat
    BY <1>1
  <2> HIDE DEF Bad
  <2> QED
    BY <1>2, <2>1, LeastNat
<1>4. d \in 0 .. n + 1 /\ ~Can(d)
  OBVIOUS
<1>5. d # 0
  <2>1. Can(0)
    <3> DEFINE f == [i \in n + 2 .. n + 1 |-> <<>>]
    <3>1. n + 2 - 0 .. n + 1 = {} /\ n + 2 .. n + 1 = {}
      BY <1>1
    <3>2. f = [i \in n + 2 - 0 .. n + 1 |-> TokenAt(line, f, i)]
      BY <3>1
    <3> QED
      BY <3>2 DEF Reads
  <2> QED
    BY <1>4, <2>1
<1>6. PICK f : Reads(f, line, n + 2 - (d - 1))
  <2>1. d - 1 \in 0 .. n + 1 /\ ~(d <= d - 1)
    BY <1>1, <1>4, <1>5
  <2>2. d - 1 \notin Bad
    BY <1>3, <2>1
  <2>3. Can(d - 1)
    BY <2>1, <2>2
  <2> QED
    BY <2>3
<1>7. PICK k \in 1 .. n + 1 : k = n + 2 - d /\ k + 1 = n + 2 - (d - 1)
  <2>1. d \in Int /\ 0 <= d /\ d <= n + 1
    BY <1>1, <1>4
  <2> HIDE DEF Bad, n
  <2>2. n + 2 - d \in 1 .. n + 1 /\ (n + 2 - d) + 1 = n + 2 - (d - 1)
    BY <1>1, <1>5, <2>1
  <2> QED
    BY <2>2
<1> DEFINE g == [i \in k .. n + 1 |-> TokenAt(line, f, i)]
<1>8. f = [i \in k + 1 .. n + 1 |-> TokenAt(line, f, i)]
  BY <1>6, <1>7, Zenon DEF Reads
<1>9. ASSUME NEW i \in k .. n + 1 PROVE TokenAt(line, f, i) = TokenAt(line, g, i)
  <2>1. \A j \in i + 1 .. n + 1 : j \in k .. n + 1 /\ j \in k + 1 .. n + 1
    BY <1>1
  <2>2. ASSUME NEW j \in i + 1 .. n + 1 PROVE f[j] = g[j]
    <3>1. j \in k .. n + 1 /\ j \in k + 1 .. n + 1
      BY <2>1
    <3>2. f[j] = TokenAt(line, f, j)
      BY <1>8, <3>1, Zenon
    <3> QED
      BY <3>1, <3>2, Zenon
  <2>3. SameAfter(f, g, i, line)
    BY <2>2, Zenon DEF SameAfter
  <2>4. i \in 1 .. n + 1
    BY <1>1
  <2> HIDE DEF g
  <2> QED
    BY <2>3, <2>4, TokenAtSame
<1>10. g = [i \in k .. n + 1 |-> TokenAt(line, g, i)]
  BY <1>9, Zenon
<1>11. Reads(g, line, n + 2 - d)
  BY <1>7, <1>10, Zenon DEF Reads
<1> QED
  BY <1>4, <1>11

\* It gives tokens: of the positions where it does not, none is the last.
LEMMA ReadsTyped ==
    ASSUME NEW line \in Seq(Pieces), NEW f, Reads(f, line, 1), NEW i \in 1 .. Len(line) + 1
    PROVE  f[i] \in Seq(Token)
<1> DEFINE n == Len(line)
           Bad == {d \in 0 .. n : f[n + 1 - d] \notin Seq(Token)}
<1>1. n \in Nat
  OBVIOUS
<1>2. Bad = {}
  <2> SUFFICES ASSUME Bad # {} PROVE FALSE
    OBVIOUS
  <2>1. PICK d \in Bad : \A m \in Bad : d <= m
    <3>1. Bad \in SUBSET Nat
      BY <1>1
    <3> HIDE DEF Bad
    <3> QED
      BY <3>1, LeastNat
  <2>2. PICK k \in 1 .. n + 1 : k = n + 1 - d
    BY <1>1
  <2>3. f[k] \notin Seq(Token)
    BY <2>2
  <2>4. ASSUME NEW j \in k + 1 .. n + 1 PROVE f[j] \in Seq(Token)
    <3>1. n + 1 - j \in 0 .. n /\ n + 1 - (n + 1 - j) = j /\ ~(d <= n + 1 - j)
      BY <1>1, <2>2
    <3>2. n + 1 - j \notin Bad
      BY <2>1, <3>1
    <3>3. f[n + 1 - (n + 1 - j)] \in Seq(Token)
      BY <3>1, <3>2
    <3> QED
      BY <3>1, <3>3
  <2>5. TypedAfter(f, k, line)
    BY <2>4, Zenon DEF TypedAfter
  <2>6. TokenAt(line, f, k) \in Seq(Token)
    BY <2>5, TokenAtTyped
  <2>7. f[k] = TokenAt(line, f, k)
    BY Zenon DEF Reads
  <2> QED
    BY <2>3, <2>6, <2>7
<1>3. n + 1 - i \in 0 .. n /\ n + 1 - (n + 1 - i) = i
  BY <1>1
<1>4. f[n + 1 - (n + 1 - i)] \in Seq(Token)
  BY <1>2, <1>3
<1> QED
  BY <1>3, <1>4

\* tokenize_rule gives tokens.
LEMMA TokensTyped ==
    ASSUME NEW raw \in Seq(Pieces)
    PROVE  Tokens(raw) \in Seq(Token)
<1> DEFINE line == Strip(raw)
           f == CHOOSE f : Reads(f, line, 1)
<1>1. line \in Seq(Pieces)
  BY StripTyped
<1>2. Reads(f, line, 1)
  <2> HIDE DEF line
  <2> QED
    BY <1>1, ReadsExist
<1>3. Tokens(raw) = f[1]
  BY Zenon DEF Tokens, Reads, TokenAt
<1>4. 1 \in 1 .. Len(line) + 1
  <2> HIDE DEF line
  <2> QED
    BY <1>1
<1> HIDE DEF f, line
<1> QED
  BY <1>1, <1>2, <1>3, <1>4, ReadsTyped

\* load_rules gives rules that are sequences of tokens.
LEMMA RulesTyped ==
    ASSUME NEW file \in Files
    PROVE  LoadRules(file) \in SUBSET Seq(Token)
<1>1. file.lines \in Seq(Seq(Pieces))
  BY ConfigurationAssumption, Zenon
<1>2. \A l \in ToSet(file.lines) : l \in Seq(Pieces)
  BY <1>1 DEF ToSet
<1>3. \A l \in ToSet(file.lines) : Tokens(l) \in Seq(Token)
  BY <1>2, TokensTyped
<1>4. LoadRules(file) \subseteq {Tokens(l) : l \in ToSet(file.lines)}
  BY Zenon DEF LoadRules
<1> QED
  BY <1>3, <1>4, Zenon

\* What the rules in force are made of.
RulesTypeOK == rules \in [Workers -> SUBSET Seq(Token)]

LEMMA TypeInit == Init => ConfigTypeOK
<1> SUFFICES ASSUME Init PROVE ConfigTypeOK
  OBVIOUS
<1>1. deployment \in Deployments /\ rulesFile \in Files
  BY ConfigurationAssumption DEF Init
<1>2. marked \subseteq Storages /\ edits \in 0 .. MaxEdits
  BY ConfigurationAssumption DEF Init
<1>3. /\ override \in [Workers -> Storages \cup {None}]
      /\ pending \in [Workers -> Storages \cup {None}]
      /\ reply \in [Workers -> Replies]
      /\ loaded \in [Workers -> Files]
  BY <1>1 DEF Init, Replies
<1>4. RulesTypeOK
  <2>1. LoadRules(rulesFile) \in SUBSET Seq(Token)
    BY <1>1, RulesTyped
  <2>2. rules = [w \in Workers |-> LoadRules(rulesFile)]
    BY DEF Init
  <2> QED
    BY <2>1, <2>2, Zenon DEF RulesTypeOK
<1> QED
  BY <1>1, <1>2, <1>3, <1>4, Zenon DEF ConfigTypeOK, RulesTypeOK, Token

LEMMA TypeStep == ConfigTypeOK /\ [Next]_vars => ConfigTypeOK'
<1> SUFFICES ASSUME ConfigTypeOK, [Next]_vars PROVE ConfigTypeOK'
  OBVIOUS
<1>1. /\ deployment \in Deployments /\ rulesFile \in Files
      /\ marked \subseteq Storages /\ edits \in 0 .. MaxEdits
      /\ override \in [Workers -> Storages \cup {None}]
      /\ pending \in [Workers -> Storages \cup {None}]
      /\ reply \in [Workers -> Replies]
      /\ loaded \in [Workers -> Files]
      /\ RulesTypeOK
  BY Zenon DEF ConfigTypeOK, RulesTypeOK, Token
<1> DEFINE Goal == /\ deployment' \in Deployments /\ rulesFile' \in Files
                   /\ marked' \subseteq Storages /\ edits' \in 0 .. MaxEdits
                   /\ override' \in [Workers -> Storages \cup {None}]
                   /\ pending' \in [Workers -> Storages \cup {None}]
                   /\ reply' \in [Workers -> Replies]
                   /\ loaded' \in [Workers -> Files]
                   /\ RulesTypeOK'
<1>2. SUFFICES Goal
  BY <1>2, Zenon DEF ConfigTypeOK, RulesTypeOK, Token
<1>3. ASSUME NEW w \in Workers, Restart(w) PROVE Goal
  <2>1. /\ UNCHANGED <<deployment, rulesFile, marked, edits>>
        /\ override' = [override EXCEPT ![w] = None]
        /\ pending' = [pending EXCEPT ![w] = None]
        /\ reply' = [reply EXCEPT ![w] = "none"]
        /\ loaded' = [loaded EXCEPT ![w] = rulesFile]
        /\ rules' = [rules EXCEPT ![w] = LoadRules(rulesFile)]
    BY <1>3 DEF Restart
  <2>2. LoadRules(rulesFile) \in SUBSET Seq(Token)
    BY <1>1, RulesTyped
  <2>3. RulesTypeOK'
    BY <1>1, <2>1, <2>2 DEF RulesTypeOK
  <2> QED
    BY <1>1, <2>1, <2>3 DEF Replies
<1>4. ASSUME NEW w \in Workers, Validate(w) PROVE Goal
  <2>1. UNCHANGED <<deployment, rulesFile, marked, override, rules, loaded, edits>>
    BY <1>4 DEF Validate
  <2>2. PICK raw \in Raw :
          \/ pending' = [pending EXCEPT ![w] = RealPath[raw]] /\ reply' = [reply EXCEPT ![w] = "none"]
          \/ reply' = [reply EXCEPT ![w] = "invalid_path"] /\ UNCHANGED pending
    BY <1>4 DEF Validate
  <2>3. RealPath[raw] \in Storages
    BY ConfigurationAssumption
  <2>4. pending' \in [Workers -> Storages \cup {None}] /\ reply' \in [Workers -> Replies]
    BY <1>1, <2>2, <2>3 DEF Replies
  <2> QED
    BY <1>1, <2>1, <2>4 DEF RulesTypeOK
<1>5. ASSUME NEW w \in Workers, Store(w) PROVE Goal
  <2>1. /\ UNCHANGED <<deployment, rulesFile, marked, rules, loaded, edits>>
        /\ pending' = [pending EXCEPT ![w] = None]
    BY <1>5 DEF Store
  <2>2. \/ reply' = [reply EXCEPT ![w] = "multi_worker"] /\ UNCHANGED override
        \/ override' = [override EXCEPT ![w] = pending[w]] /\ reply' = [reply EXCEPT ![w] = "success"]
    BY <1>5 DEF Store
  <2>3. override' \in [Workers -> Storages \cup {None}] /\ reply' \in [Workers -> Replies]
    BY <1>1, <2>2 DEF Replies
  <2> QED
    BY <1>1, <2>1, <2>3 DEF RulesTypeOK
<1>6. ASSUME NEW s \in Storages, Mark(s) PROVE Goal
  BY <1>1, <1>6 DEF Mark, RulesTypeOK
<1>7. ASSUME EditRules PROVE Goal
  <2>1. /\ UNCHANGED <<deployment, marked, override, pending, reply, rules, loaded>>
        /\ edits < MaxEdits /\ edits' = edits + 1
        /\ rulesFile' \in Files
    BY <1>7, ConfigurationAssumption DEF EditRules
  <2>2. edits' \in 0 .. MaxEdits
    BY <1>1, <2>1, ConfigurationAssumption
  <2> QED
    BY <1>1, <2>1, <2>2 DEF RulesTypeOK
<1>8. CASE UNCHANGED vars
  BY <1>1, <1>8 DEF vars, RulesTypeOK
<1> HIDE DEF Goal
<1> QED
  BY <1>3, <1>4, <1>5, <1>6, <1>7, <1>8, Zenon DEF Next

\* Each variable keeps its type; above all, what load_rules keeps of a file is made of
\* tokens, whatever its lines hold.
THEOREM ConfigTypeCorrect == Spec => []ConfigTypeOK
<1> QED
  BY TypeInit, TypeStep, PTL DEF Spec

-----------------------------------------------------------------------------
(* What extends a text takes no match away.                                *)

\* A value that occurs in a text occurs in every text that begins with it.
LEMMA OccursLonger ==
    ASSUME NEW v \in Seq(Pieces), NEW text \in Seq(Pieces), NEW more \in Seq(Pieces),
           Occurs(v, text)
    PROVE  Occurs(v, text \o more)
<1> DEFINE whole == text \o more
<1>1. /\ whole \in Seq(Pieces) /\ Len(whole) = Len(text) + Len(more)
      /\ \A i \in 1 .. Len(text) : whole[i] = text[i]
  BY ConcatProperties
<1>2. Len(v) \in Nat /\ Len(text) \in Nat /\ Len(more) \in Nat
  OBVIOUS
<1>3. PICK i \in 0 .. Len(text) - Len(v) : SubSeq(text, i + 1, i + Len(v)) = v
  BY Zenon DEF Occurs
<1> HIDE DEF whole
<1>4. i \in 0 .. Len(whole) - Len(v)
  BY <1>1, <1>2
<1>5. SubSeq(whole, i + 1, i + Len(v)) = SubSeq(text, i + 1, i + Len(v))
  <2> DEFINE a == i + 1
             b == i + Len(v)
  <2>1. a \in Int /\ b \in Int /\ \A k \in a .. b : k \in 1 .. Len(text)
    BY <1>2
  <2>2. \A k \in a .. b : text[k] \in Pieces /\ whole[k] \in Pieces /\ whole[k] = text[k]
    <3> SUFFICES ASSUME NEW k \in a .. b
                 PROVE  text[k] \in Pieces /\ whole[k] \in Pieces /\ whole[k] = text[k]
      OBVIOUS
    <3>1. k \in 1 .. Len(text)
      BY <2>1
    <3>2. text[k] \in Pieces
      BY <3>1
    <3> QED
      BY <1>1, <3>1, <3>2
  <2> HIDE DEF a, b
  <2> DEFINE n == IF a <= b THEN b - a + 1 ELSE 0
  <2>3. /\ SubSeq(text, a, b) \in Seq(Pieces) /\ Len(SubSeq(text, a, b)) = n
        /\ \A k \in 1 .. b - a + 1 : SubSeq(text, a, b)[k] = text[a + k - 1]
    BY <2>1, <2>2, SubSeqProperties
  <2>4. /\ SubSeq(whole, a, b) \in Seq(Pieces) /\ Len(SubSeq(whole, a, b)) = n
        /\ \A k \in 1 .. b - a + 1 : SubSeq(whole, a, b)[k] = whole[a + k - 1]
    BY <1>1, <2>1, <2>2, SubSeqProperties
  <2>5. \A k \in 1 .. n : k \in 1 .. b - a + 1 /\ a + k - 1 \in a .. b
    BY <2>1
  <2> HIDE DEF n
  <2>6. \A k \in 1 .. n : SubSeq(whole, a, b)[k] = SubSeq(text, a, b)[k]
    BY <2>2, <2>3, <2>4, <2>5, Zenon
  <2>7. SubSeq(whole, a, b) = SubSeq(text, a, b)
    BY <2>3, <2>4, <2>6, SeqEqual
  <2> QED
    BY <2>7, Zenon DEF a, b
<1>6. Occurs(v, whole)
  BY <1>3, <1>4, <1>5, Zenon DEF Occurs
<1> QED
  BY <1>6 DEF whole

\* Nor does another line.
LEMMA OccursJoined ==
    ASSUME NEW v \in Seq(Pieces), NEW text \in Seq(Pieces), NEW part \in Seq(Pieces),
           Occurs(v, text)
    PROVE  Occurs(v, JoinLines(text, part))
<1>1. Occurs(v, text \o part)
  BY OccursLonger
<1>2. <<"newline">> \in Seq(Pieces)
  BY DEF Pieces
<1>3. text \o <<"newline">> \in Seq(Pieces) /\ Occurs(v, text \o <<"newline">>)
  BY <1>2, OccursLonger, ConcatProperties
<1>4. Occurs(v, (text \o <<"newline">>) \o part)
  BY <1>3, OccursLonger
<1> QED
  BY <1>1, <1>4, Zenon DEF JoinLines

\* A line more is a text, and none becomes empty by it.
LEMMA JoinedTyped ==
    ASSUME NEW text \in Seq(Pieces), NEW part \in Seq(Pieces)
    PROVE  /\ JoinLines(text, part) \in Seq(Pieces)
           /\ text # <<>> => JoinLines(text, part) # <<>>
<1>1. <<"newline">> \in Seq(Pieces) /\ Len(<<"newline">>) = 1
  BY DEF Pieces
<1>2. /\ text \o part \in Seq(Pieces) /\ Len(text \o part) = Len(text) + Len(part)
      /\ text \o <<"newline">> \in Seq(Pieces)
      /\ Len(text \o <<"newline">>) = Len(text) + 1
  BY <1>1, ConcatProperties
<1>3. /\ (text \o <<"newline">>) \o part \in Seq(Pieces)
      /\ Len((text \o <<"newline">>) \o part) = Len(text) + 1 + Len(part)
  BY <1>2, ConcatProperties
<1>4. Len(text) \in Nat /\ Len(part) \in Nat /\ (text # <<>> => Len(text) # 0)
  BY EmptySeq
<1>5. text # <<>> => Len(text \o part) # 0 /\ Len((text \o <<"newline">>) \o part) # 0
  BY <1>2, <1>3, <1>4
<1>6. Len(<<>>) = 0
  OBVIOUS
<1>7. text # <<>> => text \o part # <<>> /\ (text \o <<"newline">>) \o part # <<>>
  BY <1>5, <1>6, Zenon
<1> QED
  BY <1>2, <1>3, <1>7, Zenon DEF JoinLines

\* The terms of a clause are terms of the rule.
LEMMA ClauseTerms ==
    ASSUME NEW tokens \in Seq(Token), NEW c \in Clauses(tokens), NEW t \in c
    PROVE  t.value \in Seq(Pieces)
<1> DEFINE n == Len(tokens)
           ors == {0, n + 1} \cup {i \in DOMAIN tokens : tokens[i].op = "or"}
           Between(i, j) == {u \in ToSet(SubSeq(tokens, i + 1, j - 1)) : u.op = "term"}
<1>1. n \in Nat /\ DOMAIN tokens = 1 .. n
  OBVIOUS
<1>2. PICK i \in ors \ {n + 1} : c = Between(i, Min({j \in ors : i < j}))
  BY Zenon DEF Clauses
<1> DEFINE T == {j \in ors : i < j}
<1>3. \A j \in ors : j \in 0 .. n + 1
  BY <1>1
<1>4. i \in 0 .. n /\ n + 1 \in T /\ T \in SUBSET Nat
  <2>1. n + 1 \in ors /\ i \in ors /\ i # n + 1
    OBVIOUS
  <2>2. \A j \in T : j \in ors
    OBVIOUS
  <2>3. i \in ors /\ i < n + 1 => n + 1 \in T
    BY <2>1
  <2> HIDE DEF ors, T, n
  <2>4. i \in 0 .. n /\ i < n + 1
    BY <1>1, <1>3, <2>1
  <2>5. \A j \in T : j \in Nat
    BY <1>1, <1>3, <2>2
  <2> QED
    BY <2>1, <2>3, <2>4, <2>5, Zenon
<1>5. Min(T) \in T
  <2> HIDE DEF T
  <2> QED
    BY <1>4, MinIn
<1>6. Min(T) \in 0 .. n + 1
  BY <1>3, <1>5
<1> DEFINE b == Min(T) - 1
<1>7. c = Between(i, Min(T))
  BY <1>2
<1>8. t \in ToSet(SubSeq(tokens, i + 1, b))
  BY <1>7
<1> HIDE DEF T, ors
<1>9. i + 1 \in Int /\ b \in Int /\ \A k \in i + 1 .. b : k \in 1 .. n
  BY <1>1, <1>4, <1>6
<1> HIDE DEF b, n
<1>10. \A k \in i + 1 .. b : tokens[k] \in Token
  BY <1>9 DEF n
<1>11. SubSeq(tokens, i + 1, b) \in Seq(Token)
  BY <1>9, <1>10, SubSeqProperties
<1>12. t \in Token
  BY <1>8, <1>11 DEF ToSet
<1> QED
  BY <1>12 DEF Token

\* A rule that matches a text matches the text with a line more.
LEMMA MatchesJoined ==
    ASSUME NEW tokens \in Seq(Token), NEW text \in Seq(Pieces), NEW part \in Seq(Pieces),
           RuleMatches(tokens, text)
    PROVE  RuleMatches(tokens, JoinLines(text, part))
<1>1. PICK c \in Clauses(tokens) : c # {} /\ \A t \in c : TermMatches(t, text)
  BY Zenon DEF RuleMatches
<1>2. ASSUME NEW t \in c PROVE TermMatches(t, JoinLines(text, part))
  <2>1. t.value \in Seq(Pieces)
    BY ClauseTerms
  <2>2. t.value # <<>> /\ Occurs(t.value, text)
    BY <1>1, Zenon DEF TermMatches
  <2>3. Occurs(t.value, JoinLines(text, part))
    BY <2>1, <2>2, OccursJoined
  <2> QED
    BY <2>2, <2>3, Zenon DEF TermMatches
<1> QED
  BY <1>1, <1>2, Zenon DEF RuleMatches

\* And so what is excluded stays so.
LEMMA ExcludedJoined ==
    ASSUME NEW rs \in SUBSET Seq(Token), NEW text \in Seq(Pieces), NEW part \in Seq(Pieces),
           Excluded(rs, text)
    PROVE  Excluded(rs, JoinLines(text, part))
<1>1. text # <<>>
  BY Zenon DEF Excluded
<1>2. PICK r \in rs : RuleMatches(r, text)
  BY Zenon DEF Excluded
<1>3. RuleMatches(r, JoinLines(text, part))
  BY <1>2, MatchesJoined
<1>4. JoinLines(text, part) # <<>>
  BY <1>1, JoinedTyped
<1> QED
  BY <1>3, <1>4, Zenon DEF Excluded

\* What build_searchable_text has made of the first parts, up to the n-th.
JoinedBy(f, parts, n) ==
    f = [i \in 0 .. n |-> IF i = 0 THEN <<>> ELSE JoinLines(f[i - 1], parts[i])]

\* There is such a function, and it gives texts.
LEMMA JoinedExist ==
    ASSUME NEW parts \in Seq(Seq(Pieces)), NEW n \in 0 .. Len(parts)
    PROVE  \E f \in [0 .. n -> Seq(Pieces)] : JoinedBy(f, parts, n)
<1> DEFINE Can(k) == \E f \in [0 .. k -> Seq(Pieces)] : JoinedBy(f, parts, k)
           Bad == {k \in 0 .. Len(parts) : ~Can(k)}
<1>1. SUFFICES ASSUME Bad # {} PROVE FALSE
  OBVIOUS
<1>2. PICK k \in Bad : \A m \in Bad : k <= m
  <2>1. Bad \in SUBSET Nat
    OBVIOUS
  <2> HIDE DEF Bad
  <2> QED
    BY <1>1, <2>1, LeastNat
<1>3. k \in 0 .. Len(parts) /\ ~Can(k)
  OBVIOUS
<1>4. k # 0
  <2>1. Can(0)
    <3> DEFINE f == [i \in 0 .. 0 |-> <<>>]
    <3>1. f \in [0 .. 0 -> Seq(Pieces)]
      OBVIOUS
    <3>2. \A i \in 0 .. 0 : i = 0
      OBVIOUS
    <3>3. JoinedBy(f, parts, 0)
      BY <3>2, Zenon DEF JoinedBy
    <3> QED
      BY <3>1, <3>3
  <2> QED
    BY <1>3, <2>1
<1>5. k - 1 \in 0 .. Len(parts) /\ k - 1 < k /\ k \in Nat
  BY <1>3, <1>4
<1>6. PICK f \in [0 .. k - 1 -> Seq(Pieces)] : JoinedBy(f, parts, k - 1)
  <2>1. ~(k <= k - 1)
    BY <1>5
  <2>2. k - 1 \notin Bad
    BY <1>2, <2>1
  <2>3. Can(k - 1)
    BY <1>5, <2>2
  <2> QED
    BY <2>3
<1> DEFINE g == [i \in 0 .. k |-> IF i = 0 THEN <<>> ELSE JoinLines(f[i - 1], parts[i])]
<1>7. \A i \in 1 .. k : i - 1 \in 0 .. k - 1 /\ i \in 1 .. Len(parts)
  BY <1>3, <1>5
<1>8. g \in [0 .. k -> Seq(Pieces)]
  <2>1. ASSUME NEW i \in 0 .. k, i # 0 PROVE JoinLines(f[i - 1], parts[i]) \in Seq(Pieces)
    <3>1. i \in 1 .. k
      BY <1>5, <2>1
    <3>2. i - 1 \in 0 .. k - 1 /\ i \in 1 .. Len(parts)
      BY <1>7, <3>1
    <3>3. parts[i] \in Seq(Pieces)
      BY <3>2
    <3>4. f[i - 1] \in Seq(Pieces)
      BY <3>2, Zenon
    <3> QED
      BY <3>3, <3>4, JoinedTyped
  <2>2. <<>> \in Seq(Pieces)
    OBVIOUS
  <2> QED
    BY <2>1, <2>2, Zenon
<1>9. ASSUME NEW i \in 0 .. k - 1 PROVE g[i] = f[i]
  <2>1. f[i] = IF i = 0 THEN <<>> ELSE JoinLines(f[i - 1], parts[i])
    BY <1>6, Zenon DEF JoinedBy
  <2>2. i \in 0 .. k
    BY <1>5
  <2>3. g[i] = IF i = 0 THEN <<>> ELSE JoinLines(f[i - 1], parts[i])
    BY <2>2, Zenon
  <2> QED
    BY <2>1, <2>3, Zenon
<1>10. JoinedBy(g, parts, k)
  <2>1. ASSUME NEW i \in 0 .. k, i # 0 PROVE f[i - 1] = g[i - 1]
    <3>1. i - 1 \in 0 .. k - 1
      BY <1>5, <2>1
    <3> QED
      BY <1>9, <3>1, Zenon
  <2>2. \A i \in 0 .. k : (IF i = 0 THEN <<>> ELSE JoinLines(f[i - 1], parts[i])) =
                          (IF i = 0 THEN <<>> ELSE JoinLines(g[i - 1], parts[i]))
    BY <2>1, Zenon
  <2>3. g = [i \in 0 .. k |-> IF i = 0 THEN <<>> ELSE JoinLines(g[i - 1], parts[i])]
    BY <2>2, Zenon
  <2> HIDE DEF g
  <2> QED
    BY <2>3, Zenon DEF JoinedBy
<1>11. Can(k)
  BY <1>8, <1>10
<1> QED
  BY <1>3, <1>11

Begin(p, q, n) == \A i \in 1 .. n : p[i] = q[i]

Alike(f, g, n) == \A i \in 0 .. n : f[i] = g[i]

\* The same texts, as far as the parts are the same.
LEMMA JoinedSame ==
    ASSUME NEW p, NEW q, NEW n \in Nat, NEW m \in Nat, n <= m, Begin(p, q, n),
           NEW f, NEW g, JoinedBy(f, p, n), JoinedBy(g, q, m)
    PROVE  Alike(f, g, n)
<1> DEFINE Bad == {i \in 0 .. n : f[i] # g[i]}
<1>1. SUFFICES ASSUME Bad # {} PROVE FALSE
  BY DEF Alike
<1>2. PICK k \in Bad : \A i \in Bad : k <= i
  <2>1. Bad \in SUBSET Nat
    OBVIOUS
  <2> HIDE DEF Bad
  <2> QED
    BY <1>1, <2>1, LeastNat
<1>3. k \in 0 .. n /\ k \in 0 .. m /\ f[k] # g[k]
  <2>1. k \in 0 .. n /\ f[k] # g[k]
    OBVIOUS
  <2>2. k \in 0 .. m
    BY <2>1
  <2> QED
    BY <2>1, <2>2
<1>4. /\ f[k] = IF k = 0 THEN <<>> ELSE JoinLines(f[k - 1], p[k])
      /\ g[k] = IF k = 0 THEN <<>> ELSE JoinLines(g[k - 1], q[k])
  BY <1>3, Zenon DEF JoinedBy
<1>5. k # 0
  BY <1>3, <1>4, Zenon
<1>6. k - 1 \in 0 .. n /\ ~(k <= k - 1) /\ k \in 1 .. n
  BY <1>3, <1>5
<1>7. f[k - 1] = g[k - 1]
  BY <1>2, <1>6
<1> QED
  BY <1>3, <1>4, <1>6, <1>7, Zenon DEF Begin

\* build_searchable_text, one part after the other.
LEMMA SearchableAppend ==
    ASSUME NEW parts \in Seq(Seq(Pieces)), NEW part \in Seq(Pieces)
    PROVE  /\ SearchableText(parts) \in Seq(Pieces)
           /\ SearchableText(Append(parts, part)) = JoinLines(SearchableText(parts), part)
<1> DEFINE all == Append(parts, part)
           n == Len(parts)
           f == CHOOSE h : JoinedBy(h, parts, n)
           g == CHOOSE h : JoinedBy(h, all, n + 1)
<1>1. /\ all \in Seq(Seq(Pieces)) /\ Len(all) = n + 1 /\ all[n + 1] = part
      /\ \A i \in 1 .. n : parts[i] = all[i]
  BY AppendProperties
<1>2. n \in Nat /\ n + 1 \in Nat /\ n <= n + 1 /\ n \in 0 .. n /\ n + 1 \in 0 .. n + 1
  OBVIOUS
<1>3. SearchableText(parts) = f[n] /\ SearchableText(all) = g[n + 1]
  <2>1. SearchableText(parts) = f[n]
    BY Zenon DEF SearchableText, JoinedBy
  <2> HIDE DEF all
  <2>2. SearchableText(all) = (CHOOSE h : JoinedBy(h, all, Len(all)))[Len(all)]
    BY Zenon DEF SearchableText, JoinedBy
  <2>3. SearchableText(all) = g[n + 1]
    BY <1>1, <2>2, Zenon
  <2> QED
    BY <2>1, <2>3
<1> HIDE DEF all
<1>4. PICK h \in [0 .. n -> Seq(Pieces)] : JoinedBy(h, parts, n)
  BY <1>2, JoinedExist
<1>5. JoinedBy(f, parts, n)
  BY <1>4, Zenon
<1>6. JoinedBy(g, all, n + 1)
  <2>1. \E h2 \in [0 .. n + 1 -> Seq(Pieces)] : JoinedBy(h2, all, n + 1)
    BY <1>1, <1>2, JoinedExist
  <2> QED
    BY <2>1, Zenon
<1> HIDE DEF f, g, n
<1>7. f[n] = h[n]
  <2>1. n <= n /\ Begin(parts, parts, n)
    BY <1>2 DEF Begin
  <2>2. Alike(f, h, n)
    BY <1>2, <1>4, <1>5, <2>1, JoinedSame
  <2> QED
    BY <1>2, <2>2, Zenon DEF Alike
<1>8. f[n] \in Seq(Pieces)
  BY <1>2, <1>4, <1>7, Zenon
<1>9. f[n] = g[n]
  <2>1. PICK m \in Nat : m = n + 1
    BY <1>2
  <2>2. n <= m /\ JoinedBy(g, all, m) /\ Begin(parts, all, n)
    BY <1>1, <1>2, <1>6, <2>1 DEF Begin
  <2>3. Alike(f, g, n)
    BY <1>2, <1>5, <2>2, JoinedSame
  <2> QED
    BY <1>2, <2>3, Zenon DEF Alike
<1>10. g[n + 1] = IF n + 1 = 0 THEN <<>> ELSE JoinLines(g[(n + 1) - 1], all[n + 1])
  BY <1>2, <1>6, Zenon DEF JoinedBy
<1>11. n + 1 # 0 /\ (n + 1) - 1 = n
  BY <1>2
<1>12. g[n + 1] = JoinLines(f[n], part)
  BY <1>1, <1>9, <1>10, <1>11, Zenon
<1> QED
  BY <1>3, <1>8, <1>12, Zenon DEF all

\* In every worker, whatever file it loaded: a conversation the lists hide for its title
\* is hidden where its content is asked about too.
THEOREM HiddenEverywhere == Spec => []HiddenStaysHidden
<1>1. ConfigTypeOK => HiddenStaysHidden
  <2> SUFFICES ASSUME ConfigTypeOK, NEW w \in deployment.workers, NEW c \in Conversations,
                      Excluded(rules[w], SearchableText(c.listed))
               PROVE  Excluded(rules[w], SearchableText(Append(c.listed, c.content)))
    BY DEF HiddenStaysHidden
  <2>1. w \in Workers
    <3>1. deployment \in Deployments
      BY Zenon DEF ConfigTypeOK
    <3>2. deployment.workers \subseteq Workers
      BY <3>1, ConfigurationAssumption, Zenon
    <3> QED
      BY <3>2, Zenon
  <2>2. rules[w] \in SUBSET Seq(Token)
    BY <2>1, Zenon DEF ConfigTypeOK, Token
  <2>3. c.listed \in Seq(Seq(Pieces)) /\ c.content \in Seq(Pieces)
    BY ConfigurationAssumption, Zenon
  <2>4. /\ SearchableText(c.listed) \in Seq(Pieces)
        /\ SearchableText(Append(c.listed, c.content)) =
             JoinLines(SearchableText(c.listed), c.content)
    BY <2>3, SearchableAppend
  <2> QED
    BY <2>2, <2>3, <2>4, ExcludedJoined
<1> QED
  BY <1>1, ConfigTypeCorrect, PTL

-----------------------------------------------------------------------------
(* What is written is what is read.                                        *)

TokenOf(item) == IF item.kind \in Keywords THEN Operator(item.kind) ELSE Term(item.value)

\* The tokens of the items from i on.
TokensFrom(items, i) == [k \in 1 .. Len(items) + 1 - i |-> TokenOf(items[i + k - 1])]

\* The item stands in the line from a to before e, where there is a space or nothing.
StandsAt(item, line, a, e) ==
    /\ a \in 1 .. Len(line) /\ e \in a + 1 .. Len(line) + 1
    /\ e = a + Len(Spelled(item))
    /\ \A k \in 1 .. Len(Spelled(item)) : line[a + k - 1] = Spelled(item)[k]
    /\ e = Len(line) + 1 \/ line[e] = "space"

\* The kinds of items, and how each is spelled.
LEMMA ItemIs ==
    ASSUME NEW item \in Item
    PROVE  /\ \/ /\ item.kind \in Keywords
                 /\ Spelled(item) = <<item.kind>> /\ TokenOf(item) = Operator(item.kind)
              \/ /\ item.kind = "word" /\ item.value \in Seq(Pieces)
                 /\ Spelled(item) = item.value /\ TokenOf(item) = Term(item.value)
              \/ /\ item.kind = "phrase" /\ item.value \in Seq(Pieces)
                 /\ Spelled(item) = (<<"quote">> \o item.value) \o <<"quote">>
                 /\ TokenOf(item) = Term(item.value)
           /\ TokenOf(item) \in Token
<1>1. "word" \notin Keywords /\ "phrase" \notin Keywords
  BY DEF Keywords
<1>2. CASE item.kind \in Keywords
  <2>1. Spelled(item) = <<item.kind>> /\ TokenOf(item) = Operator(item.kind)
    BY <1>1, <1>2 DEF Spelled, TokenOf
  <2>2. Operator(item.kind) \in Token
    BY <1>2, TokenTyped
  <2> QED
    BY <1>2, <2>1, <2>2
<1>3. CASE item.kind \in {"word", "phrase"}
  <2>1. item.value \in Seq(Pieces)
    BY <1>1, <1>3 DEF Item
  <2>2. TokenOf(item) = Term(item.value)
    BY <1>1, <1>3 DEF TokenOf
  <2>3. Term(item.value) \in Token
    BY <2>1, TokenTyped
  <2>4. CASE item.kind = "word"
    <3>1. Spelled(item) = item.value
      BY <1>1, <2>4 DEF Spelled
    <3> QED
      BY <2>1, <2>2, <2>3, <2>4, <3>1
  <2>5. CASE item.kind = "phrase"
    <3>1. Spelled(item) = (<<"quote">> \o item.value) \o <<"quote">>
      BY <1>1, <2>5 DEF Spelled
    <3> QED
      BY <2>1, <2>2, <2>3, <2>5, <3>1
  <2> QED
    BY <1>3, <2>4, <2>5
<1> QED
  BY <1>2, <1>3 DEF Item

\* A phrase in its quotes, piece by piece.
LEMMA PhraseIs ==
    ASSUME NEW v \in Seq(Pieces)
    PROVE  /\ (<<"quote">> \o v) \o <<"quote">> \in Seq(Pieces)
           /\ Len((<<"quote">> \o v) \o <<"quote">>) = Len(v) + 2
           /\ ((<<"quote">> \o v) \o <<"quote">>)[1] = "quote"
           /\ ((<<"quote">> \o v) \o <<"quote">>)[Len(v) + 2] = "quote"
           /\ \A k \in 1 .. Len(v) : ((<<"quote">> \o v) \o <<"quote">>)[k + 1] = v[k]
<1> DEFINE q == <<"quote">>
           u == q \o v
<1>1. q \in Seq(Pieces) /\ Len(q) = 1 /\ q[1] = "quote"
  BY DEF Pieces
<1>2. Len(v) \in Nat
  OBVIOUS
<1> HIDE DEF q
<1>3. /\ u \in Seq(Pieces) /\ Len(u) = Len(v) + 1 /\ u[1] = "quote"
      /\ \A k \in 1 .. Len(v) : u[k + 1] = v[k]
  <2>0. /\ u \in Seq(Pieces) /\ Len(u) = Len(q) + Len(v)
        /\ \A k \in 1 .. Len(q) + Len(v) :
              u[k] = IF k <= Len(q) THEN q[k] ELSE v[k - Len(q)]
    <3>1. q \in Seq(Pieces) /\ v \in Seq(Pieces)
      BY <1>1
    <3> QED
      BY <3>1, ConcatProperties, Zenon
  <2>1. u \in Seq(Pieces) /\ Len(u) = 1 + Len(v)
    BY <1>1, <2>0, Zenon
  <2>2. \A k \in 1 .. Len(u) : u[k] = IF k <= 1 THEN q[k] ELSE v[k - 1]
    BY <1>1, <2>0, Zenon
  <2>3. u[1] = "quote"
    BY <1>1, <1>2, <2>1, <2>2
  <2>4. ASSUME NEW k \in 1 .. Len(v) PROVE u[k + 1] = v[k]
    <3>1. k + 1 \in 1 .. Len(u) /\ ~(k + 1 <= 1) /\ k + 1 - 1 = k
      BY <1>2, <2>1
    <3> QED
      BY <2>2, <3>1
  <2> QED
    BY <1>2, <2>1, <2>3, <2>4
<1> HIDE DEF u
<1> DEFINE w == u \o q
<1>0. /\ w \in Seq(Pieces) /\ Len(w) = Len(u) + Len(q)
      /\ \A k \in 1 .. Len(u) + Len(q) :
            w[k] = IF k <= Len(u) THEN u[k] ELSE q[k - Len(u)]
  <2>1. u \in Seq(Pieces) /\ q \in Seq(Pieces)
    BY <1>1, <1>3
  <2> QED
    BY <2>1, ConcatProperties, Zenon
<1> HIDE DEF w
<1>4. w \in Seq(Pieces) /\ Len(w) = Len(v) + 2
  BY <1>0, <1>1, <1>2, <1>3
<1>5. \A k \in 1 .. Len(w) : w[k] = IF k <= Len(u) THEN u[k] ELSE q[k - Len(u)]
  BY <1>0, Zenon
<1>6. w[1] = "quote"
  BY <1>2, <1>3, <1>4, <1>5
<1>7. w[Len(v) + 2] = "quote"
  <2>1. Len(v) + 2 \in 1 .. Len(w) /\ ~(Len(v) + 2 <= Len(u)) /\ Len(v) + 2 - Len(u) = 1
    BY <1>2, <1>3, <1>4
  <2> QED
    BY <1>1, <1>5, <2>1
<1>8. ASSUME NEW k \in 1 .. Len(v) PROVE w[k + 1] = v[k]
  <2>1. k + 1 \in 1 .. Len(w) /\ k + 1 <= Len(u)
    BY <1>2, <1>3, <1>4
  <2> QED
    BY <1>3, <1>5, <2>1
<1> QED
  BY <1>4, <1>6, <1>7, <1>8 DEF w, u, q

\* Nothing is made of spaces.
LEMMA SpacesSkipped ==
    ASSUME NEW line \in Seq(Pieces), NEW f, Reads(f, line, 1),
           NEW p \in 1 .. Len(line) + 1, NEW q \in p .. Len(line) + 1,
           \A k \in p .. q - 1 : line[k] = "space"
    PROVE  f[p] = f[q]
<1> DEFINE Bad == {d \in 0 .. q - p : f[q - d] # f[q]}
<1>1. Len(line) \in Nat /\ p \in Nat /\ q \in Nat /\ p <= q /\ q <= Len(line) + 1 /\ 1 <= p
  OBVIOUS
<1>2. CASE Bad = {}
  <2>1. q - p \in 0 .. q - p /\ q - (q - p) = p
    BY <1>1
  <2>2. q - p \notin Bad
    BY <1>2, Zenon
  <2>3. f[q - (q - p)] = f[q]
    BY <2>1, <2>2
  <2> QED
    BY <2>1, <2>3
<1>3. CASE Bad # {}
  <2>1. Bad \in SUBSET Nat
    BY <1>1
  <2>2. PICK d \in Bad : \A m \in Bad : d <= m
    <3> HIDE DEF Bad
    <3> QED
      BY <1>3, <2>1, LeastNat
  <2>3. d \in 0 .. q - p /\ f[q - d] # f[q]
    BY <2>2
  <2> HIDE DEF Bad
  <2>4. d # 0
    <3>1. q - 0 = q
      BY <1>1
    <3> QED
      BY <2>3, <3>1
  <2>5. d - 1 \in 0 .. q - p /\ ~(d <= d - 1)
    BY <1>1, <2>3, <2>4
  <2>6. d - 1 \notin Bad
    BY <2>2, <2>5
  <2>7. f[q - (d - 1)] = f[q]
    BY <2>5, <2>6 DEF Bad
  <2>8. PICK k \in p .. q - 1 : k = q - d /\ k + 1 = q - (d - 1)
    <3>1. q - d \in p .. q - 1 /\ (q - d) + 1 = q - (d - 1)
      BY <1>1, <2>3, <2>4
    <3> QED
      BY <3>1
  <2>9. line[k] = "space" /\ ~(k > Len(line)) /\ k \in 1 .. Len(line) + 1
    BY <1>1, <2>8
  <2>10. f[k] = TokenAt(line, f, k)
    BY <2>9, Zenon DEF Reads
  <2>11. TokenAt(line, f, k) = f[k + 1]
    BY <2>9, Zenon DEF TokenAt
  <2> QED
    BY <2>3, <2>7, <2>8, <2>10, <2>11
<1> QED
  BY <1>2, <1>3

\* A word is read to the space that follows it.
LEMMA WordRead ==
    ASSUME NEW line \in Seq(Pieces), NEW v \in Seq(Pieces), IsWord(v),
           NEW a \in 1 .. Len(line), NEW e \in a + 1 .. Len(line) + 1, e = a + Len(v),
           \A k \in 1 .. Len(v) : line[a + k - 1] = v[k],
           e = Len(line) + 1 \/ line[e] = "space"
    PROVE  /\ line[a] \notin {"space", "quote", "hash"} /\ ~Keyword(line, a)
           /\ WordEnd(line, a) = e /\ SubSeq(line, a, e - 1) = v
<1>1. Len(line) \in Nat /\ Len(v) \in Nat /\ a \in Nat /\ e \in Nat /\ 1 <= a
  OBVIOUS
<1>2. Len(v) > 0 /\ 1 \in 1 .. Len(v) /\ a + 1 - 1 = a
  BY <1>1
<1>3. line[a] = v[1]
  BY <1>2
<1>4. v[1] \notin {"quote", "hash"} /\ \A k \in 1 .. Len(v) : v[k] # "space"
  BY DEF IsWord, ToSet
<1>5. ~Keyword(line, a)
  <2> SUFFICES ASSUME line[a] \in Keywords PROVE a # Len(line) /\ line[a + 1] \in WordPieces
    BY DEF Keyword
  <2>1. Len(v) > 1 /\ v[2] \in WordPieces
    BY <1>3 DEF IsWord
  <2>2. 2 \in 1 .. Len(v) /\ a + 2 - 1 = a + 1
    BY <1>1, <2>1
  <2>3. line[a + 1] = v[2]
    BY <2>2
  <2> QED
    BY <1>1, <2>1, <2>3
<1>6. ASSUME NEW j \in a .. e - 1 PROVE line[j] # "space"
  <2>1. j - a + 1 \in 1 .. Len(v) /\ a + (j - a + 1) - 1 = j
    BY <1>1
  <2>2. line[j] = v[j - a + 1]
    BY <2>1
  <2> QED
    BY <1>4, <2>1, <2>2
<1>7. WordEnd(line, a) = e
  <2> DEFINE T == {j \in a .. Len(line) : line[j] = "space"} \cup {Len(line) + 1}
  <2>1. WordEnd(line, a) = Min(T)
    BY Zenon DEF WordEnd
  <2>2. T \in SUBSET Nat /\ e \in T /\ \A j \in T : e <= j
    <3>1. ASSUME NEW j \in T PROVE e <= j /\ j \in Nat
      <4>1. j \in Nat /\ a <= j
        BY <1>1
      <4>2. CASE j = Len(line) + 1
        BY <1>1, <4>2
      <4>3. CASE line[j] = "space" /\ j # Len(line) + 1
        <5>1. j \notin a .. e - 1
          BY <1>6, <4>3
        <5> QED
          BY <1>1, <4>1, <5>1
      <4> QED
        BY <4>2, <4>3
    <3>2. e \in T
      BY <1>1
    <3> QED
      BY <3>1, <3>2
  <2> HIDE DEF T
  <2>3. Min(T) \in T /\ Min(T) <= e
    BY <2>2, MinIn
  <2>4. e <= Min(T) /\ Min(T) \in Nat
    BY <2>2, <2>3
  <2> QED
    BY <1>1, <2>1, <2>3, <2>4
<1>8. SubSeq(line, a, e - 1) = v
  <2>1. /\ SubSeq(line, a, e - 1) \in Seq(Pieces) /\ Len(SubSeq(line, a, e - 1)) = Len(v)
        /\ \A k \in 1 .. Len(v) : SubSeq(line, a, e - 1)[k] = line[a + k - 1]
    BY <1>1
  <2>2. \A k \in 1 .. Len(v) : SubSeq(line, a, e - 1)[k] = v[k]
    BY <2>1
  <2> QED
    BY <2>1, <2>2
<1> QED
  BY <1>3, <1>4, <1>2, <1>5, <1>7, <1>8

\* A phrase is read to the quote that ends it.
LEMMA PhraseRead ==
    ASSUME NEW line \in Seq(Pieces), NEW v \in Seq(Pieces), "quote" \notin ToSet(v),
           NEW a \in 1 .. Len(line), NEW e \in a + 1 .. Len(line) + 1, e = a + Len(v) + 2,
           line[a] = "quote", line[e - 1] = "quote",
           \A k \in 1 .. Len(v) : line[a + k] = v[k]
    PROVE  /\ {j \in (a + 1) .. Len(line) : line[j] = "quote"} # {}
           /\ Min({j \in (a + 1) .. Len(line) : line[j] = "quote"}) = e - 1
           /\ SubSeq(line, a + 1, e - 1 - 1) = v
<1> DEFINE T == {j \in (a + 1) .. Len(line) : line[j] = "quote"}
<1>1. Len(line) \in Nat /\ Len(v) \in Nat /\ a \in Nat /\ e \in Nat /\ 1 <= a
  OBVIOUS
<1>2. e - 1 \in (a + 1) .. Len(line)
  BY <1>1
<1>3. T \in SUBSET Nat /\ e - 1 \in T /\ \A j \in T : e - 1 <= j
  <2>1. ASSUME NEW j \in T PROVE e - 1 <= j /\ j \in Nat
    <3>1. j \in Nat /\ a + 1 <= j /\ line[j] = "quote"
      BY <1>1
    <3>2. CASE j < e - 1
      <4>1. j - a \in 1 .. Len(v) /\ a + (j - a) = j
        BY <1>1, <3>1, <3>2
      <4>2. line[j] = v[j - a]
        BY <4>1
      <4>3. v[j - a] # "quote"
        BY <4>1 DEF ToSet
      <4> QED
        BY <3>1, <4>2, <4>3
    <3> QED
      BY <1>1, <3>1, <3>2
  <2> QED
    BY <1>2, <2>1
<1>4. SubSeq(line, a + 1, e - 1 - 1) = v
  <2>1. e - 1 - 1 = a + Len(v)
    BY <1>1
  <2>2. /\ SubSeq(line, a + 1, a + Len(v)) \in Seq(Pieces)
        /\ Len(SubSeq(line, a + 1, a + Len(v))) = Len(v)
        /\ \A k \in 1 .. Len(v) : SubSeq(line, a + 1, a + Len(v))[k] = line[a + k]
    <3>1. a + Len(v) <= Len(line)
      BY <1>1, <1>2
    <3>2. \A k \in 1 .. Len(v) : (a + 1) + k - 1 = a + k
      BY <1>1
    <3> QED
      BY <1>1, <3>1, <3>2
  <2> QED
    BY <2>1, <2>2
<1> HIDE DEF T
<1>5. Min(T) \in T /\ Min(T) <= e - 1
  BY <1>3, MinIn
<1>6. Min(T) = e - 1
  <2>1. e - 1 <= Min(T) /\ Min(T) \in Nat
    BY <1>3, <1>5
  <2> QED
    BY <1>1, <1>5, <2>1
<1>7. T # {}
  BY <1>3
<1> QED
  BY <1>4, <1>6, <1>7 DEF T

\* An item is read as its token.
LEMMA ItemRead ==
    ASSUME NEW line \in Seq(Pieces), NEW f, Reads(f, line, 1), NEW item \in Item,
           CanBeWritten(item), NEW a, NEW e, StandsAt(item, line, a, e)
    PROVE  f[a] = <<TokenOf(item)>> \o f[e] /\ line[a] \notin {"space", "hash"}
<1>1. /\ a \in 1 .. Len(line) /\ e \in a + 1 .. Len(line) + 1 /\ e = a + Len(Spelled(item))
      /\ \A k \in 1 .. Len(Spelled(item)) : line[a + k - 1] = Spelled(item)[k]
      /\ e = Len(line) + 1 \/ line[e] = "space"
  BY Zenon DEF StandsAt
<1>2. /\ Len(line) \in Nat /\ ~(a > Len(line)) /\ a \in 1 .. Len(line) + 1
      /\ a \in Nat /\ e \in Nat /\ a + 1 - 1 = a /\ e - 1 + 1 = e
  BY <1>1
<1>3. f[a] = TokenAt(line, f, a)
  BY <1>2, Zenon DEF Reads
<1>4. CASE item.kind \in Keywords
  <2>1. Spelled(item) = <<item.kind>> /\ TokenOf(item) = Operator(item.kind)
    BY <1>4, ItemIs DEF Keywords
  <2>2. e = a + 1
    BY <1>1, <2>1
  <2>3. line[a] = item.kind
    <3>1. 1 \in 1 .. Len(Spelled(item)) /\ Spelled(item)[1] = item.kind
      BY <2>1
    <3> QED
      BY <1>1, <1>2, <3>1
  <2>4. Keyword(line, a)
    <3>1. "space" \notin WordPieces
      BY PieceAssumption DEF WordPieces, Keywords
    <3>2. a = Len(line) \/ line[a + 1] \notin WordPieces
      BY <1>1, <1>2, <2>2, <3>1
    <3> QED
      BY <1>4, <2>3, <3>2, Zenon DEF Keyword
  <2>5. line[a] \notin {"space", "hash"}
    BY <1>4, <2>3 DEF Keywords
  <2>6. TokenAt(line, f, a) = <<Operator(line[a])>> \o f[a + 1]
    BY <1>2, <2>4, <2>5, Zenon DEF TokenAt
  <2> QED
    BY <1>3, <2>1, <2>2, <2>3, <2>5, <2>6, Zenon
<1>5. CASE item.kind = "word"
  <2>1. Spelled(item) = item.value /\ TokenOf(item) = Term(item.value) /\ item.value \in Seq(Pieces)
    BY <1>5, ItemIs DEF Keywords
  <2>2. IsWord(item.value)
    BY <1>5, Zenon DEF CanBeWritten
  <2>3. /\ line[a] \notin {"space", "quote", "hash"} /\ ~Keyword(line, a)
        /\ WordEnd(line, a) = e /\ SubSeq(line, a, e - 1) = item.value
    <3> DEFINE v == item.value
    <3>1. /\ v \in Seq(Pieces) /\ IsWord(v) /\ e = a + Len(v)
          /\ \A k \in 1 .. Len(v) : line[a + k - 1] = v[k]
      BY <1>1, <2>1, <2>2, Zenon
    <3> HIDE DEF v
    <3>2. /\ line[a] \notin {"space", "quote", "hash"} /\ ~Keyword(line, a)
          /\ WordEnd(line, a) = e /\ SubSeq(line, a, e - 1) = v
      BY <1>1, <3>1, WordRead
    <3> QED
      BY <3>2 DEF v
  <2>4. TokenAt(line, f, a) =
          <<Term(SubSeq(line, a, WordEnd(line, a) - 1))>> \o f[WordEnd(line, a)]
    <3>1. line[a] # "space" /\ line[a] # "quote"
      BY <2>3
    <3> QED
      BY <1>2, <2>3, <3>1, Zenon DEF TokenAt
  <2>5. f[a] = <<TokenOf(item)>> \o f[e]
    BY <1>3, <2>1, <2>3, <2>4, Zenon
  <2> QED
    BY <2>3, <2>5
<1>6. CASE item.kind = "phrase"
  <2> DEFINE v == item.value
             s == (<<"quote">> \o v) \o <<"quote">>
  <2>1. Spelled(item) = s /\ TokenOf(item) = Term(v) /\ v \in Seq(Pieces)
    BY <1>6, ItemIs DEF Keywords
  <2>2. "quote" \notin ToSet(v)
    BY <1>6, Zenon DEF CanBeWritten
  <2>3. Len(s) = Len(v) + 2 /\ s[1] = "quote" /\ s[Len(v) + 2] = "quote"
        /\ \A k \in 1 .. Len(v) : s[k + 1] = v[k]
    BY <2>1, PhraseIs
  <2>4. Len(v) \in Nat
    BY <2>1
  <2> HIDE DEF v, s
  <2>5. e = a + Len(v) + 2
    BY <1>1, <1>2, <2>1, <2>3, <2>4
  <2>6. \A k \in 1 .. Len(v) + 2 : line[a + k - 1] = s[k]
    BY <1>1, <2>1, <2>3
  <2>7. line[a] = "quote"
    BY <1>2, <2>3, <2>4, <2>6
  <2>8. line[e - 1] = "quote"
    <3>1. Len(v) + 2 \in 1 .. Len(v) + 2 /\ a + (Len(v) + 2) - 1 = e - 1
      BY <1>2, <2>4, <2>5
    <3> QED
      BY <2>3, <2>6, <3>1
  <2>9. ASSUME NEW k \in 1 .. Len(v) PROVE line[a + k] = v[k]
    <3>1. k + 1 \in 1 .. Len(v) + 2 /\ a + (k + 1) - 1 = a + k
      BY <1>2, <2>4
    <3> QED
      BY <2>3, <2>6, <3>1
  <2>10. /\ {j \in (a + 1) .. Len(line) : line[j] = "quote"} # {}
         /\ Min({j \in (a + 1) .. Len(line) : line[j] = "quote"}) = e - 1
         /\ SubSeq(line, a + 1, e - 1 - 1) = v
    BY <1>1, <2>1, <2>2, <2>5, <2>7, <2>8, <2>9, PhraseRead
  <2>11. ~Keyword(line, a) /\ line[a] \notin {"space", "hash"}
    BY <2>7 DEF Keyword, Keywords
  <2>12. line[a] # "space"
    BY <2>7
  <2>13. TokenAt(line, f, a) = <<Term(SubSeq(line, a + 1, e - 1 - 1))>> \o f[e - 1 + 1]
    BY <1>2, <2>7, <2>10, <2>11, <2>12, Zenon DEF TokenAt
  <2>14. f[a] = <<TokenOf(item)>> \o f[e]
    BY <1>2, <1>3, <2>1, <2>10, <2>13, Zenon
  <2> QED
    BY <2>11, <2>14, Zenon
<1> QED
  BY <1>4, <1>5, <1>6, ItemIs

\* Where the item begins, or the line ends.
BeginOf(line, items, at, i) == IF i = Len(items) + 1 THEN Len(line) + 1 ELSE at[i]

\* Where it ends.
EndOf(items, at, i) == at[i] + Len(Spelled(items[i]))

LEMMA ItemStands ==
    ASSUME NEW line \in Seq(Pieces), NEW items \in Seq(Item), NEW at,
           WrittenAs(line, items, at), NEW i \in 1 .. Len(items)
    PROVE  /\ CanBeWritten(items[i]) /\ items[i] \in Item
           /\ StandsAt(items[i], line, at[i], EndOf(items, at, i))
           /\ EndOf(items, at, i) \in 1 .. Len(line) + 1
           /\ BeginOf(line, items, at, i + 1) \in EndOf(items, at, i) .. Len(line) + 1
           /\ \A k \in EndOf(items, at, i) .. BeginOf(line, items, at, i + 1) - 1 : line[k] = "space"
           /\ BeginOf(line, items, at, i) = at[i]
<1> DEFINE n == Len(items)
           a == at[i]
           e == EndOf(items, at, i)
           b == BeginOf(line, items, at, i + 1)
           s == Spelled(items[i])
<1>1. n \in Nat /\ Len(line) \in Nat /\ i \in Nat /\ items[i] \in Item /\ i # n + 1
  OBVIOUS
<1>2. /\ CanBeWritten(items[i]) /\ a \in DOMAIN line /\ e - 1 \in DOMAIN line
      /\ \A k \in 1 .. Len(s) : line[a + k - 1] = s[k]
      /\ IF i = n THEN e = b ELSE e < b
      /\ \A k \in e .. b - 1 : line[k] = "space"
  BY Zenon DEF WrittenAs, EndOf, BeginOf
<1>3. BeginOf(line, items, at, i) = a
  BY <1>1 DEF BeginOf
<1>4. s \in Seq(Pieces) /\ Len(s) \in Nat \ {0}
  <2>1. CASE items[i].kind \in Keywords
    <3>1. s = <<items[i].kind>>
      BY <1>1, <2>1, ItemIs DEF Keywords
    <3>2. items[i].kind \in Pieces
      BY <2>1 DEF Pieces, WordPieces
    <3> QED
      BY <3>1, <3>2
  <2>2. CASE items[i].kind = "word"
    <3>1. s = items[i].value /\ items[i].value \in Seq(Pieces)
      BY <1>1, <2>2, ItemIs DEF Keywords
    <3>2. items[i].value # <<>>
      BY <1>2, <2>2 DEF CanBeWritten, IsWord
    <3> QED
      BY <3>1, <3>2
  <2>3. CASE items[i].kind = "phrase"
    <3>1. s = (<<"quote">> \o items[i].value) \o <<"quote">> /\ items[i].value \in Seq(Pieces)
      BY <1>1, <2>3, ItemIs DEF Keywords
    <3>2. s \in Seq(Pieces) /\ Len(s) = Len(items[i].value) + 2 /\ Len(items[i].value) \in Nat
      BY <3>1, PhraseIs
    <3> QED
      BY <3>2
  <2> QED
    BY <1>1, <2>1, <2>2, <2>3, ItemIs
<1>5. e = a + Len(s)
  BY DEF EndOf
<1> HIDE DEF s
<1>6. a \in 1 .. Len(line) /\ e \in a + 1 .. Len(line) + 1
  <2>1. a \in 1 .. Len(line) /\ e - 1 \in 1 .. Len(line)
    BY <1>2
  <2>2. a \in Nat /\ e \in Int
    BY <1>4, <1>5, <2>1
  <2> HIDE DEF a, e
  <2> QED
    BY <1>1, <1>4, <1>5, <2>1, <2>2
<1> HIDE DEF a, e, b
<1>7. b \in e .. Len(line) + 1 /\ (i = n => b = Len(line) + 1) /\ (i # n => e < b)
  <2>1. CASE i = n
    <3>1. b = Len(line) + 1
      BY <1>1, <2>1 DEF b, BeginOf
    <3> QED
      BY <1>1, <1>2, <1>6, <2>1, <3>1
  <2>2. CASE i # n
    <3>1. i + 1 \in 1 .. n /\ i + 1 # n + 1
      BY <1>1, <2>2
    <3>2. b = at[i + 1]
      BY <3>1 DEF b, BeginOf
    <3>3. at[i + 1] \in DOMAIN line
      BY <3>1, Zenon DEF WrittenAs
    <3>4. b \in 1 .. Len(line) /\ e < b
      BY <1>2, <2>2, <3>2, <3>3
    <3> QED
      BY <1>1, <1>6, <2>2, <3>4
  <2> QED
    BY <2>1, <2>2
<1>8. e = Len(line) + 1 \/ line[e] = "space"
  <2>1. CASE i = n
    BY <1>2, <1>7, <2>1
  <2>2. CASE i # n
    <3>1. e \in e .. b - 1
      BY <1>1, <1>6, <1>7, <2>2
    <3> QED
      BY <1>2, <3>1
  <2> QED
    BY <2>1, <2>2
<1>9. StandsAt(items[i], line, a, e)
  BY <1>2, <1>5, <1>6, <1>8, Zenon DEF StandsAt, s
<1>10. e \in 1 .. Len(line) + 1
  BY <1>1, <1>6
<1> QED
  BY <1>1, <1>2, <1>3, <1>7, <1>9, <1>10 DEF a, e, b

\* One token and those of the items that follow.
LEMMA TokensFromOn ==
    ASSUME NEW items \in Seq(Item), NEW i \in 1 .. Len(items)
    PROVE  TokensFrom(items, i) = <<TokenOf(items[i])>> \o TokensFrom(items, i + 1)
<1> DEFINE n == Len(items)
           t == TokenOf(items[i])
           s == TokensFrom(items, i + 1)
<1>1. n \in Nat /\ i \in Nat /\ \A k \in 1 .. n : TokenOf(items[k]) \in Token
  BY ItemIs
<1> HIDE DEF t
<1>2. t \in Token
  BY <1>1 DEF t
<1>3. s \in Seq(Token) /\ Len(s) = n - i /\ \A k \in 1 .. n - i : s[k] = TokenOf(items[i + k])
  <2>1. n + 1 - (i + 1) = n - i /\ n - i \in Nat
    BY <1>1
  <2>2. \A k \in 1 .. n - i : (i + 1) + k - 1 = i + k /\ i + k \in 1 .. n
    BY <1>1
  <2>3. s = [k \in 1 .. n - i |-> TokenOf(items[i + k])]
    BY <2>1, <2>2 DEF TokensFrom
  <2>4. \A k \in 1 .. n - i : TokenOf(items[i + k]) \in Token
    BY <1>1, <2>2
  <2>5. s \in [1 .. n - i -> Token]
    BY <2>3, <2>4, Zenon
  <2>6. \A k \in 1 .. n - i : s[k] = TokenOf(items[i + k])
    BY <2>3, Zenon
  <2> HIDE DEF s, n
  <2>7. s \in Seq(Token) /\ Len(s) = n - i
    BY <2>1, <2>5
  <2> QED
    BY <2>6, <2>7
<1> DEFINE r == TokensFrom(items, i)
<1>4. r = [k \in 1 .. n + 1 - i |-> TokenOf(items[i + k - 1])]
  BY DEF TokensFrom
<1>5. r \in Seq(Token) /\ Len(r) = n + 1 - i
  <2>1. \A k \in 1 .. n + 1 - i : i + k - 1 \in 1 .. n
    BY <1>1
  <2>2. \A k \in 1 .. n + 1 - i : TokenOf(items[i + k - 1]) \in Token
    BY <1>1, <2>1
  <2>3. n + 1 - i \in Nat
    BY <1>1
  <2> QED
    BY <1>4, <2>2, <2>3
<1> HIDE DEF s
<1> DEFINE q == <<t>> \o s
<1>6. <<t>> \in Seq(Token) /\ Len(<<t>>) = 1 /\ <<t>>[1] = t
  BY <1>2
<1>7. /\ q \in Seq(Token) /\ Len(q) = 1 + (n - i)
      /\ \A k \in 1 .. Len(q) : q[k] = IF k <= 1 THEN <<t>>[k] ELSE s[k - 1]
  BY <1>3, <1>6, ConcatProperties
<1>8. Len(q) = n + 1 - i
  BY <1>1, <1>7
<1>9. ASSUME NEW k \in 1 .. n + 1 - i PROVE r[k] = q[k]
  <2>1. r[k] = TokenOf(items[i + k - 1])
    BY <1>4
  <2>2. CASE k = 1
    <3>1. i + k - 1 = i
      BY <1>1, <2>2
    <3>2. q[k] = t
      BY <1>6, <1>7, <1>8, <2>2
    <3> QED
      BY <2>1, <3>1, <3>2 DEF t
  <2>3. CASE k # 1
    <3>1. ~(k <= 1) /\ k - 1 \in 1 .. n - i /\ i + (k - 1) = i + k - 1
      BY <1>1, <2>3
    <3>2. q[k] = s[k - 1]
      BY <1>7, <1>8, <3>1
    <3>3. s[k - 1] = TokenOf(items[i + k - 1])
      BY <1>3, <3>1
    <3> QED
      BY <2>1, <3>2, <3>3
  <2> QED
    BY <2>2, <2>3
<1> HIDE DEF r, q
<1>10. r = q
  BY <1>5, <1>7, <1>8, <1>9, SeqEqual
<1> QED
  BY <1>10 DEF r, q, s, t

\* tokenize_rule reads from each item on what is written there.
LEMMA ItemsRead ==
    ASSUME NEW line \in Seq(Pieces), NEW items \in Seq(Item), NEW at,
           WrittenAs(line, items, at), NEW f, Reads(f, line, 1), NEW i \in 1 .. Len(items) + 1
    PROVE  f[BeginOf(line, items, at, i)] = TokensFrom(items, i)
<1> DEFINE n == Len(items)
           Read(k) == f[BeginOf(line, items, at, k)] = TokensFrom(items, k)
           Bad == {d \in 0 .. n : ~Read(n + 1 - d)}
<1>1. n \in Nat /\ Len(line) \in Nat
  OBVIOUS
<1>2. Read(n + 1)
  <2>1. BeginOf(line, items, at, n + 1) = Len(line) + 1
    BY DEF BeginOf
  <2>2. Len(line) + 1 \in 1 .. Len(line) + 1 /\ Len(line) + 1 > Len(line)
    BY <1>1
  <2>3. f[Len(line) + 1] = TokenAt(line, f, Len(line) + 1)
    BY <2>2, Zenon DEF Reads
  <2>4. f[Len(line) + 1] = <<>>
    BY <2>2, <2>3, Zenon DEF TokenAt
  <2>5. TokensFrom(items, n + 1) = <<>>
    <3>1. 1 .. n + 1 - (n + 1) = {}
      BY <1>1
    <3>2. TokensFrom(items, n + 1) = [k \in {} |-> TokenOf(items[n + 1 + k - 1])]
      BY <3>1 DEF TokensFrom
    <3> QED
      BY <3>2
  <2> QED
    BY <2>1, <2>4, <2>5
<1>3. ASSUME NEW k \in 1 .. n, Read(k + 1) PROVE Read(k)
  <2> DEFINE e == EndOf(items, at, k)
             b == BeginOf(line, items, at, k + 1)
  <2>1. /\ CanBeWritten(items[k]) /\ items[k] \in Item
        /\ StandsAt(items[k], line, at[k], e) /\ e \in 1 .. Len(line) + 1
        /\ b \in e .. Len(line) + 1 /\ \A j \in e .. b - 1 : line[j] = "space"
        /\ BeginOf(line, items, at, k) = at[k]
    BY ItemStands
  <2> HIDE DEF e, b
  <2>2. f[e] = f[b]
    BY <2>1, SpacesSkipped
  <2>3. f[at[k]] = <<TokenOf(items[k])>> \o f[e]
    BY <2>1, ItemRead
  <2>4. f[b] = TokensFrom(items, k + 1)
    BY <1>3 DEF b
  <2>5. TokensFrom(items, k) = <<TokenOf(items[k])>> \o TokensFrom(items, k + 1)
    BY TokensFromOn
  <2> QED
    BY <2>1, <2>2, <2>3, <2>4, <2>5
<1> HIDE DEF Read
<1>4. Bad = {}
  <2> SUFFICES ASSUME Bad # {} PROVE FALSE
    OBVIOUS
  <2>1. PICK d \in Bad : \A m \in Bad : d <= m
    <3>1. Bad \in SUBSET Nat
      BY <1>1
    <3> HIDE DEF Bad
    <3> QED
      BY <3>1, LeastNat
  <2>2. d \in 0 .. n /\ ~Read(n + 1 - d)
    OBVIOUS
  <2>3. d # 0
    <3>1. n + 1 - 0 = n + 1
      BY <1>1
    <3> QED
      BY <1>2, <2>2, <3>1
  <2>4. PICK k \in 1 .. n : k = n + 1 - d /\ k + 1 = n + 1 - (d - 1)
    <3>1. n + 1 - d \in 1 .. n /\ (n + 1 - d) + 1 = n + 1 - (d - 1)
      BY <1>1, <2>2, <2>3
    <3> QED
      BY <3>1
  <2>5. d - 1 \in 0 .. n /\ ~(d <= d - 1)
    BY <1>1, <2>2, <2>3
  <2>6. d - 1 \notin Bad
    BY <2>1, <2>5
  <2>7. Read(k + 1)
    BY <2>4, <2>5, <2>6
  <2> QED
    BY <1>3, <2>2, <2>4, <2>7
<1>5. n + 1 - i \in 0 .. n /\ n + 1 - (n + 1 - i) = i
  BY <1>1
<1>6. n + 1 - i \notin Bad
  BY <1>4, Zenon
<1>7. Read(i)
  BY <1>5, <1>6
<1> QED
  BY <1>7 DEF Read

\* And so the whole line; it is not one that load_rules passes over.
LEMMA LineRead ==
    ASSUME NEW raw \in Seq(Pieces), NEW items \in Seq(Item), NEW at,
           WrittenAs(Strip(raw), items, at)
    PROVE  /\ Tokens(raw) = TokensFrom(items, 1)
           /\ Strip(raw) # <<>> /\ Strip(raw)[1] # "hash" /\ Len(items) > 0
<1> DEFINE line == Strip(raw)
           f == CHOOSE h : Reads(h, line, 1)
<1>1. line \in Seq(Pieces)
  BY StripTyped
<1>2. Reads(f, line, 1)
  <2> HIDE DEF line
  <2> QED
    BY <1>1, ReadsExist
<1>3. Tokens(raw) = f[1]
  BY Zenon DEF Tokens, Reads, TokenAt
<1> HIDE DEF f
<1>4. WrittenAs(line, items, at)
  OBVIOUS
<1> HIDE DEF line
<1>5. Len(items) \in Nat /\ Len(items) > 0 /\ at[1] = 1
  <2>1. Len(items) > 0 /\ at[1] = 1
    BY <1>4, Zenon DEF WrittenAs
  <2>2. Len(items) \in Nat
    OBVIOUS
  <2> QED
    BY <2>1, <2>2
<1>6. 1 \in 1 .. Len(items) /\ 1 \in 1 .. Len(items) + 1
  BY <1>5
<1>7. f[BeginOf(line, items, at, 1)] = TokensFrom(items, 1)
  BY <1>1, <1>2, <1>4, <1>6, ItemsRead
<1>8. /\ CanBeWritten(items[1]) /\ items[1] \in Item /\ StandsAt(items[1], line, 1, EndOf(items, at, 1))
      /\ BeginOf(line, items, at, 1) = 1
  BY <1>1, <1>4, <1>5, <1>6, ItemStands
<1>9. line[1] \notin {"space", "hash"} /\ 1 \in 1 .. Len(line)
  <2>1. line[1] \notin {"space", "hash"}
    BY <1>1, <1>2, <1>8, ItemRead
  <2>2. 1 \in 1 .. Len(line)
    BY <1>8, Zenon DEF StandsAt
  <2> QED
    BY <2>1, <2>2
<1>10. line # <<>>
  BY <1>9
<1> QED
  BY <1>3, <1>5, <1>7, <1>8, <1>9, <1>10 DEF line

-----------------------------------------------------------------------------
(* What is read is what is meant.                                          *)

\* The tokens of a rule, one for each item.
LEMMA TokensAre ==
    ASSUME NEW items \in Seq(Item)
    PROVE  /\ TokensFrom(items, 1) \in Seq(Token) /\ Len(TokensFrom(items, 1)) = Len(items)
           /\ \A i \in 1 .. Len(items) :
                /\ TokensFrom(items, 1)[i].op = "or" <=> items[i].kind = "or"
                /\ TokensFrom(items, 1)[i].op = "term" <=> IsTerm(items[i])
                /\ IsTerm(items[i]) => /\ items[i].value \in Seq(Pieces)
                                       /\ TokensFrom(items, 1)[i].value = items[i].value
                                       /\ TokensFrom(items, 1)[i].op # "or"
<1> DEFINE n == Len(items)
           s == TokensFrom(items, 1)
<1>1. n \in Nat /\ n + 1 - 1 = n
  OBVIOUS
<1>2. \A k \in 1 .. n : 1 + k - 1 = k
  BY <1>1
<1>3. s = [k \in 1 .. n |-> TokenOf(items[k])]
  BY <1>1, <1>2 DEF TokensFrom
<1>4. \A k \in 1 .. n : TokenOf(items[k]) \in Token
  BY ItemIs
<1>5. s \in Seq(Token) /\ Len(s) = n
  BY <1>1, <1>3, <1>4
<1>6. ASSUME NEW i \in 1 .. n
      PROVE  /\ s[i].op = "or" <=> items[i].kind = "or"
             /\ s[i].op = "term" <=> IsTerm(items[i])
             /\ IsTerm(items[i]) => /\ items[i].value \in Seq(Pieces) /\ s[i].value = items[i].value
                                    /\ s[i].op # "or"
  <2>1. s[i] = TokenOf(items[i]) /\ items[i] \in Item
    BY <1>3
  <2> HIDE DEF s
  <2>2. CASE items[i].kind \in Keywords
    <3>1. s[i] = Operator(items[i].kind) /\ items[i].kind \in {"and", "or"}
      BY <2>1, <2>2, ItemIs DEF Keywords
    <3>2. s[i].op = items[i].kind
      BY <3>1 DEF Operator
    <3> QED
      BY <3>1, <3>2 DEF IsTerm
  <2>3. CASE items[i].kind \in {"word", "phrase"}
    <3>1. s[i] = Term(items[i].value) /\ items[i].value \in Seq(Pieces)
      BY <2>1, <2>3, ItemIs DEF Keywords
    <3>2. s[i].op = "term" /\ s[i].value = items[i].value
      BY <3>1 DEF Term
    <3> QED
      BY <2>3, <3>1, <3>2 DEF IsTerm
  <2> QED
    BY <2>1, <2>2, <2>3, ItemIs
<1> QED
  BY <1>5, <1>6

\* Position j is beyond no OR, seen from position i.
Together(tokens, i, j) ==
    \A k \in DOMAIN tokens :
        tokens[k].op = "or" => ~((i < k /\ k < j) \/ (j < k /\ k < i))

\* The terms at a and behind, before b.
TermsIn(tokens, a, b) == {tokens[k] : k \in {j \in a + 1 .. b - 1 : tokens[j].op = "term"}}

\* A part of a sequence holds what stands between its ends.
LEMMA PartHolds ==
    ASSUME NEW S, NEW s \in Seq(S), NEW m \in Int, NEW n \in Int,
           1 <= m, m <= n + 1, n <= Len(s)
    PROVE  ToSet(SubSeq(s, m, n)) = {s[i] : i \in m .. n}
<1> DEFINE p == SubSeq(s, m, n)
<1>1. /\ p \in Seq(S) /\ Len(p) = n - m + 1
      /\ \A i \in 1 .. n - m + 1 : p[i] = s[m + i - 1]
  <2>1. p \in Seq(S) /\ Len(p) = n - m + 1
    BY SMT
  <2>2. ASSUME NEW i \in 1 .. n - m + 1 PROVE p[i] = s[m + i - 1]
    BY <2>2, SMT
  <2> QED
    BY <2>1, <2>2
<1> HIDE DEF p
<1>2. DOMAIN p = 1 .. n - m + 1
  BY <1>1
<1>3. ToSet(p) = {p[i] : i \in 1 .. n - m + 1}
  BY <1>2, Zenon DEF ToSet
<1>4. ASSUME NEW k \in 1 .. n - m + 1 PROVE p[k] \in {s[i] : i \in m .. n}
  <2>1. m + k - 1 \in m .. n /\ p[k] = s[m + k - 1]
    BY <1>1
  <2> QED
    BY <2>1
<1>5. ASSUME NEW i \in m .. n PROVE s[i] \in {p[k] : k \in 1 .. n - m + 1}
  <2>1. i - m + 1 \in 1 .. n - m + 1 /\ m + (i - m + 1) - 1 = i
    OBVIOUS
  <2>2. p[i - m + 1] = s[i]
    BY <1>1, <2>1
  <2> QED
    BY <2>1, <2>2
<1> QED
  BY <1>3, <1>4, <1>5 DEF p

\* A clause lies between two bounds, ORs or the ends, with no OR between them.
Bounds(tokens) == {0, Len(tokens) + 1} \cup {i \in DOMAIN tokens : tokens[i].op = "or"}

LEMMA ClauseIs ==
    ASSUME NEW tokens \in Seq(Token), NEW c
    PROVE  c \in Clauses(tokens) <=>
             \E a \in Bounds(tokens), b \in Bounds(tokens) :
                /\ a < b /\ \A k \in Bounds(tokens) : ~(a < k /\ k < b)
                /\ c = TermsIn(tokens, a, b)
<1> DEFINE n == Len(tokens)
           B == Bounds(tokens)
           Between(i, j) == {u \in ToSet(SubSeq(tokens, i + 1, j - 1)) : u.op = "term"}
           next(i) == Min({j \in B : i < j})
<1>1. n \in Nat /\ DOMAIN tokens = 1 .. n
  OBVIOUS
<1>2. B \subseteq 0 .. n + 1 /\ n + 1 \in B
  BY <1>1 DEF Bounds
<1>3. Clauses(tokens) = {Between(i, next(i)) : i \in B \ {n + 1}}
  BY Zenon DEF Clauses, Bounds
<1>4. ASSUME NEW a \in B, NEW b \in B, a < b PROVE Between(a, b) = TermsIn(tokens, a, b)
  <2>1. a \in 0 .. n + 1 /\ b \in 0 .. n + 1
    BY <1>2
  <2> DEFINE lo == a + 1
             hi == b - 1
  <2>2. lo \in Int /\ hi \in Int /\ 1 <= lo /\ lo <= hi + 1 /\ hi <= Len(tokens)
    BY <1>1, <1>4, <2>1
  <2> HIDE DEF lo, hi
  <2>4. ToSet(SubSeq(tokens, lo, hi)) = {tokens[k] : k \in lo .. hi}
    <3>1. tokens \in Seq(Token)
      OBVIOUS
    <3> QED
      BY <2>2, <3>1, PartHolds, SMT
  <2>5. Between(a, b) = {u \in {tokens[k] : k \in lo .. hi} : u.op = "term"}
    BY <2>4 DEF lo, hi
  <2>6. TermsIn(tokens, a, b) = {tokens[k] : k \in {j \in lo .. hi : tokens[j].op = "term"}}
    BY DEF TermsIn, lo, hi
  <2> QED
    BY <2>5, <2>6
<1>5. ASSUME NEW a \in B, a # n + 1
      PROVE  /\ next(a) \in B /\ a < next(a) /\ \A k \in B : ~(a < k /\ k < next(a))
             /\ \A b \in B : a < b /\ (\A k \in B : ~(a < k /\ k < b)) => b = next(a)
  <2> DEFINE T == {j \in B : a < j}
  <2>1. T \in SUBSET Nat /\ T # {} /\ \A j \in T : j \in B /\ a < j
    BY <1>1, <1>2, <1>5
  <2>2. \A k \in B : a < k => k \in T
    OBVIOUS
  <2> HIDE DEF T
  <2>3. Min(T) \in T /\ \A k \in T : Min(T) <= k
    BY <2>1, MinIn
  <2>4. Min(T) \in Nat /\ \A k \in B : k \in Nat
    <3>1. Min(T) \in Nat
      BY <2>1, <2>3, Zenon
    <3>2. \A k \in 0 .. n + 1 : k \in Nat
      BY <1>1
    <3> QED
      BY <1>2, <3>1, <3>2, Zenon
  <2>5. Min(T) \in B /\ a < Min(T)
    BY <2>1, <2>3
  <2> HIDE DEF B
  <2>6. \A k \in B : ~(a < k /\ k < Min(T))
    BY <2>2, <2>3, <2>4
  <2>7. ASSUME NEW b \in B, a < b, \A k \in B : ~(a < k /\ k < b) PROVE b = Min(T)
    <3>1. Min(T) <= b
      BY <2>2, <2>3, <2>7
    <3>2. ~(Min(T) < b)
      BY <2>5, <2>7
    <3> QED
      BY <2>4, <3>1, <3>2
  <2> QED
    BY <2>5, <2>6, <2>7 DEF T
<1> HIDE DEF B, Between, next
<1>6. ASSUME NEW a \in B, NEW b \in B, a < b PROVE a # n + 1
  BY <1>1, <1>2, <1>6
<1>7. ASSUME c \in Clauses(tokens)
      PROVE  \E a \in B, b \in B : /\ a < b /\ \A k \in B : ~(a < k /\ k < b)
                                   /\ c = TermsIn(tokens, a, b)
  <2>1. PICK a \in B \ {n + 1} : c = Between(a, next(a))
    BY <1>3, <1>7
  <2>2. next(a) \in B /\ a < next(a) /\ \A k \in B : ~(a < k /\ k < next(a))
    BY <1>5
  <2>3. c = TermsIn(tokens, a, next(a))
    BY <1>4, <2>1, <2>2
  <2> QED
    BY <2>2, <2>3
<1>8. ASSUME NEW a \in B, NEW b \in B, a < b, \A k \in B : ~(a < k /\ k < b),
             c = TermsIn(tokens, a, b)
      PROVE  c \in Clauses(tokens)
  <2>1. a \in B \ {n + 1} /\ b = next(a)
    BY <1>5, <1>6, <1>8
  <2>2. c = Between(a, next(a))
    BY <1>4, <1>8, <2>1
  <2> QED
    BY <1>3, <2>1, <2>2
<1> QED
  BY <1>7, <1>8 DEF B

\* _rule_matches, said of positions.
LEMMA MatchesIs ==
    ASSUME NEW tokens \in Seq(Token), NEW text
    PROVE  RuleMatches(tokens, text) <=>
             \E i \in DOMAIN tokens :
                /\ tokens[i].op = "term"
                /\ \A j \in DOMAIN tokens :
                     tokens[j].op = "term" /\ Together(tokens, i, j) => TermMatches(tokens[j], text)
<1> DEFINE n == Len(tokens)
           B == Bounds(tokens)
<1>1. n \in Nat /\ DOMAIN tokens = 1 .. n
  OBVIOUS
<1>2. /\ B \subseteq 0 .. n + 1 /\ 0 \in B /\ n + 1 \in B
      /\ \A k \in 1 .. n : k \in B <=> tokens[k].op = "or"
  BY <1>1 DEF Bounds
<1> HIDE DEF B
<1>3. ASSUME RuleMatches(tokens, text)
      PROVE  \E i \in DOMAIN tokens :
                /\ tokens[i].op = "term"
                /\ \A j \in DOMAIN tokens :
                     tokens[j].op = "term" /\ Together(tokens, i, j) => TermMatches(tokens[j], text)
  <2>1. PICK c \in Clauses(tokens) : c # {} /\ \A t \in c : TermMatches(t, text)
    BY <1>3, Zenon DEF RuleMatches
  <2>2. PICK a \in B, b \in B : /\ a < b /\ \A k \in B : ~(a < k /\ k < b)
                                /\ c = TermsIn(tokens, a, b)
    BY <2>1, ClauseIs DEF B
  <2>3. a \in 0 .. n + 1 /\ b \in 0 .. n + 1
    BY <1>2
  <2>4. PICK i \in a + 1 .. b - 1 : tokens[i].op = "term"
    BY <2>1, <2>2 DEF TermsIn
  <2>5. i \in 1 .. n
    BY <1>1, <2>3, <2>4
  <2>6. ASSUME NEW j \in 1 .. n, tokens[j].op = "term", Together(tokens, i, j)
        PROVE  TermMatches(tokens[j], text)
    <3>1. j # a /\ j # b
      BY <1>2, <2>6
    <3>2. a < j
      <4>1. SUFFICES ASSUME j < a PROVE FALSE
        BY <1>1, <2>3, <3>1, <4>1
      <4>2. a \in 1 .. n /\ tokens[a].op = "or" /\ j < a /\ a < i
        <5>1. a \in 1 .. n /\ a < i
          BY <1>1, <2>3, <2>4, <2>5, <4>1
        <5> QED
          BY <1>2, <4>1, <5>1
      <4> QED
        BY <1>1, <2>6, <4>2 DEF Together
    <3>3. j < b
      <4>1. SUFFICES ASSUME b < j PROVE FALSE
        BY <1>1, <2>3, <3>1, <4>1
      <4>2. b \in 1 .. n /\ tokens[b].op = "or" /\ i < b /\ b < j
        <5>1. b \in 1 .. n /\ i < b
          BY <1>1, <2>3, <2>4, <2>5, <4>1
        <5> QED
          BY <1>2, <4>1, <5>1
      <4> QED
        BY <1>1, <2>6, <4>2 DEF Together
    <3>4. j \in a + 1 .. b - 1
      BY <1>1, <2>3, <3>2, <3>3
    <3>5. tokens[j] \in c
      BY <2>2, <2>6, <3>4 DEF TermsIn
    <3> QED
      BY <2>1, <3>5
  <2> QED
    BY <1>1, <2>4, <2>5, <2>6
<1>4. ASSUME NEW i \in 1 .. n, tokens[i].op = "term",
             \A j \in 1 .. n :
                tokens[j].op = "term" /\ Together(tokens, i, j) => TermMatches(tokens[j], text)
      PROVE  RuleMatches(tokens, text)
  <2> DEFINE L == {k \in B : k < i}
             R == {k \in B : i < k}
  <2>1. \A k \in B : k \in Nat /\ k # i
    BY <1>1, <1>2, <1>4
  <2>2. /\ L \in SUBSET Nat /\ L # {} /\ \A k \in L : k <= i
        /\ R \in SUBSET Nat /\ R # {} /\ i \in Nat
    <3>1. i \in Nat /\ 0 < i /\ i < n + 1
      BY <1>1
    <3>2. 0 \in L /\ n + 1 \in R
      BY <1>2, <3>1, Zenon
    <3>3. \A k \in L : k \in Nat /\ k < i
      BY <2>1, Zenon
    <3>4. \A k \in R : k \in Nat
      BY <2>1, Zenon
    <3> HIDE DEF L, R
    <3>5. \A k \in L : k <= i
      BY <3>1, <3>3
    <3> QED
      BY <3>1, <3>2, <3>3, <3>4, <3>5, Zenon
  <2>3. /\ \A k \in B : k < i => k \in L
        /\ \A k \in B : i < k => k \in R
        /\ \A k \in L : k \in B /\ k < i
        /\ \A k \in R : k \in B /\ i < k
    OBVIOUS
  <2> HIDE DEF L, R
  <2>4. PICK a \in L : \A k \in L : k <= a
    BY <2>2, GreatestNat
  <2>5. PICK b \in R : \A k \in R : b <= k
    BY <2>2, LeastNat
  <2>6. a \in B /\ b \in B /\ a < i /\ i < b /\ a \in Nat /\ b \in Nat
    BY <2>1, <2>3
  <2>7. ASSUME NEW k \in B PROVE ~(a < k /\ k < b)
    <3>1. k \in Nat /\ k # i
      BY <2>1
    <3>2. k < i => k <= a
      BY <2>3, <2>4
    <3>3. i < k => b <= k
      BY <2>3, <2>5
    <3> QED
      BY <2>2, <2>6, <3>1, <3>2, <3>3
  <2> DEFINE c == TermsIn(tokens, a, b)
  <2>8. c \in Clauses(tokens)
    <3>1. a < b
      BY <2>2, <2>6
    <3>2. \E u \in B, v \in B : /\ u < v /\ \A k \in B : ~(u < k /\ k < v)
                                /\ c = TermsIn(tokens, u, v)
      BY <2>6, <2>7, <3>1
    <3> HIDE DEF c
    <3> QED
      BY <3>2, ClauseIs DEF B
  <2>9. c # {}
    <3>1. i \in a + 1 .. b - 1
      BY <2>2, <2>6
    <3> QED
      BY <1>4, <3>1 DEF TermsIn
  <2>10. ASSUME NEW t \in c PROVE TermMatches(t, text)
    <3>1. PICK j \in a + 1 .. b - 1 : tokens[j].op = "term" /\ t = tokens[j]
      BY DEF TermsIn
    <3>2. j \in 1 .. n /\ a < j /\ j < b /\ j \in Nat
      BY <1>1, <1>2, <2>6
    <3>3. Together(tokens, i, j)
      <4> SUFFICES ASSUME NEW k \in 1 .. n, tokens[k].op = "or"
                   PROVE  ~((i < k /\ k < j) \/ (j < k /\ k < i))
        BY <1>1 DEF Together
      <4>1. k \in B
        BY <1>2
      <4>2. ~(a < k /\ k < b)
        BY <2>7, <4>1
      <4> QED
        BY <2>2, <2>6, <3>2, <4>2
    <3> QED
      BY <1>4, <3>1, <3>2, <3>3
  <2> QED
    BY <2>8, <2>9, <2>10 DEF RuleMatches
<1> QED
  BY <1>1, <1>3, <1>4

\* A rule matches what its items mean.
LEMMA RuleMeans ==
    ASSUME NEW items \in Seq(Item), NEW text
    PROVE  RuleMatches(TokensFrom(items, 1), text) <=> Means(items, text)
<1> DEFINE n == Len(items)
           s == TokensFrom(items, 1)
           Apart(i, j) == \E k \in DOMAIN items :
                            items[k].kind = "or" /\ ((i < k /\ k < j) \/ (j < k /\ k < i))
<1>1. /\ s \in Seq(Token) /\ Len(s) = n
      /\ \A i \in 1 .. n :
           /\ s[i].op = "or" <=> items[i].kind = "or"
           /\ s[i].op = "term" <=> IsTerm(items[i])
           /\ IsTerm(items[i]) => s[i].value = items[i].value
  BY TokensAre
<1>2. DOMAIN s = 1 .. n /\ DOMAIN items = 1 .. n
  BY <1>1
<1>3. Means(items, text) <=>
        \E i \in 1 .. n : /\ IsTerm(items[i])
                          /\ \A j \in 1 .. n : IsTerm(items[j]) /\ ~Apart(i, j) =>
                                items[j].value # <<>> /\ Occurs(items[j].value, text)
  BY <1>2, Zenon DEF Means
<1> HIDE DEF s, n
<1>4. \A i, j \in 1 .. n : Together(s, i, j) <=> ~Apart(i, j)
  BY <1>1, <1>2 DEF Together
<1> HIDE DEF Apart
<1>5. \A j \in 1 .. n : IsTerm(items[j]) =>
        (TermMatches(s[j], text) <=> items[j].value # <<>> /\ Occurs(items[j].value, text))
  BY <1>1, Zenon DEF TermMatches
<1>6. RuleMatches(s, text) <=>
        \E i \in 1 .. n : /\ s[i].op = "term"
                          /\ \A j \in 1 .. n :
                               s[j].op = "term" /\ Together(s, i, j) => TermMatches(s[j], text)
  BY <1>1, <1>2, MatchesIs
<1> DEFINE G(j) == items[j].value # <<>> /\ Occurs(items[j].value, text)
<1>7. ASSUME NEW i \in 1 .. n, NEW j \in 1 .. n
      PROVE  (s[j].op = "term" /\ Together(s, i, j) => TermMatches(s[j], text))
               <=> (IsTerm(items[j]) /\ ~Apart(i, j) => G(j))
  BY <1>1, <1>4, <1>5, Zenon
<1> HIDE DEF G
<1>8. RuleMatches(s, text) <=>
        \E i \in 1 .. n : /\ IsTerm(items[i])
                          /\ \A j \in 1 .. n : IsTerm(items[j]) /\ ~Apart(i, j) => G(j)
  BY <1>1, <1>6, <1>7
<1> QED
  BY <1>3, <1>8, Zenon DEF s, G

\* load_rules and is_excluded_by_rules on a file that is written as its head says.
LEMMA FileMeans ==
    ASSUME NEW file \in Files, WellWritten(file), NEW text \in Seq(Pieces)
    PROVE  Excluded(LoadRules(file), text) <=>
             /\ file.readable
             /\ \E i \in DOMAIN file.meant : Means(file.meant[i].items, text)
<1> DEFINE Written(l) == Strip(l) # <<>> /\ Strip(l)[1] # "hash"
           D == DOMAIN file.lines
           line(i) == file.lines[i]
           items(i) == file.meant[i].items
<1>1. file.lines \in Seq(Seq(Pieces)) /\ \A i \in DOMAIN file.meant : items(i) \in Seq(Item)
  BY ConfigurationAssumption, Zenon
<1>2. DOMAIN file.meant = D
  BY Zenon DEF WellWritten
<1>3. ASSUME NEW i \in D
      PROVE  /\ line(i) \in Seq(Pieces) /\ items(i) \in Seq(Item)
             /\ IF Written(line(i)) THEN WrittenAs(Strip(line(i)), items(i), file.meant[i].at)
                                    ELSE items(i) = <<>>
  <2>1. line(i) \in Seq(Pieces) /\ items(i) \in Seq(Item)
    BY <1>1, <1>2
  <2>2. IF Strip(line(i)) = <<>> \/ Strip(line(i))[1] = "hash"
          THEN items(i) = <<>> ELSE WrittenAs(Strip(line(i)), items(i), file.meant[i].at)
    BY Zenon DEF WellWritten
  <2> QED
    BY <2>1, <2>2, Zenon
<1>4. ASSUME NEW i \in D, Written(line(i))
      PROVE  Tokens(line(i)) = TokensFrom(items(i), 1) /\ Tokens(line(i)) # <<>>
  <2>1. Tokens(line(i)) = TokensFrom(items(i), 1) /\ Len(items(i)) > 0
    BY <1>3, <1>4, LineRead
  <2>2. TokensFrom(items(i), 1) # <<>>
    <3>1. TokensFrom(items(i), 1) \in Seq(Token) /\ Len(TokensFrom(items(i), 1)) = Len(items(i))
      BY <1>3, TokensAre
    <3> QED
      BY <2>1, <3>1
  <2> QED
    BY <2>1, <2>2, Zenon
<1>5. ASSUME NEW i \in D, ~Written(line(i)) PROVE ~Means(items(i), text)
  <2>1. items(i) = <<>>
    BY <1>3, <1>5
  <2>2. DOMAIN items(i) = {}
    BY <2>1
  <2> QED
    BY <2>2, Zenon DEF Means
<1>6. ASSUME NEW i \in D, Means(items(i), text) PROVE text # <<>>
  <2>1. PICK k \in DOMAIN items(i) : IsTerm(items(i)[k]) /\ items(i)[k].value # <<>>
                                     /\ Occurs(items(i)[k].value, text)
    <3>1. PICK k \in DOMAIN items(i) :
            /\ IsTerm(items(i)[k])
            /\ \A j \in DOMAIN items(i) :
                 IsTerm(items(i)[j]) /\ ~(\E m \in DOMAIN items(i) :
                      items(i)[m].kind = "or" /\ ((k < m /\ m < j) \/ (j < m /\ m < k)))
                 => items(i)[j].value # <<>> /\ Occurs(items(i)[j].value, text)
      BY <1>6, Zenon DEF Means
    <3>2. ~(\E m \in DOMAIN items(i) :
               items(i)[m].kind = "or" /\ ((k < m /\ m < k) \/ (k < m /\ m < k)))
      <4>1. DOMAIN items(i) \subseteq Nat
        BY <1>3
      <4> QED
        BY <4>1
    <3> QED
      BY <3>1, <3>2, Zenon
  <2> DEFINE v == items(i)[k].value
  <2>2. v \in Seq(Pieces)
    <3>1. k \in 1 .. Len(items(i))
      BY <1>3
    <3> QED
      BY <1>3, <2>1, <3>1, TokensAre
  <2>3. v # <<>> /\ \E m \in 0 .. Len(text) - Len(v) : TRUE
    BY <2>1 DEF Occurs
  <2> HIDE DEF v
  <2> QED
    BY <2>2, <2>3
<1>7. ASSUME file.readable
      PROVE  \A r : r \in LoadRules(file) <=> \E i \in D : Written(line(i)) /\ r = Tokens(line(i))
  <2>1. LoadRules(file) = {Tokens(l) : l \in {k \in ToSet(file.lines) : Written(k)}} \ {<<>>}
    BY <1>7, Zenon DEF LoadRules
  <2>2. ToSet(file.lines) = {line(i) : i \in D}
    BY DEF ToSet
  <2> HIDE DEF Written, line, D
  <2>3. ASSUME NEW r
        PROVE  r \in LoadRules(file) <=> \E i \in D : Written(line(i)) /\ r = Tokens(line(i))
    <3>1. r \in LoadRules(file) => \E i \in D : Written(line(i)) /\ r = Tokens(line(i))
      BY <2>1, <2>2, Zenon
    <3>2. ASSUME NEW i \in D, Written(line(i)), r = Tokens(line(i)) PROVE r \in LoadRules(file)
      <4>1. line(i) \in {k \in ToSet(file.lines) : Written(k)}
        BY <2>2, <3>2, Zenon
      <4>2. r # <<>>
        BY <1>4, <3>2, Zenon
      <4> QED
        BY <2>1, <3>2, <4>1, <4>2, Zenon
    <3> QED
      BY <3>1, <3>2, Zenon
  <2> QED
    BY <2>3
<1> HIDE DEF Written, D, line, items
<1>8. CASE ~file.readable
  <2>1. LoadRules(file) = {}
    BY <1>8, Zenon DEF LoadRules
  <2> QED
    BY <1>8, <2>1, Zenon DEF Excluded
<1>9. CASE file.readable
  <2>1. ASSUME NEW i \in D, Written(line(i))
        PROVE  RuleMatches(Tokens(line(i)), text) <=> Means(items(i), text)
    <3>1. items(i) \in Seq(Item)
      BY <1>3
    <3>2. RuleMatches(TokensFrom(items(i), 1), text) <=> Means(items(i), text)
      BY <3>1, RuleMeans
    <3> QED
      BY <1>4, <2>1, <3>2, Zenon
  <2>2. Excluded(LoadRules(file), text) => \E i \in D : Means(items(i), text)
    <3> SUFFICES ASSUME Excluded(LoadRules(file), text) PROVE \E i \in D : Means(items(i), text)
      OBVIOUS
    <3>1. PICK r \in LoadRules(file) : RuleMatches(r, text)
      BY Zenon DEF Excluded
    <3>2. PICK i \in D : Written(line(i)) /\ r = Tokens(line(i))
      BY <1>7, <1>9, <3>1, Zenon
    <3> QED
      BY <2>1, <3>1, <3>2, Zenon
  <2>3. ASSUME NEW i \in D, Means(items(i), text) PROVE Excluded(LoadRules(file), text)
    <3>1. Written(line(i))
      BY <1>5, <2>3, Zenon
    <3>2. Tokens(line(i)) \in LoadRules(file)
      BY <1>7, <1>9, <3>1, Zenon
    <3>3. RuleMatches(Tokens(line(i)), text) /\ text # <<>>
      BY <1>6, <2>1, <2>3, <3>1, Zenon
    <3> QED
      BY <3>2, <3>3, Zenon DEF Excluded
  <2>4. Excluded(LoadRules(file), text) <=> \E i \in D : Means(items(i), text)
    BY <2>2, <2>3, Zenon
  <2> QED
    BY <1>2, <1>9, <2>4, Zenon DEF items
<1> QED
  BY <1>8, <1>9

\* A worker has the rules of the file it loaded, until it is replaced.
RulesAreLoaded == \A w \in Workers : rules[w] = LoadRules(loaded[w])

LEMMA LoadedInit == Init => RulesAreLoaded
BY Zenon DEF Init, RulesAreLoaded

LEMMA LoadedStep == ConfigTypeOK /\ RulesAreLoaded /\ [Next]_vars => RulesAreLoaded'
<1> SUFFICES ASSUME ConfigTypeOK, RulesAreLoaded, [Next]_vars PROVE RulesAreLoaded'
  OBVIOUS
<1>1. DOMAIN rules = Workers /\ DOMAIN loaded = Workers
  BY DEF ConfigTypeOK
<1>2. ASSUME NEW w \in Workers, Restart(w) PROVE RulesAreLoaded'
  <2>1. /\ rules' = [rules EXCEPT ![w] = LoadRules(rulesFile)]
        /\ loaded' = [loaded EXCEPT ![w] = rulesFile]
    BY <1>2, Zenon DEF Restart
  <2>2. ASSUME NEW v \in Workers PROVE rules'[v] = LoadRules(loaded'[v])
    <3>1. CASE v = w
      BY <1>1, <2>1, <3>1, Zenon
    <3>2. CASE v # w
      <4>1. rules'[v] = rules[v] /\ loaded'[v] = loaded[v]
        BY <1>1, <2>1, <3>2, Zenon
      <4> QED
        BY <4>1, Zenon DEF RulesAreLoaded
    <3> QED
      BY <3>1, <3>2
  <2> QED
    BY <2>2, Zenon DEF RulesAreLoaded
<1>3. CASE UNCHANGED <<rules, loaded>>
  <2>1. rules' = rules /\ loaded' = loaded
    BY <1>3
  <2> QED
    BY <2>1, Zenon DEF RulesAreLoaded
<1>4. ASSUME NEW w \in Workers, Validate(w) PROVE UNCHANGED <<rules, loaded>>
  BY <1>4 DEF Validate
<1>5. ASSUME NEW w \in Workers, Store(w) PROVE UNCHANGED <<rules, loaded>>
  BY <1>5 DEF Store
<1>6. ASSUME NEW s \in Storages, Mark(s) PROVE UNCHANGED <<rules, loaded>>
  BY <1>6 DEF Mark
<1>7. ASSUME EditRules PROVE UNCHANGED <<rules, loaded>>
  BY <1>7 DEF EditRules
<1>8. CASE UNCHANGED vars
  BY <1>3, <1>8 DEF vars
<1> QED
  BY <1>2, <1>3, <1>4, <1>5, <1>6, <1>7, <1>8, Zenon DEF Next

\* Whichever file a worker loaded, and whatever was saved since: where it is written as
\* the head of exclusion_rules.py says, with any spaces, any words and any phrases, its
\* rules hide the texts its author meant and no others.
THEOREM RulesKeepTheirMeaning == Spec => []RulesMeanWhatIsWritten
<1>1. ConfigTypeOK /\ RulesAreLoaded => RulesMeanWhatIsWritten
  <2> SUFFICES ASSUME ConfigTypeOK, RulesAreLoaded, NEW w \in deployment.workers,
                      WellWritten(loaded[w]), NEW t \in Texts
               PROVE  Excluded(rules[w], t) <=>
                        /\ loaded[w].readable
                        /\ \E i \in DOMAIN loaded[w].meant : Means(loaded[w].meant[i].items, t)
    BY Zenon DEF RulesMeanWhatIsWritten
  <2>1. w \in Workers
    <3>1. deployment \in Deployments
      BY Zenon DEF ConfigTypeOK
    <3>2. deployment.workers \subseteq Workers
      BY <3>1, ConfigurationAssumption, Zenon
    <3> QED
      BY <3>2, Zenon
  <2>2. loaded[w] \in Files
    BY <2>1, Zenon DEF ConfigTypeOK
  <2>3. rules[w] = LoadRules(loaded[w])
    BY <2>1, Zenon DEF RulesAreLoaded
  <2>4. t \in Seq(Pieces)
    BY ConfigurationAssumption
  <2> QED
    BY <2>2, <2>3, <2>4, FileMeans
<1> QED
  BY <1>1, LoadedInit, LoadedStep, ConfigTypeCorrect, PTL DEF Spec
===============================================================================
