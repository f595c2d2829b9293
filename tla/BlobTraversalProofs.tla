------------------------- MODULE BlobTraversalProofs -------------------------
(***************************************************************************)
(* Proofs about BlobTraversal, for every graph of references.              *)
(***************************************************************************)
EXTENDS BlobTraversal, WellFoundedInduction, TLAPS

-----------------------------------------------------------------------------
(* What the elements of a sequence are after the operations of a queue.    *)

\* An empty and a one-element queue.
LEMMA SmallElements ==
    ASSUME NEW x
    PROVE  Elements(<<>>) = {} /\ Elements(<<x>>) = {x}
  BY DEF Elements

\* A queue at whose end something is put.
LEMMA AppendElements ==
    ASSUME NEW T, NEW s \in Seq(T), NEW x \in T
    PROVE  /\ Append(s, x) \in Seq(T)
           /\ Elements(Append(s, x)) = Elements(s) \cup {x}
  <1>1. Append(s, x) \in Seq(T) /\ Len(Append(s, x)) = Len(s) + 1
    OBVIOUS
  <1>2. \A i \in 1 .. Len(s) : Append(s, x)[i] = s[i]
    OBVIOUS
  <1>3. Append(s, x)[Len(s) + 1] = x
    OBVIOUS
  <1>4. Elements(Append(s, x)) \subseteq Elements(s) \cup {x}
    BY <1>1, <1>2, <1>3 DEF Elements
  <1>5. Elements(s) \cup {x} \subseteq Elements(Append(s, x))
    <2>1. SUFFICES ASSUME NEW y \in Elements(s) \cup {x} PROVE y \in Elements(Append(s, x))
      OBVIOUS
    <2>2. CASE y = x
      BY <2>2, <1>1, <1>3 DEF Elements
    <2>3. CASE y \in Elements(s)
      <3>1. PICK i \in 1 .. Len(s) : y = s[i]
        BY <2>3 DEF Elements
      <3>2. i \in 1 .. Len(Append(s, x)) /\ Append(s, x)[i] = y
        BY <3>1, <1>1, <1>2
      <3> QED BY <3>2 DEF Elements
    <2> QED BY <2>1, <2>2, <2>3
  <1> QED BY <1>1, <1>4, <1>5

\* A queue from which the first element is taken.
LEMMA TailElements ==
    ASSUME NEW T, NEW s \in Seq(T), s # <<>>
    PROVE  /\ Head(s) \in T /\ Tail(s) \in Seq(T)
           /\ Elements(s) = {Head(s)} \cup Elements(Tail(s))
  <1>1. Len(s) \in Nat \ {0} /\ Tail(s) \in Seq(T) /\ Len(Tail(s)) = Len(s) - 1
    OBVIOUS
  <1>2. \A i \in 1 .. Len(s) - 1 : Tail(s)[i] = s[i + 1]
    OBVIOUS
  <1>3. Head(s) = s[1] /\ s[1] \in T
    BY <1>1
  <1>4. Elements(s) \subseteq {Head(s)} \cup Elements(Tail(s))
    <2>1. SUFFICES ASSUME NEW i \in 1 .. Len(s)
                   PROVE  s[i] \in {Head(s)} \cup Elements(Tail(s))
      BY DEF Elements
    <2>2. CASE i = 1
      BY <2>2, <1>3
    <2>3. CASE i # 1
      <3>1. i - 1 \in 1 .. Len(Tail(s)) /\ Tail(s)[i - 1] = s[i]
        BY <2>3, <1>1, <1>2
      <3> QED BY <3>1 DEF Elements
    <2> QED BY <2>2, <2>3
  <1>5. {Head(s)} \cup Elements(Tail(s)) \subseteq Elements(s)
    <2>1. Head(s) \in Elements(s)
      BY <1>1, <1>3 DEF Elements
    <2>2. ASSUME NEW i \in 1 .. Len(Tail(s)) PROVE Tail(s)[i] \in Elements(s)
      <3>1. i + 1 \in 1 .. Len(s) /\ Tail(s)[i] = s[i + 1]
        BY <1>1, <1>2
      <3> QED BY <3>1 DEF Elements
    <2> QED BY <2>1, <2>2 DEF Elements
  <1> QED BY <1>1, <1>3, <1>4, <1>5

\* Turning a sequence round keeps what is in it.
LEMMA ReversedElements ==
    ASSUME NEW T, NEW s \in Seq(T)
    PROVE  /\ Reversed(s) \in Seq(T) /\ Len(Reversed(s)) = Len(s)
           /\ \A i \in 1 .. Len(s) : Reversed(s)[i] = s[Len(s) + 1 - i]
           /\ Elements(Reversed(s)) = Elements(s)
  <1>1. Len(s) \in Nat
    OBVIOUS
  <1>2. \A i \in 1 .. Len(s) : Len(s) + 1 - i \in 1 .. Len(s) /\ s[Len(s) + 1 - i] \in T
    BY <1>1
  <1>3. Reversed(s) \in Seq(T) /\ Len(Reversed(s)) = Len(s)
    BY <1>1, <1>2 DEF Reversed
  <1>4. \A i \in 1 .. Len(s) : Reversed(s)[i] = s[Len(s) + 1 - i]
    BY DEF Reversed
  <1>5. Elements(Reversed(s)) \subseteq Elements(s)
    BY <1>1, <1>2, <1>3, <1>4 DEF Elements
  <1>6. Elements(s) \subseteq Elements(Reversed(s))
    <2>1. SUFFICES ASSUME NEW i \in 1 .. Len(s) PROVE s[i] \in Elements(Reversed(s))
      BY DEF Elements
    <2> DEFINE j == Len(s) + 1 - i
    <2>2. j \in 1 .. Len(Reversed(s)) /\ Reversed(s)[j] = s[i]
      BY <1>1, <1>3, <1>4
    <2> QED BY <2>2 DEF Elements
  <1> QED BY <1>3, <1>4, <1>5, <1>6

-----------------------------------------------------------------------------
(* Reachability.                                                           *)

\* What can be reached contains the root and whatever its chain nodes name.
LEMMA ReachIsClosed ==
    ASSUME refs \in [Blobs -> Seq(Blobs)], NEW r \in Blobs, NEW s
    PROVE  r \in Reach(r, s) /\ Closed(Reach(r, s), s)
  <1>1. r \in Reach(r, s)
    BY DEF Reach
  <1>2. ASSUME NEW b \in Reach(r, s) \cap Chain(s), NEW x \in Elements(refs[b])
        PROVE  x \in Reach(r, s)
    <2>1. b \in Blobs
      BY <1>2 DEF Reach
    <2>2. x \in Blobs
      BY <1>2, <2>1 DEF Elements
    <2>3. ASSUME NEW S \in SUBSET Blobs, r \in S, Closed(S, s) PROVE x \in S
      <3>1. b \in S \cap Chain(s)
        BY <1>2, <2>3 DEF Reach
      <3> QED BY <1>2, <2>3, <3>1 DEF Closed
    <2> QED BY <2>2, <2>3 DEF Reach
  <1> QED BY <1>1, <1>2 DEF Closed

\* It is the least such set.
LEMMA ReachIsLeast ==
    ASSUME NEW r, NEW s, NEW S \in SUBSET Blobs, r \in S, Closed(S, s)
    PROVE  Reach(r, s) \subseteq S
  BY DEF Reach

\* A graph that is there as a whole is not changed by what comes later.
LEMMA ReachStays ==
    ASSUME refs \in [Blobs -> Seq(Blobs)], NEW r \in Blobs,
           NEW s, NEW t, s \subseteq t, Reach(r, s) \subseteq s
    PROVE  Reach(r, t) = Reach(r, s)
  <1>1. r \in Reach(r, s) /\ Closed(Reach(r, s), s)
    BY ReachIsClosed
  <1>2. Closed(Reach(r, s), t)
    BY <1>1 DEF Closed, Chain
  <1>3. Reach(r, s) \in SUBSET Blobs /\ Reach(r, t) \in SUBSET Blobs
    BY DEF Reach
  <1>4. Reach(r, t) \subseteq Reach(r, s)
    BY <1>1, <1>2, <1>3, ReachIsLeast
  <1>5. r \in Reach(r, t) /\ Closed(Reach(r, t), t)
    BY ReachIsClosed
  <1>6. Closed(Reach(r, t), s)
    BY <1>5 DEF Closed, Chain
  <1>7. Reach(r, s) \subseteq Reach(r, t)
    BY <1>3, <1>5, <1>6, ReachIsLeast
  <1> QED BY <1>4, <1>7

-----------------------------------------------------------------------------
(* The inductive invariant.                                                *)

\* It holds of an empty session and an idle reader.
LEMMA TraversalInit ==
    Init => Traversal
  <1> SUFFICES ASSUME Init PROVE Traversal
    OBVIOUS
  <1>1. TypeOK
    BY BlobAssumption DEF Init, TypeOK
  <1>2. Rooted /\ Walking /\ FoundOnce /\ OnceEach /\ ExactlyReachable
    BY DEF Init, Rooted, Walking, FoundOnce, OnceEach, ExactlyReachable
  <1> QED BY <1>1, <1>2 DEF Traversal, Init

\* Every step of the reader and of the agent keeps it.
LEMMA TraversalStep ==
    Traversal /\ [Next]_vars => Traversal'
  <1> SUFFICES ASSUME Traversal, [Next]_vars PROVE Traversal'
    OBVIOUS
  <1> USE DEF Traversal
  <1>1. CASE ReadMeta
    <2>1. TypeOK'
      BY <1>1 DEF TypeOK, ReadMeta, session
    <2>2. Rooted' /\ Walking'
      BY <1>1 DEF TypeOK, ReadMeta, session, Rooted, Walking, Reach, Closed, Chain
    <2>3. FoundOnce' /\ OnceEach'
      BY <1>1 DEF ReadMeta, FoundOnce, OnceEach
    <2>4. ExactlyReachable'
      BY <1>1, BlobAssumption DEF ReadMeta, ExactlyReachable, TypeOK
    <2> QED BY <1>1, <2>1, <2>2, <2>3, <2>4 DEF ReadMeta
  <1>2. CASE LoadBlobs
    <2>1. start \in Blobs
      BY <1>2 DEF LoadBlobs, TypeOK, Rooted
    <2>2. TypeOK'
      BY <1>2, <2>1 DEF TypeOK, LoadBlobs, session
    <2>3. Rooted'
      BY <1>2 DEF LoadBlobs, session, Rooted, Reach, Closed, Chain
    <2>4. visited = {} /\ pending = <<>> /\ found = <<>>
      BY <1>2 DEF LoadBlobs
    <2>5. Elements(queue') = {start} /\ Elements(pending') = {} /\ Elements(found') = {}
      BY <1>2, <2>4, SmallElements DEF LoadBlobs
    <2>6. Ahead' = {start} /\ visited' = {} /\ pending' = <<>>
      BY <1>2, <2>4, <2>5 DEF Ahead, LoadBlobs
    <2>7. start' = start /\ start \in Reach(start, store)
      BY <1>2, <2>1, ReachIsClosed DEF LoadBlobs, TypeOK
    <2>8. Reach(start, loaded)' = Reach(start, store)
      BY <1>2 DEF LoadBlobs, session, Reach, Closed, Chain
    <2>9. Walking'
      <3>1. Elements(found)' = {} /\ pc' = "pop"
        BY <1>2, <2>5 DEF LoadBlobs, Elements
      <3> QED BY <2>6, <2>7, <2>8, <3>1 DEF Walking
    <2>10. FoundOnce' /\ OnceEach' /\ ExactlyReachable'
      BY <1>2 DEF LoadBlobs, FoundOnce, OnceEach, ExactlyReachable
    <2> QED BY <1>2, <2>2, <2>3, <2>9, <2>10 DEF LoadBlobs
  <1>3. CASE Skip
    <2>1. /\ Tail(queue) \in Seq(Blobs)
          /\ Elements(queue) = {Head(queue)} \cup Elements(Tail(queue))
      BY <1>3, TailElements DEF Skip, TypeOK
    <2>2. TypeOK'
      BY <1>3, <2>1 DEF TypeOK, Skip, session
    <2>3. Rooted'
      BY <1>3 DEF Skip, session, Rooted, Reach, Closed, Chain
    <2>4. Ahead' = Ahead
      BY <1>3, <2>1 DEF Skip, Ahead
    <2>5. Walking'
      BY <1>3, <2>4 DEF Skip, session, Walking, Reach, Closed, Chain, Elements
    <2>6. FoundOnce' /\ OnceEach' /\ ExactlyReachable'
      BY <1>3 DEF Skip, FoundOnce, OnceEach, ExactlyReachable
    <2> QED BY <1>3, <2>2, <2>3, <2>5, <2>6 DEF Skip
  <1>4. ASSUME NEW b \in Blobs, Visit(b) PROVE Traversal'
    <2>1. /\ Tail(queue) \in Seq(Blobs)
          /\ Elements(queue) = {b} \cup Elements(Tail(queue))
      BY <1>4, TailElements DEF Visit, TypeOK
    <2>2. /\ b \in loaded \cap Messages =>
                found' \in Seq(Messages) /\ Elements(found') = Elements(found) \cup {b}
          /\ b \notin loaded \cap Messages => found' = found
      BY <1>4, AppendElements DEF Visit, TypeOK
    <2>3. pending' \in Seq(Blobs)
      BY <1>4 DEF Visit, TypeOK
    <2>4. TypeOK'
      BY <1>4, <2>1, <2>2, <2>3 DEF TypeOK, Visit, session
    <2>5. Rooted'
      BY <1>4 DEF Visit, session, Rooted, Reach, Closed, Chain
    <2>6. pending = <<>> /\ Elements(pending) = {} /\ b \in Ahead
      BY <1>4, <2>1, SmallElements DEF Visit, Walking, Ahead
    <2>7. Ahead' = Ahead \cup Elements(pending')
      BY <1>4, <2>1, <2>6 DEF Visit, Ahead
    <2>8. b \in Chain(loaded) => Elements(pending') = Elements(refs[b])
      BY <1>4 DEF Visit
    <2>9. b \notin Chain(loaded) => Elements(pending') = {}
      BY <1>4, SmallElements DEF Visit
    <2>10. Elements(pending') \subseteq Reach(start, loaded)
      <3>1. start \in Blobs
        BY <1>4 DEF Visit, Rooted, TypeOK
      <3>2. b \in Reach(start, loaded)
        BY <1>4, <2>6 DEF Visit, Walking
      <3>3. Closed(Reach(start, loaded), loaded)
        BY <3>1, ReachIsClosed DEF TypeOK
      <3> QED BY <2>8, <2>9, <3>2, <3>3 DEF Closed
    <2>12. Ahead' \subseteq Reach(start, loaded)
      BY <1>4, <2>7, <2>10 DEF Visit, Walking
    <2>13. \A c \in visited' \cap Chain(loaded) : Elements(refs[c]) \subseteq Ahead'
      BY <1>4, <2>7, <2>8 DEF Visit, Walking
    <2>14. Elements(found') = visited' \cap loaded \cap Messages
      BY <1>4, <2>2 DEF Visit, Walking
    <2>15. Walking'
      <3>1. start' = start /\ loaded' = loaded /\ refs' = refs /\ pc' = "push"
        BY <1>4 DEF Visit, session
      <3>2. start \in Ahead'
        BY <1>4, <2>7 DEF Visit, Walking
      <3>3. \A c \in visited' \cap Chain(loaded)' : Elements(refs[c])' \subseteq Ahead'
        BY <2>13, <3>1 DEF Elements, Chain
      <3>4. Reach(start, loaded)' = Reach(start, loaded)
        BY <3>1 DEF Reach, Closed, Chain, Elements
      <3>5. Elements(found)' = visited' \cap loaded' \cap Messages
        BY <2>14, <3>1 DEF Elements
      <3> QED BY <2>12, <3>1, <3>2, <3>3, <3>4, <3>5 DEF Walking
    <2>16. FoundOnce'
      <3>1. CASE b \in loaded \cap Messages
        <4>1. found' = Append(found, b) /\ found \in Seq(Messages)
          BY <1>4, <3>1 DEF Visit, TypeOK
        <4>2. b \notin Elements(found)
          BY <1>4 DEF Visit, Walking
        <4>3. \A i \in 1 .. Len(found) : found[i] # b
          BY <4>2 DEF Elements
        <4>4. Len(found') = Len(found) + 1 /\ found'[Len(found) + 1] = b
          BY <4>1
        <4>5. \A i \in 1 .. Len(found) : found'[i] = found[i]
          BY <4>1
        <4>6. Len(found) \in Nat
          BY <4>1
        <4> QED BY <4>3, <4>4, <4>5, <4>6 DEF FoundOnce
      <3>2. CASE b \notin loaded \cap Messages
        BY <2>2, <3>2 DEF FoundOnce
      <3> QED BY <3>1, <3>2
    <2>17. OnceEach' /\ ExactlyReachable'
      BY <1>4 DEF Visit, OnceEach, ExactlyReachable
    <2> QED BY <1>4, <2>4, <2>5, <2>15, <2>16, <2>17 DEF Visit
  <1>5. CASE Push
    <2>1. /\ Head(pending) \in Blobs /\ Tail(pending) \in Seq(Blobs)
          /\ Elements(pending) = {Head(pending)} \cup Elements(Tail(pending))
      BY <1>5, TailElements DEF Push, TypeOK
    <2>2. /\ Append(queue, Head(pending)) \in Seq(Blobs)
          /\ Elements(Append(queue, Head(pending))) = Elements(queue) \cup {Head(pending)}
      BY <2>1, AppendElements DEF TypeOK
    <2>3. TypeOK'
      BY <1>5, <2>1, <2>2 DEF TypeOK, Push, session
    <2>4. Rooted'
      BY <1>5 DEF Push, session, Rooted, Reach, Closed, Chain
    <2>5. Ahead' = Ahead
      <3>1. CASE Head(pending) \in visited
        BY <1>5, <2>1, <3>1 DEF Push, Ahead
      <3>2. CASE Head(pending) \notin visited
        BY <1>5, <2>1, <2>2, <3>2 DEF Push, Ahead
      <3> QED BY <3>1, <3>2
    <2>6. Walking'
      BY <1>5, <2>5 DEF Push, session, Walking, Reach, Closed, Chain, Elements
    <2>7. FoundOnce' /\ OnceEach' /\ ExactlyReachable'
      BY <1>5 DEF Push, FoundOnce, OnceEach, ExactlyReachable
    <2> QED BY <1>5, <2>3, <2>4, <2>6, <2>7 DEF Push
  <1>6. CASE Pushed
    <2>1. TypeOK'
      BY <1>6 DEF TypeOK, Pushed, session
    <2>2. Rooted'
      BY <1>6 DEF Pushed, session, Rooted, Reach, Closed, Chain
    <2>3. Walking'
      BY <1>6 DEF Pushed, session, Walking, Ahead, Reach, Closed, Chain, Elements
    <2>4. FoundOnce' /\ OnceEach' /\ ExactlyReachable'
      BY <1>6 DEF Pushed, FoundOnce, OnceEach, ExactlyReachable
    <2> QED BY <1>6, <2>1, <2>2, <2>3, <2>4 DEF Pushed
  <1>7. CASE Finish
    <2>1. /\ result' \in Seq(Messages) /\ Len(result') = Len(found)
          /\ \A i \in 1 .. Len(found) : result'[i] = found[Len(found) + 1 - i]
          /\ Elements(result') = Elements(found)
      BY <1>7, ReversedElements DEF Finish, TypeOK
    <2>2. TypeOK'
      BY <1>7, <2>1 DEF TypeOK, Finish, session
    <2>3. Rooted'
      BY <1>7 DEF Finish, session, Rooted, Reach, Closed, Chain
    <2>4. Walking' /\ FoundOnce'
      BY <1>7 DEF Finish, Walking, FoundOnce
    <2>5. OnceEach'
      <3>1. Len(found) \in Nat
        BY DEF TypeOK
      <3>2. \A i \in 1 .. Len(found) : Len(found) + 1 - i \in 1 .. Len(found)
        BY <3>1
      <3>3. ASSUME NEW i \in 1 .. Len(found), NEW j \in 1 .. Len(found), result'[i] = result'[j]
            PROVE  i = j
        <4> DEFINE k == Len(found) + 1 - i
                   l == Len(found) + 1 - j
        <4>1. k \in 1 .. Len(found) /\ l \in 1 .. Len(found)
          BY <3>2
        <4>2. found[k] = found[l]
          BY <2>1, <3>3
        <4>3. k = l
          BY <4>1, <4>2 DEF FoundOnce
        <4> QED BY <3>1, <4>3
      <3> QED BY <2>1, <3>3 DEF OnceEach
    <2>6. ExactlyReachable'
      <3>1. /\ start \in Blobs /\ seen \subseteq loaded
            /\ Reach(start, seen) \subseteq seen
        BY <1>7 DEF Finish, Rooted, TypeOK
      <3>2. Reach(start, loaded) = Reach(start, seen)
        BY <3>1, ReachStays DEF TypeOK
      <3>3. Ahead = visited
        BY <1>7, SmallElements DEF Finish, Walking, Ahead
      <3>4. visited \in SUBSET Blobs /\ start \in visited /\ Closed(visited, loaded)
        BY <1>7, <3>3 DEF Finish, Walking, Closed, TypeOK
      <3>5. visited = Reach(start, loaded)
        BY <1>7, <3>3, <3>4, ReachIsLeast DEF Finish, Walking
      <3>6. Elements(found) = visited \cap loaded \cap Messages
        BY <1>7 DEF Finish, Walking
      <3>7. Elements(result') = Messages \cap Reach(start, seen)
        BY <2>1, <3>1, <3>2, <3>5, <3>6
      <3>8. Reach(start, seen)' = Reach(start, seen) /\ Elements(result)' = Elements(result')
        BY <1>7 DEF Finish, session, Reach, Closed, Chain, Elements
      <3> QED BY <3>7, <3>8 DEF ExactlyReachable
    <2> QED BY <1>7, <2>2, <2>3, <2>4, <2>5, <2>6 DEF Finish
  <1>8. CASE Return
    <2>1. TypeOK'
      BY <1>8 DEF TypeOK, Return, session
    <2>2. Rooted' /\ Walking'
      BY <1>8 DEF Return, session, Rooted, Walking, Reach, Closed, Chain
    <2>3. FoundOnce' /\ OnceEach' /\ ExactlyReachable'
      BY <1>8 DEF Return, FoundOnce, OnceEach, ExactlyReachable
    <2> QED BY <1>8, <2>1, <2>2, <2>3 DEF Return
  <1>9. CASE AgentWrites
    <2>1. PICK s \in SUBSET Blobs, r \in Blobs :
            /\ store \subseteq s /\ Reach(r, s) \subseteq s
            /\ store' = s /\ root' = r
      BY <1>9 DEF AgentWrites
    <2>2. refs' = refs /\ UNCHANGED reader
      BY <1>9 DEF AgentWrites
    <2>3. TypeOK'
      BY <2>1, <2>2 DEF TypeOK, reader
    <2>4. Reach(root, store)' = Reach(r, s)
      BY <2>1, <2>2 DEF Reach, Closed, Chain
    <2>5. Reach(start, seen)' = Reach(start, seen) /\ Reach(start, loaded)' = Reach(start, loaded)
      BY <2>2 DEF reader, Reach, Closed, Chain
    <2>6. Rooted'
      BY <2>1, <2>2, <2>4, <2>5 DEF reader, Rooted
    <2>7. Ahead' = Ahead
      BY <2>2 DEF reader, Ahead, Elements
    <2>8. Walking'
      BY <2>2, <2>5, <2>7 DEF reader, Walking, Chain, Elements
    <2>9. FoundOnce' /\ OnceEach'
      BY <2>2 DEF reader, FoundOnce, OnceEach
    <2>10. ExactlyReachable'
      BY <2>2, <2>5 DEF reader, ExactlyReachable, Elements
    <2> QED BY <2>2, <2>3, <2>6, <2>8, <2>9, <2>10 DEF reader
  <1>10. CASE UNCHANGED vars
    <2>1. refs' = refs /\ store' = store /\ root' = root /\ UNCHANGED reader
      BY <1>10 DEF vars, session
    <2>2. TypeOK'
      BY <2>1 DEF TypeOK, reader
    <2>3. /\ Reach(root, store)' = Reach(root, store)
          /\ Reach(start, seen)' = Reach(start, seen)
          /\ Reach(start, loaded)' = Reach(start, loaded)
          /\ Ahead' = Ahead
      BY <2>1 DEF reader, Reach, Closed, Chain, Ahead, Elements
    <2>4. Rooted' /\ Walking'
      BY <2>1, <2>3 DEF reader, Rooted, Walking, Chain, Elements
    <2>5. FoundOnce' /\ OnceEach' /\ ExactlyReachable'
      BY <2>1, <2>3 DEF reader, FoundOnce, OnceEach, ExactlyReachable, Elements
    <2> QED BY <2>1, <2>2, <2>4, <2>5 DEF reader
  <1> QED BY <1>1, <1>2, <1>3, <1>4, <1>5, <1>6, <1>7, <1>8, <1>9, <1>10 DEF Next, Read

\* The invariant of the walk, for every graph of references and every way the
\* agent may write while it is read.
THEOREM TraversalHolds == Spec => []Traversal
  <1> QED BY TraversalInit, TraversalStep, PTL DEF Spec

\* traverse_blobs returns the messages that can be reached from the root it
\* read, all of them and no others.
THEOREM MessagesAreExact == Spec => []ExactlyReachable
  <1>1. Traversal => ExactlyReachable
    BY DEF Traversal
  <1> QED BY TraversalHolds, <1>1, PTL

\* No message is returned twice.
THEOREM MessagesComeOnce == Spec => []OnceEach
  <1>1. Traversal => OnceEach
    BY DEF Traversal
  <1> QED BY TraversalHolds, <1>1, PTL

\* The state stays well formed.
THEOREM TraversalTypeCorrect == Spec => []TypeOK
  <1>1. Traversal => TypeOK
    BY DEF Traversal
  <1> QED BY TraversalHolds, <1>1, PTL

\* Some natural number of a set of them is the least.
LEMMA LeastNat ==
    ASSUME NEW T \in SUBSET Nat, T # {}
    PROVE  \E n \in T : \A m \in T : n <= m
<1>1. PICK n \in T : \A m \in T : ~(<<m, n>> \in OpToRel(<, Nat))
  <2>1. IsWellFoundedOn(OpToRel(<, Nat), Nat)
    BY NatLessThanWellFounded
  <2> HIDE DEF OpToRel
  <2> QED
    BY <2>1, WFMin, Zenon
<1>2. ASSUME NEW m \in T PROVE n <= m
  <2>1. ~(m < n)
    BY <1>1 DEF OpToRel
  <2> QED
    BY <2>1
<1> QED
  BY <1>2

-----------------------------------------------------------------------------
(* What is at most n references from the root.                             *)

\* One reference further than S, in the graph g with the blobs l.
Further(S, g, l) == S \cup UNION {Elements(g[b]) : b \in S \cap Chain(l)}

Nears(f, s, g, l, D) == f = [n \in D |-> IF n = 0 THEN {s} ELSE Further(f[n - 1], g, l)]

Alike(f, h, n) == \A i \in 0 .. n : f[i] = h[i]

\* Up to each distance there is such a function.
LEMMA NearsExist ==
    ASSUME NEW s, NEW g, NEW l, NEW n \in Nat
    PROVE  \E f : Nears(f, s, g, l, 0 .. n)
<1> DEFINE Can(k) == \E f : Nears(f, s, g, l, 0 .. k)
           Bad == {k \in Nat : ~Can(k)}
<1>1. SUFFICES ASSUME Bad # {} PROVE FALSE
  OBVIOUS
<1>2. PICK k \in Bad : \A m \in Bad : k <= m
  <2>1. Bad \in SUBSET Nat
    OBVIOUS
  <2> HIDE DEF Bad
  <2> QED
    BY <1>1, <2>1, LeastNat
<1>3. k \in Nat /\ ~Can(k)
  OBVIOUS
<1>4. k # 0
  <2>1. Can(0)
    <3> DEFINE f == [i \in 0 .. 0 |-> {s}]
    <3>1. \A i \in 0 .. 0 : i = 0
      OBVIOUS
    <3>2. Nears(f, s, g, l, 0 .. 0)
      BY <3>1, Zenon DEF Nears
    <3> QED
      BY <3>2
  <2> QED
    BY <1>3, <2>1
<1>5. k - 1 \in Nat /\ k - 1 < k
  BY <1>3, <1>4
<1>6. PICK f : Nears(f, s, g, l, 0 .. k - 1)
  <2>1. ~(k <= k - 1)
    BY <1>5
  <2>2. k - 1 \notin Bad
    BY <1>2, <2>1
  <2>3. Can(k - 1)
    BY <1>5, <2>2
  <2> QED
    BY <2>3
<1> DEFINE h == [i \in 0 .. k |-> IF i = 0 THEN {s} ELSE Further(f[i - 1], g, l)]
<1>7. ASSUME NEW i \in 0 .. k - 1 PROVE h[i] = f[i]
  <2>1. f[i] = IF i = 0 THEN {s} ELSE Further(f[i - 1], g, l)
    BY <1>6, Zenon DEF Nears
  <2>2. i \in 0 .. k
    BY <1>5
  <2>3. h[i] = IF i = 0 THEN {s} ELSE Further(f[i - 1], g, l)
    BY <2>2, Zenon
  <2> QED
    BY <2>1, <2>3, Zenon
<1>8. ASSUME NEW i \in 0 .. k, i # 0 PROVE f[i - 1] = h[i - 1]
  <2>1. i - 1 \in 0 .. k - 1
    BY <1>3, <1>8
  <2> QED
    BY <1>7, <2>1, Zenon
<1>9. \A i \in 0 .. k : (IF i = 0 THEN {s} ELSE Further(f[i - 1], g, l)) =
                        (IF i = 0 THEN {s} ELSE Further(h[i - 1], g, l))
  BY <1>8, Zenon
<1>10. h = [i \in 0 .. k |-> IF i = 0 THEN {s} ELSE Further(h[i - 1], g, l)]
  BY <1>9, Zenon
<1>11. Nears(h, s, g, l, 0 .. k)
  <2> HIDE DEF h
  <2> QED
    BY <1>10, Zenon DEF Nears
<1> QED
  BY <1>3, <1>11

\* And one only.
LEMMA NearsAgree ==
    ASSUME NEW s, NEW g, NEW l, NEW n \in Nat, NEW m \in Nat, n <= m,
           NEW f, NEW h, Nears(f, s, g, l, 0 .. n), Nears(h, s, g, l, 0 .. m)
    PROVE  Alike(f, h, n)
<1> DEFINE Bad == {i \in 0 .. n : f[i] # h[i]}
<1>1. SUFFICES ASSUME Bad # {} PROVE FALSE
  BY DEF Alike
<1>2. PICK k \in Bad : \A i \in Bad : k <= i
  <2>1. Bad \in SUBSET Nat
    OBVIOUS
  <2> HIDE DEF Bad
  <2> QED
    BY <1>1, <2>1, LeastNat
<1>3. k \in 0 .. n /\ k \in 0 .. m /\ f[k] # h[k]
  <2>1. k \in 0 .. n /\ f[k] # h[k]
    OBVIOUS
  <2>2. k \in 0 .. m
    BY <2>1
  <2> QED
    BY <2>1, <2>2
<1>4. /\ f[k] = IF k = 0 THEN {s} ELSE Further(f[k - 1], g, l)
      /\ h[k] = IF k = 0 THEN {s} ELSE Further(h[k - 1], g, l)
  BY <1>3, Zenon DEF Nears
<1>5. k # 0
  BY <1>3, <1>4, Zenon
<1>6. k - 1 \in 0 .. n /\ ~(k <= k - 1)
  BY <1>3, <1>5
<1>7. f[k - 1] = h[k - 1]
  BY <1>2, <1>6
<1> QED
  BY <1>3, <1>4, <1>5, <1>7, Zenon

WithinOf(s, g, l) == CHOOSE f : Nears(f, s, g, l, Nat)

\* Hence one for all distances, which Within is.
LEMMA WithinIs ==
    ASSUME NEW s, NEW g, NEW l
    PROVE  /\ WithinOf(s, g, l)[0] = {s}
           /\ \A n \in Nat : WithinOf(s, g, l)[n + 1] = Further(WithinOf(s, g, l)[n], g, l)
<1> DEFINE F(n) == CHOOSE f : Nears(f, s, g, l, 0 .. n)
           G == [n \in Nat |-> F(n)[n]]
           w == WithinOf(s, g, l)
<1>1. ASSUME NEW n \in Nat PROVE Nears(F(n), s, g, l, 0 .. n)
  BY NearsExist, Zenon
<1>2. ASSUME NEW n \in Nat PROVE F(n)[n] = IF n = 0 THEN {s} ELSE Further(F(n)[n - 1], g, l)
  <2>1. Nears(F(n), s, g, l, 0 .. n) /\ n \in 0 .. n
    BY <1>1
  <2> HIDE DEF F
  <2> QED
    BY <2>1, Zenon DEF Nears
<1>3. ASSUME NEW n \in Nat, n # 0 PROVE n - 1 \in Nat /\ F(n)[n - 1] = F(n - 1)[n - 1]
  <2>1. PICK m \in Nat : m = n - 1 /\ m <= n /\ m \in 0 .. m
    BY <1>3
  <2>2. Nears(F(m), s, g, l, 0 .. m) /\ Nears(F(n), s, g, l, 0 .. n)
    BY <1>1
  <2> HIDE DEF F
  <2>3. Alike(F(m), F(n), m)
    BY <2>1, <2>2, NearsAgree
  <2>4. F(m)[m] = F(n)[m]
    BY <2>1, <2>3, Zenon DEF Alike
  <2> QED
    BY <2>1, <2>4
<1>4. ASSUME NEW n \in Nat PROVE F(n)[n] = IF n = 0 THEN {s} ELSE Further(G[n - 1], g, l)
  <2> HIDE DEF F
  <2>1. CASE n = 0
    BY <1>2, <2>1, Zenon
  <2>2. CASE n # 0
    <3>1. n - 1 \in Nat /\ F(n)[n - 1] = F(n - 1)[n - 1]
      BY <1>3, <2>2, Zenon
    <3>2. G[n - 1] = F(n - 1)[n - 1]
      BY <3>1, Zenon
    <3>3. F(n)[n] = Further(F(n)[n - 1], g, l)
      BY <1>2, <2>2, Zenon
    <3> HIDE DEF G
    <3> QED
      BY <2>2, <3>1, <3>2, <3>3, Zenon
  <2> QED
    BY <2>1, <2>2, Zenon
<1>5. G = [n \in Nat |-> IF n = 0 THEN {s} ELSE Further(G[n - 1], g, l)]
  <2> HIDE DEF F
  <2> QED
    BY <1>4, Zenon
<1>6. Nears(G, s, g, l, Nat)
  <2> HIDE DEF G
  <2> QED
    BY <1>5, Zenon DEF Nears
<1>7. Nears(w, s, g, l, Nat)
  <2> HIDE DEF G
  <2> QED
    BY <1>6, Zenon DEF WithinOf
<1> HIDE DEF w
<1>8. \A n \in Nat : w[n] = IF n = 0 THEN {s} ELSE Further(w[n - 1], g, l)
  BY <1>7, Zenon DEF Nears
<1>9. 0 \in Nat /\ \A n \in Nat : n + 1 \in Nat /\ n + 1 # 0 /\ (n + 1) - 1 = n
  OBVIOUS
<1>10. w[0] = {s} /\ \A n \in Nat : w[n + 1] = Further(w[n], g, l)
  BY <1>8, <1>9, Zenon
<1> QED
  BY <1>10 DEF w

\* The levels of a walk: each contains the one before, and one more level is one
\* reference more.
Grows(W, s, g, l) ==
    /\ \A n \in Nat : s \in W[n]
    /\ \A n \in Nat : W[n + 1] = Further(W[n], g, l)
    /\ \A m, n \in Nat : m <= n => W[m] \subseteq W[n]
    /\ W[0] = {s}

LEMMA WithinGrows ==
    ASSUME NEW s, NEW g, NEW l
    PROVE  Grows(WithinOf(s, g, l), s, g, l)
<1> DEFINE w == WithinOf(s, g, l)
<1>1. w[0] = {s} /\ \A n \in Nat : w[n + 1] = Further(w[n], g, l)
  BY WithinIs
<1> HIDE DEF w
<1>2. \A n \in Nat : w[n] \subseteq w[n + 1]
  BY <1>1, Zenon DEF Further
<1>3. ASSUME NEW m \in Nat, NEW n \in Nat, m <= n PROVE w[m] \subseteq w[n]
  <2> DEFINE Bad == {k \in Nat : m <= k /\ ~(w[m] \subseteq w[k])}
  <2>1. SUFFICES ASSUME Bad # {} PROVE FALSE
    BY <1>3
  <2>2. PICK k \in Bad : \A i \in Bad : k <= i
    <3>1. Bad \in SUBSET Nat
      OBVIOUS
    <3> HIDE DEF Bad
    <3> QED
      BY <2>1, <3>1, LeastNat
  <2>3. k \in Nat /\ m <= k /\ ~(w[m] \subseteq w[k])
    OBVIOUS
  <2>4. k # m
    BY <2>3
  <2>5. PICK j \in Nat : k = j + 1 /\ m <= j /\ ~(k <= j)
    <3>1. k - 1 \in Nat /\ k = (k - 1) + 1 /\ m <= k - 1 /\ ~(k <= k - 1)
      BY <2>3, <2>4
    <3> QED
      BY <3>1
  <2>6. w[m] \subseteq w[j]
    BY <2>2, <2>5
  <2> QED
    BY <1>2, <2>3, <2>5, <2>6, Zenon
<1>4. ASSUME NEW n \in Nat PROVE s \in w[n]
  <2>1. 0 \in Nat /\ 0 <= n
    OBVIOUS
  <2>2. w[0] \subseteq w[n]
    BY <1>3, <2>1, Zenon
  <2> QED
    BY <1>1, <2>2, Zenon
<1> QED
  BY <1>1, <1>3, <1>4, Zenon DEF Grows, w

\* They are Within of the component.
LEMMA WithinIsWithin == Within = WithinOf(start, refs, loaded)
BY Zenon DEF Within, WithinOf, Nears, Further

-----------------------------------------------------------------------------
(* The order of the messages.  W[n] stands for what is at most n references *)
(* from the root, Within of the component.                                 *)

\* A walk that has visited v goes level by level,
ByLevels(W, v) == \A n \in Nat : v \subseteq W[n] \/ W[n] \subseteq v

\* what waits in the queue q and is not visited does so behind nothing that is further
\* away, or else has been put there twice,
QueuedByLevels(W, v, q) ==
    \A n \in Nat : \A p \in 1 .. Len(q) : \A x \in Elements(q) \cap W[n] :
        q[p] \notin W[n] /\ x \notin v => \E k \in 1 .. p - 1 : q[k] = x

\* what is ahead of it, S, is no further than the next level,
NextLevel(W, v, S) == \A n \in Nat : v \subseteq W[n] => S \subseteq W[n + 1]

\* and the messages f found are in that order.
FoundByLevels(W, f) ==
    \A n \in Nat : \A i, j \in 1 .. Len(f) : i < j /\ f[j] \in W[n] => f[i] \in W[n]

\* The node h is being expanded: nothing visited is further, and of all other nodes the
\* references have been looked at.
Expanding(W, v, h, S, g, l) ==
    /\ h \in v
    /\ \A n \in Nat : h \in W[n] => v \subseteq W[n]
    /\ \A b \in v \cap Chain(l) : b = h \/ Elements(g[b]) \subseteq S

WalkInOrder(W, v, q, S, f) ==
    ByLevels(W, v) /\ QueuedByLevels(W, v, q) /\ NextLevel(W, v, S) /\ FoundByLevels(W, f)

InOrder ==
    /\ pc \in {"pop", "push"} =>
         WalkInOrder(Within, visited, queue, Elements(queue) \cup Elements(pending), found)
    /\ pc = "push" =>
         \E h : Expanding(Within, visited, h, visited \cup Elements(queue), refs, loaded)
    /\ pc # "done" => result = <<>>
    /\ OldestFirst

\* Taking the head, which is visited then if it was not, leaves the queue in order.
LEMMA QueueTail ==
    ASSUME NEW W, NEW v, NEW u, v \subseteq u, NEW q \in Seq(Blobs), q # <<>>,
           QueuedByLevels(W, v, q), Head(q) \in u
    PROVE  QueuedByLevels(W, u, Tail(q))
<1>1. /\ Len(q) \in Nat \ {0} /\ Len(Tail(q)) = Len(q) - 1 /\ q[1] = Head(q)
      /\ \A i \in 1 .. Len(q) - 1 : Tail(q)[i] = q[i + 1]
  OBVIOUS
<1>2. SUFFICES ASSUME NEW n \in Nat, NEW p \in 1 .. Len(Tail(q)),
                      NEW x \in Elements(Tail(q)) \cap W[n], Tail(q)[p] \notin W[n], x \notin u
               PROVE  \E k \in 1 .. p - 1 : Tail(q)[k] = x
  BY DEF QueuedByLevels
<1>3. x \in Elements(q) \cap W[n]
  BY TailElements
<1>4. p + 1 \in 1 .. Len(q) /\ q[p + 1] \notin W[n]
  BY <1>1, <1>2
<1>5. PICK k \in 1 .. (p + 1) - 1 : q[k] = x
  BY <1>2, <1>3, <1>4, Zenon DEF QueuedByLevels
<1>6. k # 1
  BY <1>1, <1>2, <1>5
<1>7. k - 1 \in 1 .. p - 1 /\ k - 1 \in 1 .. Len(q) - 1 /\ (k - 1) + 1 = k
  BY <1>1, <1>6
<1>8. Tail(q)[k - 1] = x
  BY <1>1, <1>5, <1>7
<1> QED
  BY <1>7, <1>8

\* So does putting in what is further than nothing in it, or is in it.
LEMMA QueueEnd ==
    ASSUME NEW W, NEW v, NEW q \in Seq(Blobs), NEW r \in Blobs, QueuedByLevels(W, v, q),
           \A n \in Nat : r \in W[n] /\ r \notin Elements(q) => Elements(q) \subseteq W[n]
    PROVE  QueuedByLevels(W, v, Append(q, r))
<1> DEFINE a == Append(q, r)
<1>1. /\ Len(q) \in Nat /\ Len(a) = Len(q) + 1 /\ a[Len(q) + 1] = r
      /\ \A i \in 1 .. Len(q) : a[i] = q[i]
  OBVIOUS
<1>2. Elements(a) = Elements(q) \cup {r}
  BY AppendElements
<1> HIDE DEF a
<1>3. ASSUME NEW n \in Nat, NEW p \in 1 .. Len(a),
             NEW x \in Elements(a) \cap W[n], a[p] \notin W[n], x \notin v
      PROVE  \E k \in 1 .. p - 1 : a[k] = x
  <2>1. x \in W[n] /\ (x = r \/ x \in Elements(q))
    BY <1>2
  <2>2. x \in Elements(q)
    <3>1. SUFFICES ASSUME x = r, x \notin Elements(q) PROVE FALSE
      BY <2>1
    <3>2. Elements(q) \subseteq W[n]
      BY <2>1, <3>1, Zenon
    <3>3. p # Len(q) + 1
      BY <1>1, <1>3, <2>1, <3>1
    <3>4. p \in 1 .. Len(q)
      BY <1>1, <3>3
    <3>5. a[p] \in Elements(q)
      BY <1>1, <3>4 DEF Elements
    <3> QED
      BY <1>3, <3>2, <3>5, Zenon
  <2>3. CASE p \in 1 .. Len(q)
    <3>1. q[p] \notin W[n]
      BY <1>1, <1>3, <2>3
    <3>2. PICK k \in 1 .. p - 1 : q[k] = x
      BY <1>3, <2>1, <2>2, <2>3, <3>1, Zenon DEF QueuedByLevels
    <3>3. k \in 1 .. Len(q)
      BY <1>1, <2>3
    <3>4. a[k] = x
      BY <1>1, <3>2, <3>3
    <3> QED
      BY <3>4
  <2>4. CASE p \notin 1 .. Len(q)
    <3>1. PICK k \in 1 .. Len(q) : q[k] = x
      BY <2>2 DEF Elements
    <3>2. k \in 1 .. p - 1
      BY <1>1, <2>4
    <3>3. a[k] = x
      BY <1>1, <3>1
    <3> QED
      BY <3>2, <3>3
  <2> QED
    BY <2>3, <2>4
<1>4. QueuedByLevels(W, v, a)
  <2> SUFFICES ASSUME NEW n \in Nat, NEW p \in 1 .. Len(a),
                      NEW x \in Elements(a) \cap W[n], a[p] \notin W[n], x \notin v
               PROVE  \E k \in 1 .. p - 1 : a[k] = x
    BY DEF QueuedByLevels
  <2> QED
    BY <1>3, Zenon
<1> QED
  BY <1>4 DEF a

\* What the node h refers to is not nearer than what waits, unless it waits itself: its
\* level is that of h or the next, and what else refers to the level of h has been
\* looked at.
LEMMA PushIsNext ==
    ASSUME NEW W, NEW s, NEW g, NEW l, Grows(W, s, g, l), NEW v, NEW Q, NEW h,
           ByLevels(W, v), NextLevel(W, v, Q),
           Expanding(W, v, h, v \cup Q, g, l),
           NEW r, r \notin v, NEW n \in Nat, r \in W[n], r \notin Q
    PROVE  Q \subseteq W[n]
<1>1. v \subseteq W[n]
  BY Zenon DEF ByLevels
<1>2. n # 0
  <2>1. SUFFICES ASSUME n = 0 PROVE FALSE
    OBVIOUS
  <2>2. W[0] = {s} /\ h \in v
    BY Zenon DEF Grows, Expanding
  <2> QED
    BY <1>1, <2>1, <2>2
<1>3. PICK m \in Nat : n = m + 1
  <2>1. n - 1 \in Nat /\ n = (n - 1) + 1
    BY <1>2
  <2> QED
    BY <2>1
<1>4. W[n] = Further(W[m], g, l)
  BY <1>3, Zenon DEF Grows
<1>5. CASE v \subseteq W[m]
  BY <1>3, <1>5, Zenon DEF NextLevel
<1>6. CASE ~(v \subseteq W[m])
  <2>1. W[m] \subseteq v
    BY <1>6, Zenon DEF ByLevels
  <2>2. h \notin W[m]
    BY <1>6, Zenon DEF Expanding
  <2>3. PICK b \in W[m] \cap Chain(l) : r \in Elements(g[b])
    BY <1>4, <2>1 DEF Further
  <2>4. Elements(g[b]) \subseteq v \cup Q
    BY <2>1, <2>2, Zenon DEF Expanding
  <2> QED
    BY <2>3, <2>4
<1> QED
  BY <1>5, <1>6

\* Nothing visited in the graph g refers to what is neither visited nor waits in S.
Explored(v, S, g, l) == \A b \in v \cap Chain(l) : Elements(g[b]) \subseteq v \cup S

\* When what waits is further than a level, the level has been visited.
LEMMA LevelIsDone ==
    ASSUME NEW W, NEW s, NEW g, NEW l, Grows(W, s, g, l), NEW v, NEW S,
           s \in v \cup S, Explored(v, S, g, l),
           NEW n \in Nat, S \cap W[n] \subseteq v
    PROVE  W[n] \subseteq v
<1> DEFINE Bad == {m \in Nat : m <= n /\ ~(W[m] \subseteq v)}
<1>1. SUFFICES ASSUME Bad # {} PROVE FALSE
  <2>1. n <= n
    OBVIOUS
  <2> QED
    BY <2>1
<1>2. PICK k \in Bad : \A i \in Bad : k <= i
  <2>1. Bad \in SUBSET Nat
    OBVIOUS
  <2> HIDE DEF Bad
  <2> QED
    BY <1>1, <2>1, LeastNat
<1>3. k \in Nat /\ k <= n /\ ~(W[k] \subseteq v)
  OBVIOUS
<1>4. W[k] \subseteq W[n]
  BY <1>3, Zenon DEF Grows
<1>5. k # 0
  <2>1. SUFFICES ASSUME k = 0 PROVE FALSE
    OBVIOUS
  <2>2. W[0] = {s} /\ s \in W[n]
    BY Zenon DEF Grows
  <2> QED
    BY <1>3, <2>1, <2>2
<1>6. PICK m \in Nat : k = m + 1 /\ m <= n /\ ~(k <= m)
  <2>1. k - 1 \in Nat /\ k = (k - 1) + 1 /\ k - 1 <= n /\ ~(k <= k - 1)
    BY <1>3, <1>5
  <2> QED
    BY <2>1
<1>7. W[m] \subseteq v
  BY <1>2, <1>6
<1>8. W[k] = Further(W[m], g, l)
  BY <1>6, Zenon DEF Grows
<1>9. PICK x \in W[k] : x \notin v
  BY <1>3
<1>10. PICK b \in W[m] \cap Chain(l) : x \in Elements(g[b])
  BY <1>7, <1>8, <1>9 DEF Further
<1>11. x \in v \cup S
  BY <1>7, <1>10 DEF Explored
<1> QED
  BY <1>4, <1>9, <1>11

-----------------------------------------------------------------------------
(* The order is kept.                                                      *)

\* Within after a step.
LEMMA WithinLater == Within' = WithinOf(start', refs', loaded')
BY Zenon DEF Within, WithinOf, Nears, Further, Chain, Elements

LEMMA WithinStays ==
    ASSUME start' = start, refs' = refs, loaded' = loaded
    PROVE  Within' = Within
BY WithinIsWithin, WithinLater, Zenon

LEMMA InOrderInit == Init => InOrder
<1> SUFFICES ASSUME Init PROVE InOrder
  OBVIOUS
<1>1. pc = "idle" /\ result = <<>>
  BY DEF Init
<1> QED
  BY <1>1 DEF InOrder, OldestFirst

\* A walk begins in order.
LEMMA LoadInOrder ==
    ASSUME Traversal, InOrder, LoadBlobs
    PROVE  InOrder'
<1>1. /\ pc = "load" /\ pc' = "pop" /\ result' = result /\ queue' = <<start>> /\ start' = start
      /\ visited' = {} /\ pending' = <<>> /\ found' = <<>>
  BY DEF LoadBlobs, Traversal
<1>2. result' = <<>>
  BY <1>1 DEF InOrder
<1>3. PICK W : W = Within'
  OBVIOUS
<1>4. Grows(W, start', refs', loaded')
  BY <1>3, WithinGrows, WithinLater, Zenon
<1>5. \A n \in Nat : start \in W[n]
  BY <1>1, <1>4, Zenon DEF Grows
<1>6. ByLevels(W, visited')
  BY <1>1 DEF ByLevels
<1>7. QueuedByLevels(W, visited', queue')
  <2>1. \A p \in 1 .. Len(queue') : queue'[p] = start
    BY <1>1
  <2> QED
    BY <1>5, <2>1, Zenon DEF QueuedByLevels
<1>8. NextLevel(W, visited', Elements(queue') \cup Elements(pending'))
  <2>1. Elements(queue') \cup Elements(pending') = {start}
    BY <1>1, SmallElements
  <2>2. \A n \in Nat : n + 1 \in Nat
    OBVIOUS
  <2>3. \A n \in Nat : {start} \subseteq W[n + 1]
    BY <1>5, <2>2, Zenon
  <2> QED
    BY <2>1, <2>3, Zenon DEF NextLevel
<1>9. FoundByLevels(W, found')
  <2>1. 1 .. Len(found') = {}
    BY <1>1
  <2> QED
    BY <2>1, Zenon DEF FoundByLevels
<1>10. WalkInOrder(W, visited', queue', Elements(queue') \cup Elements(pending'), found')
  BY <1>6, <1>7, <1>8, <1>9, Zenon DEF WalkInOrder
<1>11. OldestFirst'
  BY <1>2 DEF OldestFirst
<1>12. (Elements(queue) \cup Elements(pending))' = Elements(queue') \cup Elements(pending')
  BY DEF Elements
<1>13. WalkInOrder(Within, visited, queue, Elements(queue) \cup Elements(pending), found)'
  BY <1>3, <1>10, <1>12 DEF WalkInOrder
<1> QED
  BY <1>1, <1>2, <1>11, <1>13 DEF InOrder

\* Skipping what was visited.
LEMMA SkipInOrder ==
    ASSUME Traversal, InOrder, Skip
    PROVE  InOrder'
<1>1. /\ pc = "pop" /\ pc' = "pop" /\ queue # <<>> /\ Head(queue) \in visited
      /\ queue' = Tail(queue) /\ queue \in Seq(Blobs)
      /\ start' = start /\ refs' = refs
      /\ UNCHANGED <<loaded, pending, visited, found, result>>
  BY DEF Skip, Traversal, TypeOK, session
<1>2. Within' = Within
  BY <1>1, WithinStays
<1>3. PICK W : W = Within
  OBVIOUS
<1>4. WalkInOrder(W, visited, queue, Elements(queue) \cup Elements(pending), found)
  BY <1>1, <1>3 DEF InOrder
<1>5. Elements(queue') \cup Elements(pending') \subseteq Elements(queue) \cup Elements(pending)
  BY <1>1, TailElements
<1>6. QueuedByLevels(W, visited, queue')
  BY <1>1, <1>4, QueueTail DEF WalkInOrder
<1>7. NextLevel(W, visited, Elements(queue') \cup Elements(pending'))
  BY <1>4, <1>5, Zenon DEF WalkInOrder, NextLevel
<1>8. WalkInOrder(W, visited, queue', Elements(queue') \cup Elements(pending'), found)
  BY <1>4, <1>6, <1>7, Zenon DEF WalkInOrder
<1>9. (Elements(queue) \cup Elements(pending))' = Elements(queue') \cup Elements(pending')
  BY DEF Elements
<1>10. WalkInOrder(Within, visited, queue, Elements(queue) \cup Elements(pending), found)'
  BY <1>1, <1>2, <1>3, <1>8, <1>9 DEF WalkInOrder
<1>11. result' = <<>> /\ OldestFirst'
  BY <1>1 DEF InOrder, OldestFirst
<1> QED
  BY <1>1, <1>10, <1>11 DEF InOrder

\* Visiting: what waits first is no further than what waits, so the levels below its own
\* have been visited.
LEMMA VisitInOrder ==
    ASSUME Traversal, InOrder, NEW b \in Blobs, Visit(b)
    PROVE  InOrder'
<1>1. /\ pc = "pop" /\ pc' = "push" /\ queue # <<>> /\ Head(queue) = b /\ b \notin visited
      /\ queue' = Tail(queue) /\ visited' = visited \cup {b}
      /\ found' = IF b \in loaded \cap Messages THEN Append(found, b) ELSE found
      /\ pending' = IF b \in Chain(loaded) THEN refs[b] ELSE <<>>
      /\ start' = start /\ refs' = refs /\ loaded' = loaded /\ result' = result
  BY DEF Visit, session
<1>2. /\ queue \in Seq(Blobs) /\ found \in Seq(Messages)
      /\ start \in visited \cup Elements(queue) /\ pending = <<>>
      /\ Explored(visited, Elements(queue), refs, loaded)
      /\ Elements(found) \subseteq visited
  <2>1. pending = <<>> /\ Elements(pending) = {}
    BY <1>1, SmallElements DEF Traversal, Walking
  <2>2. Ahead = visited \cup Elements(queue)
    BY <2>1 DEF Ahead
  <2> QED
    BY <1>1, <2>1, <2>2 DEF Traversal, TypeOK, Walking, Explored
<1>3. PICK W : W = Within
  OBVIOUS
<1>4. Within' = W
  BY <1>1, <1>3, WithinStays
<1>5. Grows(W, start, refs, loaded)
  BY <1>3, WithinGrows, WithinIsWithin, Zenon
<1>6. /\ ByLevels(W, visited) /\ QueuedByLevels(W, visited, queue)
      /\ NextLevel(W, visited, Elements(queue)) /\ FoundByLevels(W, found)
  <2>1. Elements(queue) \cup Elements(pending) = Elements(queue)
    BY <1>2, SmallElements
  <2>2. WalkInOrder(W, visited, queue, Elements(queue) \cup Elements(pending), found)
    BY <1>1, <1>3 DEF InOrder
  <2> QED
    BY <2>1, <2>2, Zenon DEF WalkInOrder
<1>7. Elements(queue) = {b} \cup Elements(Tail(queue))
  BY <1>1, <1>2, TailElements
<1>8. ASSUME NEW n \in Nat, b \notin W[n] PROVE W[n] \subseteq visited
  <2>1. Len(queue) \in Nat /\ 1 \in 1 .. Len(queue) /\ queue[1] = b /\ 1 .. 1 - 1 = {}
    BY <1>1, <1>2
  <2>2. \A x \in Elements(queue) \cap W[n] : x \in visited
    BY <1>6, <1>8, <2>1, Zenon DEF QueuedByLevels
  <2>3. Elements(queue) \cap W[n] \subseteq visited
    BY <2>2
  <2> QED
    BY <1>2, <1>5, <2>3, LevelIsDone
<1>9. ASSUME NEW n \in Nat, b \in W[n] PROVE visited \subseteq W[n]
  BY <1>1, <1>6, <1>9, Zenon DEF ByLevels
<1>10. ByLevels(W, visited')
  BY <1>1, <1>8, <1>9 DEF ByLevels
<1>11. QueuedByLevels(W, visited', queue')
  <2>1. visited \subseteq visited' /\ Head(queue) \in visited'
    BY <1>1
  <2> QED
    BY <1>1, <1>2, <1>6, <2>1, QueueTail
<1>12. NextLevel(W, visited', Elements(queue') \cup Elements(pending'))
  <2> SUFFICES ASSUME NEW n \in Nat, visited' \subseteq W[n],
                      NEW x \in Elements(queue') \cup Elements(pending')
               PROVE  x \in W[n + 1]
    BY DEF NextLevel
  <2>1. CASE x \in Elements(queue')
    <3>1. visited \subseteq W[n] /\ x \in Elements(queue)
      BY <1>1, <1>7, <2>1
    <3> QED
      BY <1>6, <3>1, Zenon DEF NextLevel
  <2>2. CASE x \in Elements(pending')
    <3>1. b \in W[n] \cap Chain(loaded) /\ x \in Elements(refs[b])
      BY <1>1, <2>2, SmallElements
    <3>2. x \in Further(W[n], refs, loaded)
      BY <3>1 DEF Further
    <3> QED
      BY <1>5, <3>2, Zenon DEF Grows
  <2> QED
    BY <2>1, <2>2
<1>13. FoundByLevels(W, found')
  <2>1. CASE b \in loaded \cap Messages
    <3>1. /\ found' = Append(found, b) /\ Len(found) \in Nat /\ Len(found') = Len(found) + 1
          /\ found'[Len(found) + 1] = b /\ \A i \in 1 .. Len(found) : found'[i] = found[i]
      BY <1>1, <1>2, <2>1
    <3> SUFFICES ASSUME NEW n \in Nat, NEW i \in 1 .. Len(found'), NEW j \in 1 .. Len(found'),
                        i < j, found'[j] \in W[n]
                 PROVE  found'[i] \in W[n]
      BY DEF FoundByLevels
    <3>2. i \in 1 .. Len(found) /\ found'[i] = found[i]
      BY <3>1
    <3>3. CASE j \in 1 .. Len(found)
      <4>1. found[j] \in W[n]
        BY <3>1, <3>3
      <4>2. found[i] \in W[n]
        BY <1>6, <3>2, <3>3, <4>1, Zenon DEF FoundByLevels
      <4> QED
        BY <3>2, <4>2
    <3>4. CASE j \notin 1 .. Len(found)
      <4>1. j = Len(found) + 1
        BY <3>1, <3>4
      <4>2. b \in W[n]
        BY <3>1, <4>1
      <4>3. found[i] \in visited
        BY <1>2, <3>2 DEF Elements
      <4> QED
        BY <1>9, <3>2, <4>2, <4>3
    <3> QED
      BY <3>3, <3>4
  <2>2. CASE b \notin loaded \cap Messages
    BY <1>1, <1>6, <2>2
  <2> QED
    BY <2>1, <2>2
<1>14. Expanding(W, visited', b, visited' \cup Elements(queue'), refs, loaded)
  <2>1. b \in visited' /\ \A n \in Nat : b \in W[n] => visited' \subseteq W[n]
    BY <1>1, <1>9
  <2>2. visited' \cup Elements(queue') = visited \cup Elements(queue)
    BY <1>1, <1>7
  <2>3. \A c \in visited' \cap Chain(loaded) :
          c = b \/ Elements(refs[c]) \subseteq visited' \cup Elements(queue')
    BY <1>1, <1>2, <2>2 DEF Explored
  <2> QED
    BY <2>1, <2>3, Zenon DEF Expanding
<1>15. WalkInOrder(W, visited', queue', Elements(queue') \cup Elements(pending'), found')
  BY <1>10, <1>11, <1>12, <1>13, Zenon DEF WalkInOrder
<1>16. /\ (Elements(queue) \cup Elements(pending))' = Elements(queue') \cup Elements(pending')
       /\ (visited \cup Elements(queue))' = visited' \cup Elements(queue')
  BY DEF Elements
<1>17. WalkInOrder(Within, visited, queue, Elements(queue) \cup Elements(pending), found)'
  BY <1>4, <1>15, <1>16 DEF WalkInOrder
<1>18. (\E h : Expanding(Within, visited, h, visited \cup Elements(queue), refs, loaded))'
  BY <1>1, <1>4, <1>14, <1>16 DEF Expanding
<1>19. result' = <<>> /\ OldestFirst'
  BY <1>1 DEF InOrder, OldestFirst
<1> QED
  BY <1>1, <1>17, <1>18, <1>19 DEF InOrder

\* Putting a reference behind what waits.
LEMMA PushInOrder ==
    ASSUME Traversal, InOrder, Push
    PROVE  InOrder'
<1> DEFINE r == Head(pending)
<1>1. /\ pc = "push" /\ pc' = "push" /\ pending # <<>> /\ pending' = Tail(pending)
      /\ queue' = IF r \in visited THEN queue ELSE Append(queue, r)
      /\ start' = start /\ refs' = refs /\ loaded' = loaded /\ result' = result
      /\ UNCHANGED <<visited, found>>
  BY DEF Push, session
<1>2. queue \in Seq(Blobs) /\ pending \in Seq(Blobs)
  BY DEF Traversal, TypeOK
<1>3. r \in Blobs /\ Elements(pending) = {r} \cup Elements(pending')
  BY <1>1, <1>2, TailElements
<1> HIDE DEF r
<1>4. PICK W : W = Within
  OBVIOUS
<1>5. Within' = W
  BY <1>1, <1>4, WithinStays
<1>6. Grows(W, start, refs, loaded)
  BY <1>4, WithinGrows, WithinIsWithin, Zenon
<1> DEFINE S == Elements(queue) \cup Elements(pending)
<1>7. /\ ByLevels(W, visited) /\ QueuedByLevels(W, visited, queue)
      /\ NextLevel(W, visited, S) /\ FoundByLevels(W, found)
  BY <1>1, <1>4, Zenon DEF InOrder, WalkInOrder
<1>8. PICK h : Expanding(W, visited, h, visited \cup Elements(queue), refs, loaded)
  BY <1>1, <1>4, Zenon DEF InOrder
<1>9. /\ Elements(queue) \subseteq Elements(queue')
      /\ Elements(queue') \cup Elements(pending') \subseteq S
  BY <1>1, <1>2, <1>3, AppendElements
<1>10. QueuedByLevels(W, visited, queue')
  <2>1. CASE r \in visited
    BY <1>1, <1>7, <2>1
  <2>2. CASE r \notin visited
    <3>1. ASSUME NEW n \in Nat, r \in W[n], r \notin Elements(queue) PROVE Elements(queue) \subseteq W[n]
      <4>1. NextLevel(W, visited, Elements(queue))
        BY <1>7 DEF NextLevel
      <4>2. ByLevels(W, visited)
        BY <1>7
      <4> QED
        BY <1>6, <1>8, <2>2, <3>1, <4>1, <4>2, PushIsNext
    <3>2. QueuedByLevels(W, visited, Append(queue, r))
      BY <1>2, <1>3, <1>7, <3>1, QueueEnd, Zenon
    <3> QED
      BY <1>1, <2>2, <3>2
  <2> QED
    BY <2>1, <2>2
<1>11. NextLevel(W, visited, Elements(queue') \cup Elements(pending'))
  <2> HIDE DEF S
  <2> QED
    BY <1>7, <1>9, Zenon DEF NextLevel
<1>12. Expanding(W, visited, h, visited \cup Elements(queue'), refs, loaded)
  BY <1>8, <1>9, Zenon DEF Expanding
<1>13. WalkInOrder(W, visited, queue', Elements(queue') \cup Elements(pending'), found)
  BY <1>7, <1>10, <1>11, Zenon DEF WalkInOrder
<1>14. /\ (Elements(queue) \cup Elements(pending))' = Elements(queue') \cup Elements(pending')
       /\ (visited \cup Elements(queue))' = visited \cup Elements(queue')
  BY <1>1 DEF Elements
<1>15. WalkInOrder(Within, visited, queue, Elements(queue) \cup Elements(pending), found)'
  BY <1>1, <1>5, <1>13, <1>14 DEF WalkInOrder
<1>16. (\E g : Expanding(Within, visited, g, visited \cup Elements(queue), refs, loaded))'
  BY <1>1, <1>5, <1>12, <1>14 DEF Expanding
<1>17. result' = <<>> /\ OldestFirst'
  BY <1>1 DEF InOrder, OldestFirst
<1> QED
  BY <1>1, <1>15, <1>16, <1>17 DEF InOrder

\* What was found nearest to the root comes last.
LEMMA FinishInOrder ==
    ASSUME Traversal, InOrder, Finish
    PROVE  InOrder'
<1>1. /\ pc = "pop" /\ pc' = "done" /\ result' = Reversed(found)
      /\ start' = start /\ refs' = refs /\ loaded' = loaded
  BY DEF Finish, session
<1>2. PICK W : W = Within
  OBVIOUS
<1>3. Within' = W
  BY <1>1, <1>2, WithinStays
<1>4. FoundByLevels(W, found)
  BY <1>1, <1>2, Zenon DEF InOrder, WalkInOrder
<1>5. found \in Seq(Messages) /\ Len(found) \in Nat
  BY DEF Traversal, TypeOK
<1>6. /\ Len(result') = Len(found)
      /\ \A i \in 1 .. Len(found) : result'[i] = found[Len(found) + 1 - i]
  BY <1>1, <1>5, ReversedElements
<1>7. \A n \in 0 .. Cardinality(Blobs) : n \in Nat
  OBVIOUS
<1>8. ASSUME NEW i \in 1 .. Len(found), NEW j \in 1 .. Len(found), NEW n \in Nat,
             i < j, result'[i] \in W[n]
      PROVE  result'[j] \in W[n]
  <2>1. PICK k \in 1 .. Len(found), m \in 1 .. Len(found) :
          k = Len(found) + 1 - i /\ m = Len(found) + 1 - j /\ m < k
    BY <1>5, <1>8
  <2>2. result'[i] = found[k] /\ result'[j] = found[m]
    BY <1>6, <2>1
  <2> QED
    BY <1>4, <1>8, <2>1, <2>2, Zenon DEF FoundByLevels
<1>9. OldestFirst'
  BY <1>3, <1>6, <1>7, <1>8 DEF OldestFirst
<1> QED
  BY <1>1, <1>9 DEF InOrder

\* Every step of the reader and of the agent keeps the order.
LEMMA InOrderStep == Traversal /\ InOrder /\ [Next]_vars => InOrder'
<1> SUFFICES ASSUME Traversal, InOrder, [Next]_vars PROVE InOrder'
  OBVIOUS
<1>1. CASE ReadMeta
  <2>1. pc = "idle" /\ pc' \in {"done", "load"} /\ result' = result
    BY <1>1 DEF ReadMeta
  <2>2. result' = <<>>
    BY <2>1 DEF InOrder
  <2> QED
    BY <2>1, <2>2 DEF InOrder, OldestFirst
<1>2. CASE LoadBlobs
  BY <1>2, LoadInOrder
<1>3. CASE Skip
  BY <1>3, SkipInOrder
<1>4. CASE \E b \in Blobs : Visit(b)
  BY <1>4, VisitInOrder
<1>5. CASE Push
  BY <1>5, PushInOrder
<1>6. CASE Pushed
  <2>1. /\ pc = "push" /\ pc' = "pop" /\ start' = start /\ refs' = refs
        /\ UNCHANGED <<loaded, queue, pending, visited, found, result>>
    BY <1>6 DEF Pushed, session
  <2>2. Within' = Within
    BY <2>1, WithinStays
  <2>3. /\ WalkInOrder(Within, visited, queue, Elements(queue) \cup Elements(pending), found)
        /\ result = <<>>
    BY <2>1 DEF InOrder
  <2>4. (Elements(queue) \cup Elements(pending))' = Elements(queue) \cup Elements(pending)
    BY <2>1 DEF Elements
  <2>5. WalkInOrder(Within, visited, queue, Elements(queue) \cup Elements(pending), found)'
    BY <2>1, <2>2, <2>3, <2>4 DEF WalkInOrder
  <2> QED
    BY <2>1, <2>3, <2>5 DEF InOrder, OldestFirst
<1>7. CASE Finish
  BY <1>7, FinishInOrder
<1>8. CASE Return
  BY <1>8 DEF Return, InOrder, OldestFirst
<1>9. CASE AgentWrites \/ UNCHANGED vars
  <2>1. refs' = refs /\ UNCHANGED reader
    BY <1>9 DEF AgentWrites, vars, session
  <2>2. Within' = Within
    BY <2>1, WithinStays DEF reader
  <2>3. /\ (Elements(queue) \cup Elements(pending))' = Elements(queue) \cup Elements(pending)
        /\ (visited \cup Elements(queue))' = visited \cup Elements(queue)
    BY <2>1 DEF reader, Elements
  <2>4. pc' = pc /\ result' = result /\ visited' = visited /\ queue' = queue /\ found' = found
        /\ loaded' = loaded
    BY <2>1 DEF reader
  <2>5. WalkInOrder(Within, visited, queue, Elements(queue) \cup Elements(pending), found)' =
        WalkInOrder(Within, visited, queue, Elements(queue) \cup Elements(pending), found)
    BY <2>2, <2>3, <2>4 DEF WalkInOrder
  <2>6. (\E h : Expanding(Within, visited, h, visited \cup Elements(queue), refs, loaded))' =
        (\E h : Expanding(Within, visited, h, visited \cup Elements(queue), refs, loaded))
    BY <2>1, <2>2, <2>3, <2>4 DEF Expanding
  <2>7. OldestFirst' = OldestFirst
    BY <2>2, <2>4 DEF OldestFirst
  <2> QED
    BY <2>4, <2>5, <2>6, <2>7 DEF InOrder
<1> QED
  BY <1>1, <1>2, <1>3, <1>4, <1>5, <1>6, <1>7, <1>8, <1>9 DEF Next, Read

\* traverse_blobs returns a session in conversation order, whatever its graph and
\* whichever way round a node names its message and the next node: what is further down
\* the chain never comes after what is nearer to the root.
THEOREM MessagesAreOldestFirst == Spec => []OldestFirst
<1>1. InOrder => OldestFirst
  BY DEF InOrder
<1>2. Init => Traversal /\ InOrder
  BY TraversalInit, InOrderInit
<1>3. Traversal /\ InOrder /\ [Next]_vars => (Traversal /\ InOrder)'
  BY TraversalStep, InOrderStep
<1> QED
  BY <1>1, <1>2, <1>3, PTL DEF Spec
===============================================================================
