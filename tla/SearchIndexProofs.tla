-------------------------- MODULE SearchIndexProofs --------------------------
(* Theorems about services/search_index.py, see SearchIndex. *)
EXTENDS SearchIndex, TLAPS

USE SearchIndexAssumption

\* TypeOK is not inductive by itself: a build that publishes names its file.
LEMMA TypedHolds == Spec => []Typed
<1>1. Init => Typed
  BY DEF Init, Typed, TypeOK, Building, Version, Index, Blank, NoRows, Steps
<1>2. Typed /\ [Next]_vars => Typed'
  <2> SUFFICES ASSUME Typed, [Next]_vars PROVE Typed'
    OBVIOUS
  <2> USE DEF Typed, TypeOK, Goto, Building
  <2>1. ASSUME NEW p \in Procs, Wake(p) PROVE Typed'
    BY <2>1 DEF Wake, Steps
  <2>2. ASSUME NEW p \in Procs, Ensure(p) PROVE Typed'
    BY <2>2 DEF Ensure, Steps, worker
  <2>3. ASSUME NEW p \in Procs, Stamp(p) PROVE Typed'
    BY <2>3 DEF Stamp, Steps
  <2>4. ASSUME NEW p \in Procs, Recheck(p) PROVE Typed'
    BY <2>4 DEF Recheck, Steps, worker
  <2>5. ASSUME NEW p \in Procs, Create(p) PROVE Typed'
    <3>1. PICK f \in Files :
            /\ mine' = [mine EXCEPT ![p] = f]
            /\ exists' = exists \cup {f}
            /\ content' = [content EXCEPT ![f] = Blank]
      BY <2>5 DEF Create
    <3>2. Blank \in Index
      BY DEF Blank, Index, Version
    <3>. QED
      BY <2>5, <3>1, <3>2 DEF Create, Steps
  <2>6. ASSUME NEW p \in Procs, ReadComposers(p) PROVE Typed'
    BY <2>6 DEF ReadComposers, Steps
  <2>7. ASSUME NEW p \in Procs, ReadBubbles(p) PROVE Typed'
    BY <2>7 DEF ReadBubbles, Steps
  <2>8. ASSUME NEW p \in Procs, Commit(p) PROVE Typed'
    <3>1. [done |-> TRUE, fp |-> fp[p], composers |-> rows[p].composers,
           bubbles |-> rows[p].bubbles] \in Index
      BY DEF Index
    <3>. QED
      BY <2>8, <3>1 DEF Commit, Steps, worker
  <2>9. ASSUME NEW p \in Procs, Publish(p) \/ PublishRewrites(p) PROVE Typed'
    <3>1. mine[p] \in Files /\ exists \ {mine[p]} \in SUBSET (Files \cup {Legacy})
      BY <2>9 DEF Publish, PublishRewrites
    <3>2. Swing(p) /\ pc' = [pc EXCEPT ![p] = "prune"]
      BY <2>9 DEF Publish, PublishRewrites
    <3>3. pointer' \in Files /\ stale' \in [Procs -> SUBSET (Files \cup {Legacy})]
      BY <3>1, <3>2 DEF Swing
    <3>. QED
      BY <3>2, <3>3 DEF Swing, Steps
  <2>10. ASSUME NEW p \in Procs, PublishTruncates(p) PROVE Typed'
    BY <2>10 DEF PublishTruncates, Steps, worker
  <2>11. ASSUME NEW p \in Procs, NEW f \in Files \cup {Legacy},
                Prune(p, f) \/ PruneRefused(p, f)
         PROVE Typed'
    BY <2>11 DEF Prune, PruneRefused
  <2>12. ASSUME NEW p \in Procs, Pruned(p) PROVE Typed'
    BY <2>12 DEF Pruned, Steps, NoRows, Version
  <2>13. ASSUME NEW p \in Procs, BuildFails(p)
         PROVE Typed'
    <3>1. Abandon(p) /\ faults' \in 0 .. MaxFaults
      BY <2>13 DEF BuildFails, Unlinked
    <3>2. NoRows \in [composers : Version, bubbles : Version]
      BY DEF NoRows, Version
    <3>. QED
      BY <3>1, <3>2 DEF Abandon, Steps
  <2>14. ASSUME NEW p \in Procs, Crash(p) PROVE Typed'
    BY <2>14 DEF Crash, Steps, NoRows, Version
  <2>15. CASE CursorWrites
    BY <2>15 DEF CursorWrites, worker, Version
  <2>16. CASE UNCHANGED vars
    BY <2>16 DEF vars, worker
  <2>. QED
    BY <2>1, <2>2, <2>3, <2>4, <2>5, <2>6, <2>7, <2>8, <2>9, <2>10, <2>11, <2>12,
       <2>13, <2>14, <2>15, <2>16 DEF Next, Refresh
<1>. QED
  BY <1>1, <1>2, PTL DEF Spec

\* The states of the refresh threads and of the index files are well formed.
THEOREM IndexTypeCorrect == Spec => []TypeOK
<1>1. Typed => TypeOK
  BY DEF Typed
<1>. QED
  BY TypedHolds, <1>1, PTL

-----------------------------------------------------------------------------
(* What is stored was read no earlier than its fingerprint was stamped.    *)

\* Every refresh thread begins with no work, and no index is committed.
LEMMA OrderedInit == Init => Ordered
BY DEF Init, Ordered, Typed, TypeOK, Version, Index, Blank, NoRows, Steps,
       Building, IndexOrdered, BuildOrdered

\* Stamps, reads and commits keep the order of their times.
LEMMA OrderedStep == Ordered /\ Typed' /\ [Next]_vars => Ordered'
<1> SUFFICES ASSUME Ordered, Typed', [Next]_vars
             PROVE  (\A f \in Files : IndexOrdered(f)') /\ (\A q \in Procs : BuildOrdered(q)')
  BY DEF Ordered
<1> USE DEF Ordered, Typed, TypeOK, IndexOrdered, BuildOrdered, Building, Goto, Version, Index
<1>1. ASSUME NEW p \in Procs, Wake(p) \/ Stamp(p) PROVE Ordered'
  BY <1>1 DEF Wake, Stamp
<1>2. ASSUME NEW p \in Procs, Ensure(p) \/ Recheck(p) PROVE Ordered'
  BY <1>2 DEF Ensure, Recheck, worker
<1>3. ASSUME NEW p \in Procs, Create(p) PROVE Ordered'
  BY <1>3 DEF Create, Blank
<1>4. ASSUME NEW p \in Procs, ReadComposers(p) PROVE Ordered'
  BY <1>4 DEF ReadComposers
<1>5. ASSUME NEW p \in Procs, ReadBubbles(p) PROVE Ordered'
  BY <1>5 DEF ReadBubbles
<1>6. ASSUME NEW p \in Procs, Commit(p) PROVE Ordered'
  <2>1. mine[p] \in Files /\ fp[p] \in Version /\ rows[p] \in [composers : Version, bubbles : Version]
    BY <1>6 DEF Commit
  <2>2. content' = [content EXCEPT ![mine[p]] =
          [done |-> TRUE, fp |-> fp[p],
           composers |-> rows[p].composers, bubbles |-> rows[p].bubbles]]
    BY <1>6 DEF Commit
  <2>3. pc[p] = "commit" /\ pc' = [pc EXCEPT ![p] = "publish"]
        /\ UNCHANGED <<version, fp, mine, rows>>
    BY <1>6 DEF Commit, worker
  <2>4. ASSUME NEW f \in Files PROVE IndexOrdered(f)'
    <3>1. CASE f = mine[p]
      BY <2>1, <2>2, <2>3, <3>1
    <3>2. CASE f # mine[p]
      BY <2>1, <2>2, <2>3, <3>2
    <3>. QED
      BY <3>1, <3>2
  <2>5. ASSUME NEW q \in Procs PROVE BuildOrdered(q)'
    BY <2>3
  <2>. QED
    BY <2>4, <2>5
<1>7. ASSUME NEW p \in Procs, Publish(p) \/ PublishRewrites(p) PROVE Ordered'
  <2>1. /\ pc[p] \in {"publish", "truncated"} /\ pc' = [pc EXCEPT ![p] = "prune"]
        /\ UNCHANGED <<version, content, fp, mine, rows>>
    BY <1>7 DEF Publish, PublishRewrites, Swing
  <2>2. ASSUME NEW q \in Procs PROVE BuildOrdered(q)'
    BY <2>1
  <2>. QED
    BY <2>1, <2>2
<1>8. ASSUME NEW p \in Procs, PublishTruncates(p) PROVE Ordered'
  BY <1>8 DEF PublishTruncates, worker
<1>9. ASSUME NEW p \in Procs, NEW f \in Files \cup {Legacy},
             Prune(p, f) \/ PruneRefused(p, f)
      PROVE Ordered'
  BY <1>9 DEF Prune, PruneRefused
<1>10. ASSUME NEW p \in Procs, Pruned(p) PROVE Ordered'
  BY <1>10 DEF Pruned
<1>11. ASSUME NEW p \in Procs, BuildFails(p) PROVE Ordered'
  <2>1. Abandon(p)
    BY <1>11 DEF BuildFails
  <2>2. ASSUME NEW q \in Procs PROVE BuildOrdered(q)'
    BY <2>1 DEF Abandon
  <2>. QED
    BY <2>1, <2>2 DEF Abandon
<1>12. ASSUME NEW p \in Procs, Crash(p) PROVE Ordered'
  BY <1>12 DEF Crash
<1>13. CASE CursorWrites
  BY <1>13 DEF CursorWrites, worker
<1>14. CASE UNCHANGED vars
  BY <1>14 DEF vars, worker
<1>. QED
  BY <1>1, <1>2, <1>3, <1>4, <1>5, <1>6, <1>7, <1>8, <1>9, <1>10, <1>11, <1>12,
     <1>13, <1>14 DEF Next, Refresh

\* However many processes build, crash and prune at once, stored rows are no
\* older than the fingerprint they are stored under.
THEOREM IndexStaysOrdered == Spec => []Ordered
BY OrderedInit, OrderedStep, TypedHolds, PTL DEF Spec

\* An index that index_is_usable accepts has the rows of the present storage
\* (build_search_index stamps before it reads), for any number of processes.
THEOREM UsableIndexIsFaithful == Spec => []CurrentIsFaithful
<1>1. Ordered => CurrentIsFaithful
  <2> SUFFICES ASSUME Ordered, NEW f \in Files, Current(f, version)
               PROVE  content[f].composers = version /\ content[f].bubbles = version
    BY DEF CurrentIsFaithful
  <2>1. content[f] \in Index /\ version \in Nat /\ IndexOrdered(f) /\ content[f].fp = version
    BY DEF Ordered, Typed, TypeOK, Current, Version
  <2>. QED
    BY <2>1 DEF IndexOrdered, Current, Index, Version
<1>. QED
  BY IndexStaysOrdered, <1>1, PTL

-----------------------------------------------------------------------------
(* One process on the cache directory.                                     *)

\* At the start nothing is published.
LEMMA OwnerInit == Init => Owner
BY OrderedInit DEF Init, Owner, ActiveIsComplete, Owned, Building

\* The thread that is the only one removes no file but those it superseded.
LEMMA OwnerStep == SingleProcess /\ Owner /\ Ordered' /\ [Next]_vars => Owner'
<1> SUFFICES ASSUME SingleProcess, Owner, Ordered', [Next]_vars PROVE Owner'
  OBVIOUS
<1> USE DEF Goto, Building
<1>0. /\ TypeOK /\ \A q \in Procs : BuildOrdered(q) /\ Owned(q)
      /\ \A q \in Procs : pc[q] \in Building => mine[q] \in Files
      /\ ActiveIsComplete
      /\ pointer # None => content[pointer].fp <= version
  BY DEF Owner, Ordered, Typed
<1>n. None \notin Files
  BY SearchIndexAssumption
<1>1. ASSUME NEW p \in Procs, Wake(p) \/ Stamp(p) PROVE Owner'
  BY <1>0, <1>n, <1>1 DEF Wake, Stamp, SingleProcess, Owner, Owned, ActiveIsComplete, TypeOK
<1>2. ASSUME NEW p \in Procs, Ensure(p) \/ Recheck(p) PROVE Owner'
  BY <1>0, <1>2 DEF Ensure, Recheck, worker, SingleProcess, Owner, Owned, ActiveIsComplete, TypeOK
<1>3. ASSUME NEW p \in Procs, Create(p) PROVE Owner'
  BY <1>0, <1>n, <1>3 DEF Create, Fresh, SingleProcess, Owner, Owned, ActiveIsComplete, TypeOK
<1>4. ASSUME NEW p \in Procs, ReadComposers(p) \/ ReadBubbles(p) PROVE Owner'
  BY <1>0, <1>4 DEF ReadComposers, ReadBubbles, SingleProcess, Owner, Owned, ActiveIsComplete, TypeOK
<1>5. ASSUME NEW p \in Procs, Commit(p) PROVE Owner'
  BY <1>0, <1>n, <1>5 DEF Commit, worker, SingleProcess, Owner, Owned, ActiveIsComplete, TypeOK
<1>6. ASSUME NEW p \in Procs, Publish(p) \/ PublishRewrites(p) PROVE Owner'
  BY <1>0, <1>n, <1>6 DEF Publish, PublishRewrites, Swing, SingleProcess, Owner, Owned,
     ActiveIsComplete, TypeOK, BuildOrdered
<1>7. ASSUME NEW p \in Procs, PublishTruncates(p) PROVE Owner'
  BY <1>0, <1>n, <1>7 DEF PublishTruncates, worker, SingleProcess, Owner, Owned, ActiveIsComplete, TypeOK
<1>8. ASSUME NEW p \in Procs, NEW f \in Files \cup {Legacy},
             Prune(p, f) \/ PruneRefused(p, f)
      PROVE Owner'
  BY <1>0, <1>8 DEF Prune, PruneRefused, SingleProcess, Owner, Owned, ActiveIsComplete, TypeOK
<1>9. ASSUME NEW p \in Procs, Pruned(p) PROVE Owner'
  BY <1>0, <1>9 DEF Pruned, SingleProcess, Owner, Owned, ActiveIsComplete, TypeOK
<1>10. ASSUME NEW p \in Procs, BuildFails(p) PROVE Owner'
  <2>1. Abandon(p)
    BY <1>10 DEF BuildFails
  <2>. QED
    BY <1>0, <2>1 DEF Abandon, SingleProcess, Owner, Owned, ActiveIsComplete, TypeOK
<1>11. ASSUME NEW p \in Procs, Crash(p) PROVE Owner'
  BY <1>0, <1>11 DEF Crash, SingleProcess, Owner, Owned, ActiveIsComplete, TypeOK
<1>12. CASE CursorWrites
  BY <1>0, <1>12 DEF CursorWrites, worker, Owner, Owned, ActiveIsComplete, TypeOK, Version, Index
<1>13. CASE UNCHANGED vars
  BY <1>0, <1>13 DEF vars, worker, Owner, Owned, ActiveIsComplete
<1>. QED
  BY <1>1, <1>2, <1>3, <1>4, <1>5, <1>6, <1>7, <1>8, <1>9, <1>10, <1>11, <1>12,
     <1>13 DEF Next, Refresh

\* While one process has the cache directory to itself, the published index
\* and the one being built are never pruned.
LEMMA OwnerHolds == ASSUME SingleProcess PROVE Spec => []Owner
<1>1. Owner /\ Ordered' /\ [Next]_vars => Owner'
  BY SingleProcess, OwnerStep
<1>. QED
  BY OwnerInit, <1>1, IndexStaysOrdered, PTL DEF Spec

\* In a server of one process the pointer file always names an index that is
\* there and complete, whatever crashed, failed or could not be removed.
THEOREM ActiveStaysComplete ==
  ASSUME SingleProcess PROVE Spec => []ActiveIsComplete
<1>1. Owner => ActiveIsComplete
  BY DEF Owner
<1>. QED
  BY OwnerHolds, <1>1, SingleProcess, PTL

\* In a server of one process no search is sent back to an index of older
\* storage than one already published.
THEOREM NeverRegresses == ASSUME SingleProcess PROVE Spec => NoRegress
<1>1. ASSUME Owner, [Next]_vars, pointer' # pointer, pointer # None, pointer' # None
      PROVE  content[pointer].fp <= content'[pointer'].fp
  <2>1. PICK p \in Procs : Publish(p) \/ PublishRewrites(p)
    BY <1>1 DEF Next, Refresh, vars, worker, Wake, Ensure, Stamp, Recheck, Create,
       ReadComposers, ReadBubbles, Commit, PublishTruncates, Prune, PruneRefused,
       Pruned, BuildFails, Abandon, Crash, CursorWrites
  <2>2. pointer' = mine[p] /\ content' = content /\ pc[p] \in {"publish", "truncated"}
    BY <2>1 DEF Publish, PublishRewrites, Swing, Goto
  <2>3. Owned(p)
    BY <1>1 DEF Owner
  <2>. QED
    BY <1>1, <2>2, <2>3 DEF Owned, Building
<1>2. Owner /\ [Next]_vars =>
        [pointer # None /\ pointer' # None =>
           content[pointer].fp <= content'[pointer'].fp]_pointer
  BY <1>1
<1>. QED
  BY OwnerHolds, SingleProcess, <1>2, PTL DEF Spec, NoRegress
=============================================================================
