-------------------------- MODULE IndexedSearchProofs --------------------------
(* Theorems about a search through the index, see IndexedSearch. *)
EXTENDS IndexedSearch, SearchIndexProofs

USE SearchIndexAssumption, IndexedSearchAssumption

\* The search leaves the index alone: beside it the refresh threads do what
\* they do in SearchIndex.
LEMMA SearchRefines == SearchSpec => Spec
<1>1. SearchInit => Init
  BY DEF SearchInit
<1>2. [SearchNext]_allVars => [Next]_vars
  BY DEF SearchNext, RefreshStep, allVars
<1>. QED
  BY <1>1, <1>2, PTL DEF SearchSpec, Spec

-----------------------------------------------------------------------------
(* Types.                                                                  *)

LEMMA ActiveType == ASSUME TypeOK PROVE Active \in Files \cup {Legacy, None}
BY DEF TypeOK, Active

\* What the search reads of one conversation.
LEMMA StoryType ==
    ASSUME SearchTypeOK, NEW v \in Version, NEW c \in Chats
    PROVE  story[v][c] \in Chat
BY DEF SearchTypeOK

LEMMA SearchTypeStep ==
    ASSUME Typed, SearchTypeOK, SearchStep PROVE SearchTypeOK'
<1> USE DEF SearchTypeOK, Typed, TypeOK, Move, found, Places
<1>0. NoRow \in [Chats -> {"gone", "plain", "match"}] /\ 0 \in Version
  BY DEF NoRow, Version
<1>1. CASE Begin
  BY <1>1 DEF Begin
<1>2. CASE StampStorage
  BY <1>2 DEF StampStorage
<1>3. ASSUME NEW q \in Places, NEW opening \in Places, Resolve(q, opening) PROVE SearchTypeOK'
  BY <1>3, ActiveType DEF Resolve
<1>4. CASE CheckUsable
  BY <1>4 DEF CheckUsable
<1>5. ASSUME NEW from \in Places, NEW to \in Places, LoadHeaders(from, to) PROVE SearchTypeOK'
  BY <1>5 DEF LoadHeaders
<1>6. CASE QueryWindow
  <2>1. Opened => Composers \in Version
    BY DEF Opened, Composers, Index
  <2>2. window' \in [Chats -> {"gone", "plain", "match"}]
    BY <1>0, <1>6, <2>1, StoryType DEF QueryWindow, Chat
  <2>. QED
    BY <1>6, <2>2 DEF QueryWindow
<1>7. CASE QueryHits
  BY <1>7 DEF QueryHits
<1>8. CASE QueryTitles
  BY <1>8 DEF QueryTitles
<1>9. CASE QueryBodies
  BY <1>9 DEF QueryBodies, Answers
<1>10. CASE LiveRows
  <2>1. window' \in [Chats -> {"gone", "plain", "match"}]
    BY <1>10, StoryType DEF LiveRows, Chat
  <2>. QED
    BY <1>10, <2>1 DEF LiveRows
<1>11. CASE LiveHits
  BY <1>11 DEF LiveHits
<1>12. ASSUME NEW c \in Chats, LiveCheck(c) PROVE SearchTypeOK'
  BY <1>12 DEF LiveCheck
<1>13. CASE LiveDone \/ IndexedSearchFails \/ LiveFails
  BY <1>13 DEF LiveDone, IndexedSearchFails, LiveFails
<1>14. CASE Finish
  BY <1>0, <1>14 DEF Finish
<1>. QED
  BY <1>1, <1>2, <1>3, <1>4, <1>5, <1>6, <1>7, <1>8, <1>9, <1>10, <1>11, <1>12, <1>13, <1>14
  DEF SearchStep

\* The search and what it found are well formed at every step.
THEOREM SearchTypeCorrect == SearchSpec => []SearchTypeOK
<1>1. SearchInit => SearchTypeOK
  <2>1. 0 \in Version /\ NoRow \in [Chats -> {"gone", "plain", "match"}]
    BY DEF Version, NoRow
  <2>. QED
    BY <2>1 DEF SearchInit, SearchTypeOK, Places
<1>2. Typed /\ SearchTypeOK /\ [SearchNext]_allVars => SearchTypeOK'
  <2> SUFFICES ASSUME Typed, SearchTypeOK, [SearchNext]_allVars PROVE SearchTypeOK'
    OBVIOUS
  <2>1. CASE SearchStep
    BY <2>1, SearchTypeStep
  <2>2. CASE UNCHANGED search
    BY <2>2 DEF search, found, SearchTypeOK
  <2>. QED
    BY <2>1, <2>2 DEF SearchNext, RefreshStep, allVars
<1>. QED
  BY <1>1, <1>2, SearchRefines, TypedHolds, PTL DEF SearchSpec

-----------------------------------------------------------------------------
(* The published index, beyond SearchIndexProofs.                          *)

\* A build is begun only over an index that is not current, so that it replaces
\* one of strictly older storage.
LEMMA BuildIsNewerStep ==
    SingleProcess /\ Owner /\ BuildIsNewer /\ [Next]_vars => BuildIsNewer'
<1> SUFFICES ASSUME SingleProcess, Owner, BuildIsNewer, [Next]_vars,
                    NEW p \in Procs, pointer' # None, pc'[p] \in Building \cup {"create"}
             PROVE  content'[pointer'].fp < fp'[p]
  BY DEF BuildIsNewer
<1>1. /\ TypeOK /\ Owned(p) /\ ActiveIsComplete /\ \A q \in Procs : q = p
      /\ pc[p] \in Building => mine[p] \in Files
      /\ pointer # None /\ pc[p] \in Building \cup {"create"} => content[pointer].fp < fp[p]
  BY DEF Owner, Ordered, Typed, SingleProcess, BuildIsNewer
<1> USE DEF Building, Goto
<1>2. CASE UNCHANGED <<content, pointer, fp>> /\ pc[p] \in Building \cup {"create"}
  BY <1>1, <1>2
<1>3. CASE Wake(p) \/ Ensure(p) \/ Stamp(p) \/ Publish(p) \/ PublishRewrites(p)
           \/ Pruned(p) \/ BuildFails(p) \/ Crash(p)
  BY <1>1, <1>3 DEF Wake, Ensure, Stamp, Publish, PublishRewrites, Swing, Pruned, BuildFails,
    Abandon, Crash, TypeOK
<1>4. CASE Recheck(p)
  <2>1. pc[p] = "recheck" /\ ~Current(Active, fp[p]) /\ UNCHANGED <<content, pointer, fp>>
    BY <1>1, <1>4 DEF Recheck, worker, TypeOK
  <2>2. pointer \in exists /\ content[pointer].done /\ Active = pointer /\ pointer \in Files
    BY <1>1, <2>1 DEF ActiveIsComplete, Active, TypeOK
  <2>3. content[pointer].fp <= fp[p]
    BY <1>1, <2>1 DEF Owned
  <2>4. content[pointer].fp \in Int /\ fp[p] \in Int /\ content[pointer].fp # fp[p]
    BY <1>1, <2>1, <2>2 DEF TypeOK, Index, Version, Current
  <2>5. content[pointer].fp < fp[p]
    <3>1. \A a, b \in Int : a <= b /\ a # b => a < b
      OBVIOUS
    <3>. QED
      BY <2>3, <2>4, <3>1
  <2>. QED
    BY <2>1, <2>5
<1>5. CASE Create(p)
  <2>1. PICK f \in Files : Fresh(f) /\ content' = [content EXCEPT ![f] = Blank]
    BY <1>5 DEF Create
  <2>2. pc[p] = "create" /\ UNCHANGED <<pointer, fp>>
    BY <1>5 DEF Create
  <2>3. content'[pointer] = content[pointer]
    BY <1>1, <2>1, <2>2 DEF Fresh, TypeOK
  <2>. QED
    BY <1>1, <2>2, <2>3
<1>6. CASE ReadComposers(p) \/ ReadBubbles(p)
  BY <1>2, <1>6 DEF ReadComposers, ReadBubbles
<1>7. CASE Commit(p)
  <2>1. mine[p] # pointer /\ pc[p] = "commit" /\ UNCHANGED <<pointer, fp>>
    BY <1>1, <1>7 DEF Commit, worker, Owned
  <2>2. content'[pointer] = content[pointer]
    BY <1>1, <1>7, <2>1 DEF Commit, TypeOK
  <2>. QED
    BY <1>1, <2>1, <2>2
<1>8. CASE PublishTruncates(p)
  BY <1>8 DEF PublishTruncates
<1>9. ASSUME NEW f \in Files \cup {Legacy}, Prune(p, f) \/ PruneRefused(p, f)
      PROVE  content'[pointer'].fp < fp'[p]
  BY <1>9 DEF Prune, PruneRefused
<1>10. CASE CursorWrites \/ UNCHANGED vars
  BY <1>1, <1>10 DEF CursorWrites, vars, worker
<1>. QED
  BY <1>1, <1>3, <1>4, <1>5, <1>6, <1>7, <1>8, <1>9, <1>10 DEF Next, Refresh

LEMMA BuildIsNewerHolds == ASSUME SingleProcess PROVE Spec => []BuildIsNewer
<1>1. Init => BuildIsNewer
  BY DEF Init, BuildIsNewer
<1>2. Owner /\ BuildIsNewer /\ [Next]_vars => BuildIsNewer'
  BY SingleProcess, BuildIsNewerStep
<1>. QED
  BY <1>1, <1>2, SingleProcess, OwnerHolds, PTL DEF Spec

\* An index that is current stays active and as it is while the storage rests.
LEMMA CurrentStays ==
    ASSUME SingleProcess, Owner, BuildIsNewer, [Next]_vars, version' = version,
           pointer # None, content[pointer].fp = version
    PROVE  pointer' = pointer /\ content'[pointer] = content[pointer]
<1>1. /\ TypeOK /\ \A q \in Procs : Owned(q) /\ fp[q] <= version /\ fp[q] \in Int
      /\ \A q \in Procs : pc[q] \in Building => mine[q] \in Files
  BY DEF Owner, Ordered, Typed, TypeOK, BuildOrdered, Version
<1>2. \A q \in Procs : pc[q] \notin Building \cup {"create"}
  BY <1>1 DEF BuildIsNewer, TypeOK, Version
<1>3. ASSUME NEW q \in Procs, Refresh(q) \/ BuildFails(q) \/ Crash(q)
      PROVE  UNCHANGED <<pointer, content>>
  BY <1>2, <1>3 DEF Refresh, Wake, Ensure, Stamp, Recheck, Create, ReadComposers, ReadBubbles,
    Commit, Publish, PublishTruncates, PublishRewrites, Prune, Pruned, BuildFails, Abandon,
    Crash, Goto, Building
<1>4. ASSUME NEW q \in Procs, NEW f \in Files \cup {Legacy}, PruneRefused(q, f)
      PROVE  UNCHANGED <<pointer, content>>
  BY <1>4 DEF PruneRefused
<1>. QED
  BY <1>3, <1>4 DEF Next, CursorWrites, vars

\* With no faults, the first publication leads to the legacy index being pruned.
LEMMA LegacyLeavesStep ==
    SingleProcess /\ (Windows => MaxFaults = 0) /\ Owner /\ LegacyLeaves /\ [Next]_vars
        => LegacyLeaves'
<1> SUFFICES ASSUME SingleProcess, MaxFaults = 0, Owner, LegacyLeaves, [Next]_vars,
                    Windows, pointer' # None, Legacy \in exists'
             PROVE  \E p \in Procs : pc'[p] = "prune" /\ Legacy \in stale'[p]
  BY DEF LegacyLeaves
<1>1. /\ TypeOK /\ \A p, q \in Procs : p = q
      /\ \A p \in Procs : Owned(p) /\ (pc[p] \in Building => mine[p] \in Files)
      /\ pointer # None /\ Legacy \in exists =>
           \E p \in Procs : pc[p] = "prune" /\ Legacy \in stale[p]
  BY DEF Owner, Ordered, Typed, SingleProcess, LegacyLeaves
<1>2. faults = 0
  BY <1>1 DEF TypeOK
<1>3. ASSUME NEW p \in Procs, Publish(p) \/ PublishRewrites(p)
      PROVE  pc'[p] = "prune" /\ Legacy \in stale'[p]
  BY <1>1, <1>3 DEF Publish, PublishRewrites, Swing, Goto, TypeOK, Building
<1>4. ASSUME NEW p \in Procs, Prune(p, Legacy) PROVE FALSE
  BY <1>4 DEF Prune
<1>5. ASSUME NEW p \in Procs, NEW f \in Files, Prune(p, f)
      PROVE  \E q \in Procs : pc'[q] = "prune" /\ Legacy \in stale'[q]
  BY <1>1, <1>5 DEF Prune, TypeOK
<1>6. ASSUME NEW p \in Procs, Pruned(p) PROVE FALSE
  BY <1>1, <1>6 DEF Pruned, Goto
<1>7. ASSUME NEW p \in Procs, PublishTruncates(p) PROVE FALSE
  BY <1>7 DEF PublishTruncates
<1>8. ASSUME NEW p \in Procs, BuildFails(p) \/ Crash(p) PROVE FALSE
  BY <1>1, <1>2, <1>8 DEF BuildFails, Unlinked, Abandon, Crash, Owned
<1>9. ASSUME NEW p \in Procs, NEW f \in Files \cup {Legacy}, PruneRefused(p, f) PROVE FALSE
  BY <1>2, <1>9 DEF PruneRefused
<1>10. ASSUME NEW p \in Procs,
              \/ Wake(p) \/ Ensure(p) \/ Stamp(p) \/ Recheck(p) \/ Create(p)
              \/ ReadComposers(p) \/ ReadBubbles(p) \/ Commit(p)
       PROVE  FALSE
  <2>1. pointer' = pointer /\ Legacy \in exists /\ pc[p] # "prune"
    BY <1>10 DEF Wake, Ensure, Stamp, Recheck, Create, ReadComposers, ReadBubbles, Commit, Goto
  <2>. QED
    BY <1>1, <2>1
<1>11. CASE CursorWrites \/ UNCHANGED vars
  BY <1>1, <1>11 DEF CursorWrites, vars, worker
<1>. QED
  BY <1>3, <1>4, <1>5, <1>6, <1>7, <1>8, <1>9, <1>10, <1>11 DEF Next, Refresh

LEMMA LegacyLeavesHolds ==
    ASSUME SingleProcess, Windows => MaxFaults = 0 PROVE Spec => []LegacyLeaves
<1>1. Init => LegacyLeaves
  BY DEF Init, LegacyLeaves
<1>2. Owner /\ LegacyLeaves /\ [Next]_vars => LegacyLeaves'
  BY SingleProcess, LegacyLeavesStep
<1>. QED
  BY <1>1, <1>2, SingleProcess, OwnerHolds, PTL DEF Spec

\* Once nothing older than b is in use, nothing older will be.
LEMMA NoneOlderStays ==
    ASSUME SingleProcess, Owner, LegacyLeaves, [Next]_vars,
           NEW b \in Version, b <= version, NoneOlder(b)
    PROVE  NoneOlder(b)'
<1>1. /\ TypeOK /\ \A p, q \in Procs : p = q
      /\ \A p \in Procs : Owned(p) /\ (pc[p] \in Building => mine[p] \in Files)
  BY DEF Owner, Ordered, Typed, SingleProcess
<1> USE <1>1 DEF Building, Goto, TypeOK, NoneOlder, Version, Index
<1>2. ASSUME NEW p \in Procs, Wake(p) \/ Stamp(p) PROVE NoneOlder(b)'
  BY <1>2 DEF Wake, Stamp
<1>3. ASSUME NEW p \in Procs, Ensure(p) \/ Recheck(p) \/ ReadComposers(p) \/ ReadBubbles(p)
      PROVE  NoneOlder(b)'
  BY <1>3 DEF Ensure, Recheck, ReadComposers, ReadBubbles, worker
<1>4. ASSUME NEW p \in Procs, Create(p) PROVE NoneOlder(b)'
  BY <1>4 DEF Create, Fresh
<1>5. ASSUME NEW p \in Procs, Commit(p) PROVE NoneOlder(b)'
  BY <1>5 DEF Commit, worker, Owned
<1>6. ASSUME NEW p \in Procs, Publish(p) \/ PublishRewrites(p) PROVE NoneOlder(b)'
  <2>1. /\ pc[p] \in {"publish", "truncated"} /\ pointer' = mine[p] /\ content' = content
        /\ mine[p] \in Files
    BY <1>6 DEF Publish, PublishRewrites, Swing
  <2>2. content[mine[p]].fp = fp[p] /\ (pointer # None => content[pointer].fp <= fp[p])
    BY <2>1 DEF Owned
  <2>3. fp[p] >= b
    BY <2>1, <2>2
  <2>. QED
    BY <2>1, <2>2, <2>3
<1>7. ASSUME NEW p \in Procs, PublishTruncates(p) PROVE NoneOlder(b)'
  <2>1. /\ pc[p] = "publish" /\ pointer' = None /\ Windows /\ UNCHANGED <<exists, fp>>
    BY <1>7 DEF PublishTruncates, worker
  <2>2. Legacy \notin exists
    BY <2>1 DEF LegacyLeaves
  <2>3. fp[p] >= b
    BY <2>1 DEF Owned
  <2>. QED
    BY <2>1, <2>2, <2>3
<1>8. ASSUME NEW p \in Procs, NEW f \in Files \cup {Legacy}, Prune(p, f) \/ PruneRefused(p, f)
      PROVE  NoneOlder(b)'
  BY <1>8 DEF Prune, PruneRefused
<1>9. ASSUME NEW p \in Procs, Pruned(p) \/ BuildFails(p) \/ Crash(p) PROVE NoneOlder(b)'
  BY <1>9 DEF Pruned, BuildFails, Abandon, Crash
<1>10. CASE CursorWrites \/ UNCHANGED vars
  BY <1>10 DEF CursorWrites, vars, worker
<1>. QED
  BY <1>2, <1>3, <1>4, <1>5, <1>6, <1>7, <1>8, <1>9, <1>10 DEF Next, Refresh

-----------------------------------------------------------------------------
(* The index file a search has resolved, and when it began.                *)

\* Cursor only writes forwards.
LEMMA VersionGrows ==
    ASSUME Typed, [Next]_vars
    PROVE  \/ version' = version
           \/ version' = version + 1 /\ UNCHANGED <<exists, content, pointer, pc, mine>>
BY DEF Next, Refresh, Wake, Ensure, Stamp, Recheck, Create, ReadComposers, ReadBubbles, Commit,
  Publish, PublishTruncates, PublishRewrites, Swing, Prune, PruneRefused, Pruned, BuildFails,
  Abandon, Crash, CursorWrites, vars, worker

\* A file that is resolved is not written to.
LEMMA HeldIsKept ==
    ASSUME Owner, HeldIsPublished, SearchTypeOK, RefreshStep, resolved \in Files
    PROVE  /\ content'[resolved] = content[resolved]
           /\ \A p \in Procs : pc'[p] \in Building => mine'[p] # resolved
<1>1. /\ TypeOK /\ \A p \in Procs : pc[p] \in Building => mine[p] \in Files /\ mine[p] # resolved
      /\ Next /\ resolved \notin exists' \ exists
  BY DEF Owner, Ordered, Typed, HeldIsPublished, RefreshStep
<1> USE <1>1 DEF Building, Goto, TypeOK
<1>2. ASSUME NEW p \in Procs, Create(p)
      PROVE  /\ content'[resolved] = content[resolved]
             /\ \A q \in Procs : pc'[q] \in Building => mine'[q] # resolved
  <2>1. PICK f \in Files :
          /\ Fresh(f) /\ mine' = [mine EXCEPT ![p] = f]
          /\ exists' = exists \cup {f} /\ content' = [content EXCEPT ![f] = Blank]
    BY <1>2 DEF Create
  <2>2. f # resolved
    BY <2>1 DEF Fresh
  <2>. QED
    BY <1>2, <2>1, <2>2 DEF Create
<1>3. ASSUME NEW p \in Procs, Commit(p)
      PROVE  /\ content'[resolved] = content[resolved]
             /\ \A q \in Procs : pc'[q] \in Building => mine'[q] # resolved
  BY <1>3 DEF Commit, worker
<1>4. ASSUME NEW p \in Procs,
             \/ Wake(p) \/ Ensure(p) \/ Stamp(p) \/ Recheck(p)
             \/ ReadComposers(p) \/ ReadBubbles(p)
             \/ Publish(p) \/ PublishTruncates(p) \/ PublishRewrites(p)
             \/ \E f \in Files \cup {Legacy} : Prune(p, f) \/ PruneRefused(p, f)
             \/ Pruned(p) \/ BuildFails(p) \/ Crash(p)
      PROVE  /\ content'[resolved] = content[resolved]
             /\ \A q \in Procs : pc'[q] \in Building => mine'[q] # resolved
  <2>1. content' = content
    BY <1>4 DEF Wake, Ensure, Stamp, Recheck, ReadComposers, ReadBubbles, Publish, Swing,
      PublishTruncates, PublishRewrites, Prune, PruneRefused, Pruned, BuildFails, Abandon, Crash
  <2>2. \A q \in Procs : pc'[q] \in Building => pc[q] \in Building /\ mine'[q] = mine[q]
    BY <1>4 DEF Wake, Ensure, Stamp, Recheck, ReadComposers, ReadBubbles, Publish, Swing,
      PublishTruncates, PublishRewrites, Prune, PruneRefused, Pruned, BuildFails, Abandon, Crash,
      worker
  <2>. QED
    BY <2>1, <2>2
<1>5. CASE CursorWrites
  BY <1>5 DEF CursorWrites, worker
<1>. QED
  BY <1>2, <1>3, <1>4, <1>5 DEF Next, Refresh

\* What is resolved is the published index.
LEMMA ResolvesPublished ==
    ASSUME Owner, Active \in Files
    PROVE  /\ pointer # None /\ pointer \in exists /\ Active = pointer
           /\ content[pointer].done /\ content[pointer].fp <= version
           /\ \A p \in Procs : pc[p] \in Building => mine[p] # pointer
BY SearchIndexAssumption DEF Owner, Owned, ActiveIsComplete, Active

LEMMA HeldStep ==
    SingleProcess /\ Owner /\ BuildIsNewer /\ SearchTypeOK /\ HeldIsPublished
        /\ [SearchNext]_allVars => HeldIsPublished'
<1> SUFFICES ASSUME SingleProcess, Owner, BuildIsNewer, SearchTypeOK, HeldIsPublished,
                    [SearchNext]_allVars, resolved' \in Files
             PROVE  /\ content'[resolved'].done /\ content'[resolved'].fp <= version'
                    /\ \A p \in Procs : pc'[p] \in Building => mine'[p] # resolved'
                    /\ content'[resolved'].fp = version' => resolved' = pointer'
  BY DEF HeldIsPublished
<1>1. Typed /\ TypeOK
  BY DEF Owner, Ordered, Typed
<1>2. CASE UNCHANGED vars /\ resolved' = resolved
  BY <1>2 DEF HeldIsPublished, vars, worker
<1>3. ASSUME NEW q \in Places, NEW opening \in Places, Resolve(q, opening), UNCHANGED vars
      PROVE  /\ content'[resolved'].done /\ content'[resolved'].fp <= version'
             /\ \A p \in Procs : pc'[p] \in Building => mine'[p] # resolved'
             /\ resolved' = pointer'
  BY <1>3, ResolvesPublished DEF Resolve, vars, worker
<1>4. CASE RefreshStep
  <2>1. resolved' = resolved /\ [Next]_vars
    BY <1>4 DEF RefreshStep, search
  <2>2. /\ content'[resolved] = content[resolved]
        /\ \A p \in Procs : pc'[p] \in Building => mine'[p] # resolved
    BY <1>4, <2>1, HeldIsKept
  <2>3. content[resolved].done /\ content[resolved].fp <= version /\ content[resolved].fp \in Int
        /\ version \in Int
    BY <1>1, <2>1 DEF HeldIsPublished, TypeOK, Index, Version
  <2>4. CASE version' = version
    BY <2>1, <2>2, <2>3, <2>4, CurrentStays DEF HeldIsPublished
  <2>5. CASE version' = version + 1
    BY <2>1, <2>2, <2>3, <2>5
  <2>. QED
    BY <1>1, <2>1, <2>4, <2>5, VersionGrows
<1>5. ASSUME SearchStep
      PROVE  \/ resolved' \in {resolved, None}
             \/ \E q, opening \in Places : Resolve(q, opening)
  BY <1>5 DEF SearchStep, Begin, StampStorage, CheckUsable, LoadHeaders, QueryWindow, QueryHits,
    QueryTitles, QueryBodies, LiveRows, LiveHits, LiveCheck, LiveDone, Finish,
    IndexedSearchFails, LiveFails, Places
<1>. QED
  BY <1>2, <1>3, <1>4, <1>5, SearchIndexAssumption DEF SearchNext, allVars, search

LEMMA HeldHolds == ASSUME SingleProcess PROVE SearchSpec => []HeldIsPublished
<1>1. SearchInit => HeldIsPublished
  BY SearchIndexAssumption DEF SearchInit, HeldIsPublished
<1>2. Owner /\ BuildIsNewer /\ SearchTypeOK /\ HeldIsPublished /\ [SearchNext]_allVars
        => HeldIsPublished'
  BY SingleProcess, HeldStep
<1>. QED
  BY <1>1, <1>2, SingleProcess, SearchRefines, OwnerHolds, BuildIsNewerHolds, SearchTypeCorrect,
     PTL DEF SearchSpec

\* The search is stamped after it began.
LEMMA SearchTimesHold == SearchSpec => []SearchTimes
<1>1. SearchInit => SearchTimes
  BY DEF SearchInit, Init, SearchTimes, Version
<1>2. Typed /\ SearchTypeOK /\ SearchTimes /\ [SearchNext]_allVars => SearchTimes'
  <2> SUFFICES ASSUME Typed, SearchTypeOK, SearchTimes, [SearchNext]_allVars PROVE SearchTimes'
    OBVIOUS
  <2>1. version \in Int /\ floor \in Int /\ seen \in Int /\ version >= 0
    BY DEF Typed, TypeOK, SearchTypeOK, Version
  <2>2. CASE RefreshStep
    <3>1. version' \in {version, version + 1} /\ UNCHANGED <<floor, seen, at>>
      BY <2>2, VersionGrows DEF RefreshStep, search
    <3>. QED
      BY <2>1, <3>1 DEF SearchTimes
  <2>3. CASE (Begin \/ StampStorage \/ Finish) /\ UNCHANGED vars
    BY <2>1, <2>3 DEF Begin, StampStorage, Finish, Move, vars, SearchTimes
  <2>4. CASE SearchStep /\ ~Begin /\ ~StampStorage /\ ~Finish /\ UNCHANGED vars
    <3>1. UNCHANGED <<floor, seen, version>> /\ at \notin {"idle", "stamp"}
      BY <2>4 DEF SearchStep, Resolve, CheckUsable, LoadHeaders, QueryWindow, QueryHits,
        QueryTitles, QueryBodies, LiveRows, LiveHits, LiveCheck, LiveDone,
        IndexedSearchFails, LiveFails, Scanning, Move, vars
    <3>. QED
      BY <3>1 DEF SearchTimes
  <2>5. CASE UNCHANGED allVars
    BY <2>5 DEF allVars, vars, search, SearchTimes
  <2>. QED
    BY <2>2, <2>3, <2>4, <2>5 DEF SearchNext
<1>. QED
  BY <1>1, <1>2, SearchRefines, TypedHolds, SearchTypeCorrect, PTL DEF SearchSpec

-----------------------------------------------------------------------------
(* What a search shows.                                                    *)

\* Resolving never finds an index of storage before b while none is in use.
LEMMA ResolvesNoOlder ==
    ASSUME Owner, NEW b, NoneOlder(b)
    PROVE  Active # Legacy /\ (Active \in Files => content[Active].fp >= b)
BY SearchIndexAssumption DEF NoneOlder, Owner, Ordered, Typed, TypeOK, ActiveIsComplete, Active

LEMMA ReadsSinceStep ==
    /\ SingleProcess /\ Owner /\ LegacyLeaves /\ SearchTypeOK /\ HeldIsPublished /\ SearchTimes
    /\ ReadsSince /\ [SearchNext]_allVars
    => ReadsSince'
<1> SUFFICES ASSUME SingleProcess, Owner, LegacyLeaves, SearchTypeOK, HeldIsPublished,
                    SearchTimes, ReadsSince, [SearchNext]_allVars
             PROVE  ReadsSince'
  OBVIOUS
<1>1. /\ Typed /\ TypeOK /\ version \in Int /\ floor \in Version
      /\ \A f \in Files : content[f].fp \in Version
  BY DEF Owner, Ordered, Typed, TypeOK, Index, SearchTypeOK, Version
<1>2. ASSUME UNCHANGED vars PROVE \A b : NoneOlder(b) <=> NoneOlder(b)'
  BY <1>2 DEF vars, worker, NoneOlder
<1>3. ASSUME NEW q \in Places, NEW opening \in Opening \cup {"usable_open"},
             Resolve(q, opening), UNCHANGED vars, opening \in Opening => q \in Indexing
      PROVE  ReadsSince'
  <2>1. /\ at = q /\ at' = opening /\ resolved' = Active /\ UNCHANGED <<floor, content>>
    BY <1>3 DEF Resolve, Move, vars
  <2>2. resolved' \in Files => NoneOlder(content[resolved'].fp)
    BY <1>1, <2>1, ResolvesPublished, SearchIndexAssumption DEF NoneOlder, Version
  <2>3. opening \in Opening => NoneOlder(floor)
    BY <1>3, <2>1 DEF ReadsSince
  <2>4. opening \notin Opening => at' \notin Indexing
    BY <1>3, <2>1 DEF Indexing, Opening
  <2>. QED
    BY <1>2, <1>3, <2>1, <2>2, <2>3, <2>4, ResolvesNoOlder DEF ReadsSince
<1>4. CASE CheckUsable /\ UNCHANGED vars
  <2>1. at' \in {"headers", "live"} /\ UNCHANGED <<resolved, floor, content>>
    BY <1>4 DEF CheckUsable, Move, vars
  <2>2. ASSUME at' = "headers" PROVE NoneOlder(floor)
    <3>1. resolved \in Files /\ content[resolved].fp = seen /\ floor <= seen
      BY <1>4, <2>2 DEF CheckUsable, Move, Current, SearchTimes
    <3>2. NoneOlder(content[resolved].fp)
      BY <3>1 DEF ReadsSince
    <3>. QED
      BY <1>1, <3>1, <3>2 DEF NoneOlder, Typed, TypeOK, Version, Index
  <2>. QED
    BY <1>2, <1>4, <2>1, <2>2 DEF ReadsSince, Indexing, Opening
<1>5. CASE /\ SearchStep /\ ~CheckUsable /\ UNCHANGED vars
           /\ \A q \in Places : \A opening \in Opening \cup {"usable_open"} :
                (opening \in Opening => q \in Indexing) => ~Resolve(q, opening)
  <2>1. /\ resolved' \in {resolved, None} /\ at' \notin Opening
        /\ at' \in Indexing => at \in Indexing /\ floor' = floor
    BY <1>5 DEF SearchStep, Begin, StampStorage, LoadHeaders, QueryWindow, QueryHits, QueryTitles,
      QueryBodies, LiveRows, LiveHits, LiveCheck, LiveDone, Finish, IndexedSearchFails, LiveFails,
      Move, Opening, Indexing, Places
  <2>2. resolved' \in Files => resolved' = resolved
    BY <2>1, SearchIndexAssumption
  <2>3. content' = content
    BY <1>5 DEF vars
  <2>. QED
    BY <1>2, <1>5, <2>1, <2>2, <2>3 DEF ReadsSince
<1>6. CASE RefreshStep
  <2>1. UNCHANGED <<resolved, floor, at>> /\ [Next]_vars
    BY <1>6 DEF RefreshStep, search
  <2>2. at \in Indexing => NoneOlder(floor)'
    BY <1>1, <2>1, NoneOlderStays DEF ReadsSince, SearchTimes
  <2>3. ASSUME resolved \in Files
        PROVE  NoneOlder(content[resolved].fp)' /\ content'[resolved] = content[resolved]
    <3>1. content'[resolved] = content[resolved]
      BY <1>6, <2>3, HeldIsKept
    <3> DEFINE b == content[resolved].fp
    <3>2. b \in Version /\ b <= version /\ NoneOlder(b)
      BY <1>1, <2>3 DEF HeldIsPublished, ReadsSince
    <3>3. b' = b
      BY <2>1, <3>1
    <3> HIDE DEF b
    <3>4. PICK d \in Version : d = b
      BY <3>2
    <3>5. NoneOlder(d)'
      BY <2>1, <3>2, <3>4, NoneOlderStays
    <3>6. NoneOlder(b)'
      BY <3>3, <3>4, <3>5 DEF NoneOlder
    <3>. QED
      BY <3>1, <3>6 DEF b
  <2>. QED
    BY <2>1, <2>2, <2>3 DEF ReadsSince
<1>7. CASE UNCHANGED allVars
  BY <1>2, <1>7 DEF allVars, vars, search, ReadsSince
<1>. QED
  BY <1>3, <1>4, <1>5, <1>6, <1>7 DEF SearchNext

LEMMA ReadsSinceHolds ==
    ASSUME SingleProcess, Windows => MaxFaults = 0 PROVE SearchSpec => []ReadsSince
<1>1. SearchInit => ReadsSince
  BY SearchIndexAssumption DEF SearchInit, ReadsSince, Indexing, Opening
<1>2. /\ Owner /\ LegacyLeaves /\ SearchTypeOK /\ HeldIsPublished /\ SearchTimes
      /\ ReadsSince /\ [SearchNext]_allVars
      => ReadsSince'
  BY SingleProcess, ReadsSinceStep
<1>. QED
  BY <1>1, <1>2, SingleProcess, Windows => MaxFaults = 0, SearchRefines, OwnerHolds,
     LegacyLeavesHolds, SearchTypeCorrect, HeldHolds, SearchTimesHold, PTL DEF SearchSpec

\* Nothing is found before a search has begun, and nothing shown before its end.
LEMMA NothingYetHolds == SearchSpec => []NothingYet
<1>1. SearchInit => NothingYet
  BY DEF SearchInit, NothingYet
<1>2. NothingYet /\ [SearchNext]_allVars => NothingYet'
  <2> SUFFICES ASSUME NothingYet, [SearchNext]_allVars PROVE NothingYet'
    OBVIOUS
  <2> USE DEF NothingYet
  <2>1. CASE UNCHANGED search
    BY <2>1 DEF search, found
  <2>2. CASE SearchStep
    BY <2>2 DEF SearchStep, Begin, StampStorage, Resolve, CheckUsable, LoadHeaders, QueryWindow,
      QueryHits, QueryTitles, QueryBodies, LiveRows, LiveHits, LiveCheck, LiveDone, Finish,
      IndexedSearchFails, LiveFails, Scanning, Move, found
  <2>. QED
    BY <2>1, <2>2 DEF SearchNext, RefreshStep, allVars
<1>. QED
  BY <1>1, <1>2, PTL DEF SearchSpec

\* An index that is read while nothing older than the search is in use has rows
\* of versions the database had since.
LEMMA ReadsDuring ==
    ASSUME Ordered, SearchTypeOK, HeldIsPublished, ReadsSince, at \in Opening, Opened
    PROVE  /\ resolved \in Files
           /\ Composers = content[resolved].composers /\ Bubbles = content[resolved].bubbles
           /\ Composers \in Version \cap During /\ Bubbles \in Version \cap During
<1>1. resolved \in Files /\ content[resolved] \in Index
  BY SearchIndexAssumption DEF Opened, Ordered, Typed, TypeOK, ReadsSince
<1>2. content[resolved].fp >= floor /\ IndexOrdered(resolved) /\ content[resolved].done
  BY <1>1 DEF ReadsSince, HeldIsPublished, Ordered
<1>3. Composers = content[resolved].composers /\ Bubbles = content[resolved].bubbles
  BY <1>1, SearchIndexAssumption DEF Composers, Bubbles
<1>4. floor \in Int /\ version \in Int
  BY DEF Ordered, Typed, TypeOK, SearchTypeOK, Version
<1>. QED
  BY <1>1, <1>2, <1>3, <1>4 DEF IndexOrdered, Index, Version, During

LEMMA FoundSinceStep ==
    /\ Ordered /\ SearchTypeOK /\ HeldIsPublished /\ SearchTimes /\ ReadsSince /\ NothingYet
    /\ FoundSince /\ [SearchNext]_allVars
    => FoundSince'
<1> SUFFICES ASSUME Ordered, SearchTypeOK, HeldIsPublished, SearchTimes, ReadsSince, NothingYet,
                    FoundSince, [SearchNext]_allVars
             PROVE  FoundSince'
  OBVIOUS
<1>1. /\ Typed /\ version \in Version /\ floor \in Version /\ version \in During
      /\ During \subseteq Version
      /\ window \in [Chats -> {"gone", "plain", "match"}]
  BY DEF Ordered, Typed, TypeOK, SearchTypeOK, SearchTimes, During, Version
<1>2. CASE RefreshStep \/ UNCHANGED allVars
  <2>1. UNCHANGED <<story, floor, window, hits, result>> /\ [Next]_vars
    BY <1>2 DEF RefreshStep, search, found, allVars
  <2>2. version' \in {version, version + 1}
    BY <1>1, <2>1, VersionGrows
  <2>3. During \subseteq During'
    BY <1>1, <2>1, <2>2 DEF During, Version
  <2>. QED
    BY <2>1, <2>3 DEF FoundSince, Live
<1>3. CASE Begin /\ UNCHANGED vars
  <2>1. /\ window = NoRow /\ hits = {} /\ result = {} /\ UNCHANGED <<window, hits, result>>
    BY <1>3 DEF Begin, Move, NothingYet, found
  <2>. QED
    BY <2>1 DEF FoundSince, NoRow
<1>4. CASE Finish
  BY <1>4 DEF Finish, FoundSince, NoRow
<1>5. CASE SearchStep /\ ~Begin /\ ~Finish /\ UNCHANGED vars
  <2>1. UNCHANGED <<story, floor, version, content>> /\ During' = During
    BY <1>5 DEF SearchStep, StampStorage, Resolve, CheckUsable, LoadHeaders, QueryWindow,
      QueryHits, QueryTitles, QueryBodies, LiveRows, LiveHits, LiveCheck, LiveDone,
      IndexedSearchFails, LiveFails, vars, During
  <2>2. CASE QueryWindow
    <3>1. at = "window_open" /\ UNCHANGED <<hits, result>> /\ result = {}
      BY <2>2 DEF QueryWindow, Move, NothingYet
    <3>2. ASSUME NEW c \in Chats, window'[c] # "gone"
          PROVE  \E v \in During : story[v][c].row = window'[c]
      <4>1. Opened /\ window'[c] = story[Composers][c].row
        BY <2>2, <3>2 DEF QueryWindow, NoRow
      <4>2. Composers \in During
        BY <3>1, <4>1, ReadsDuring DEF Opening
      <4>. QED
        BY <4>1, <4>2
    <3>. QED
      BY <2>1, <3>1, <3>2 DEF FoundSince, Live
  <2>3. CASE QueryHits
    <3>1. at = "hits_open" /\ UNCHANGED <<window, result>> /\ result = {}
      BY <2>3 DEF QueryHits, Move, NothingYet
    <3>2. ASSUME NEW c \in hits'
          PROVE  \E v \in During : Live(v, c) /\ story[v][c].text # "none"
      <4>1. c \in Chats /\ Opened /\ Live(Bubbles, c) /\ story[Bubbles][c].text = "word"
        BY <2>3, <3>2 DEF QueryHits, Indexed
      <4>2. Bubbles \in During
        BY <3>1, <4>1, ReadsDuring DEF Opening
      <4>. QED
        BY <4>1, <4>2
    <3>. QED
      BY <2>1, <3>1, <3>2 DEF FoundSince, Live
  <2>4. CASE LiveRows
    <3>1. at = "live" /\ UNCHANGED <<hits, result>> /\ result = {}
      BY <2>4 DEF LiveRows, Move, NothingYet
    <3>2. \A c \in Chats : window'[c] = story[version][c].row
      BY <2>4 DEF LiveRows
    <3>. QED
      BY <1>1, <2>1, <3>1, <3>2 DEF FoundSince, Live
  <2>5. CASE LiveHits
    <3>1. at = "live_hits" /\ UNCHANGED <<window, result>> /\ result = {}
      BY <2>5 DEF LiveHits, Move, NothingYet
    <3>2. \A c \in hits' : c \in Chats /\ Live(version, c) /\ story[version][c].text # "none"
      BY <2>5 DEF LiveHits
    <3>. QED
      BY <1>1, <2>1, <3>1, <3>2 DEF FoundSince, Live
  <2>6. CASE QueryBodies \/ \E c \in Chats : LiveCheck(c)
    <3>1. UNCHANGED <<window, hits>>
      BY <2>6 DEF QueryBodies, LiveCheck
    <3>2. \A c \in result' : c \in result \/ (window[c] # "gone" /\ (window[c] = "match" \/ c \in hits))
      BY <2>6 DEF QueryBodies, LiveCheck, Answers
    <3>. QED
      BY <2>1, <3>1, <3>2 DEF FoundSince, Live
  <2>7. CASE ~QueryWindow /\ ~QueryHits /\ ~LiveRows /\ ~LiveHits /\ ~QueryBodies
             /\ \A c \in Chats : ~LiveCheck(c)
    <3>1. UNCHANGED <<window, hits, result>>
      BY <1>5, <2>7 DEF SearchStep, StampStorage, Resolve, CheckUsable, LoadHeaders, QueryTitles,
        LiveDone, IndexedSearchFails, LiveFails, found
    <3>. QED
      BY <2>1, <3>1 DEF FoundSince, Live
  <2>. QED
    BY <2>2, <2>3, <2>4, <2>5, <2>6, <2>7
<1>. QED
  BY <1>2, <1>3, <1>4, <1>5 DEF SearchNext

\* Whatever a search shows was in the database at some time during it and
\* contained the query at some time, though its queries may read different
\* generations of the index: for one process on the cache directory, and where
\* the pointer file can be seen empty if nothing fails.
THEOREM ShownWasThere ==
    ASSUME SingleProcess, Windows => MaxFaults = 0
    PROVE  SearchSpec => []ShownWasLive
<1>1. SearchInit => FoundSince
  BY DEF SearchInit, FoundSince, NoRow
<1>2. SearchTypeOK /\ Typed /\ FoundSince => ShownWasLive
  <2> SUFFICES ASSUME SearchTypeOK, Typed, FoundSince, NEW c \in result
               PROVE  /\ \E v \in During : Live(v, c)
                      /\ \E v \in During : Matches(v, c) \/ story[v][c].text = "infix"
    BY DEF ShownWasLive
  <2>1. c \in Chats /\ During \subseteq Version
    BY DEF SearchTypeOK, Typed, TypeOK, During, Version
  <2>2. PICK v \in During : story[v][c].row = window[c] /\ window[c] # "gone"
    BY <2>1 DEF FoundSince
  <2>3. CASE window[c] = "match"
    BY <2>2, <2>3 DEF Live, Matches
  <2>4. CASE c \in hits
    <3>1. PICK w \in During : Live(w, c) /\ story[w][c].text # "none"
      BY <2>4 DEF FoundSince
    <3>2. story[w][c].text \in {"word", "infix"}
      BY <2>1, <3>1, StoryType DEF Chat
    <3>. QED
      BY <2>2, <3>1, <3>2 DEF Live, Matches
  <2>. QED
    BY <2>3, <2>4 DEF FoundSince
<1>. QED
  BY <1>1, <1>2, FoundSinceStep, SingleProcess, Windows => MaxFaults = 0, SearchRefines,
     IndexStaysOrdered, TypedHolds, SearchTypeCorrect, HeldHolds, SearchTimesHold,
     ReadsSinceHolds, NothingYetHolds, PTL DEF SearchSpec

-----------------------------------------------------------------------------
(* A search while the database rests.                                      *)

LEMMA QuietIndexStep ==
    /\ SingleProcess /\ Owner /\ BuildIsNewer /\ SearchTypeOK /\ HeldIsPublished /\ SearchTimes
    /\ QuietIndex /\ [SearchNext]_allVars
    => QuietIndex'
<1> SUFFICES ASSUME SingleProcess, Owner, BuildIsNewer, SearchTypeOK, HeldIsPublished,
                    SearchTimes, QuietIndex, [SearchNext]_allVars, Quiet', at' \in Indexing
             PROVE  /\ pointer' # None /\ content'[pointer'].fp = version'
                    /\ at' \in Opening => resolved' = pointer'
  BY DEF QuietIndex
<1>1. /\ Typed /\ version \in Int /\ floor \in Int /\ seen \in Int /\ floor <= version
  BY DEF Owner, Ordered, Typed, TypeOK, SearchTypeOK, SearchTimes, Version
<1>2. CASE RefreshStep \/ UNCHANGED allVars
  <2>1. UNCHANGED <<floor, at, resolved>> /\ [Next]_vars
    BY <1>2 DEF RefreshStep, search, allVars
  <2>2. version' = version
    BY <1>1, <2>1, VersionGrows DEF Quiet
  <2>3. pointer # None /\ content[pointer].fp = version /\ (at \in Opening => resolved = pointer)
    BY <2>1, <2>2 DEF QuietIndex, Quiet
  <2>. QED
    BY <2>1, <2>2, <2>3, CurrentStays
<1>3. CASE CheckUsable /\ UNCHANGED vars
  <2>1. /\ at = "usable_open" /\ at' = "headers" /\ Current(resolved, seen)
        /\ UNCHANGED <<floor, resolved, version, content, pointer>>
    BY <1>3 DEF CheckUsable, Move, vars, Indexing, Opening
  <2>2. floor = version /\ floor <= seen /\ seen <= version
    BY <2>1 DEF SearchTimes, Quiet
  <2>3. resolved \in Files /\ content[resolved].fp = version /\ resolved = pointer
    BY <1>1, <2>1, <2>2 DEF Current, HeldIsPublished
  <2>. QED
    BY <2>1, <2>3, SearchIndexAssumption DEF Opening
<1>4. ASSUME NEW q \in Indexing, NEW opening \in Opening, Resolve(q, opening), UNCHANGED vars
      PROVE  pointer' # None /\ content'[pointer'].fp = version' /\ resolved' = pointer'
  <2>1. /\ at = q /\ resolved' = Active /\ UNCHANGED <<floor, version, content, pointer>>
    BY <1>4 DEF Resolve, Move, vars
  <2>2. pointer # None /\ content[pointer].fp = version
    BY <2>1 DEF QuietIndex, Quiet
  <2>. QED
    BY <2>1, <2>2 DEF Owner, ActiveIsComplete, Active
<1>5. CASE /\ SearchStep /\ ~CheckUsable /\ UNCHANGED vars
           /\ \A q \in Indexing : \A opening \in Opening : ~Resolve(q, opening)
  <2>1. at \in Indexing /\ at' \notin Opening /\ UNCHANGED <<floor, version, content, pointer>>
    BY <1>5 DEF SearchStep, Begin, StampStorage, Resolve, LoadHeaders, QueryWindow, QueryHits,
      QueryTitles, QueryBodies, LiveRows, LiveHits, LiveCheck, LiveDone, Finish,
      IndexedSearchFails, LiveFails, Move, Opening, Indexing, vars
  <2>. QED
    BY <2>1 DEF QuietIndex, Quiet
<1>. QED
  BY <1>2, <1>3, <1>4, <1>5 DEF SearchNext

LEMMA QuietIndexHolds == ASSUME SingleProcess PROVE SearchSpec => []QuietIndex
<1>1. SearchInit => QuietIndex
  BY DEF SearchInit, QuietIndex, Indexing, Opening
<1>2. /\ Owner /\ BuildIsNewer /\ SearchTypeOK /\ HeldIsPublished /\ SearchTimes
      /\ QuietIndex /\ [SearchNext]_allVars
      => QuietIndex'
  BY SingleProcess, QuietIndexStep
<1>. QED
  BY <1>1, <1>2, SingleProcess, SearchRefines, OwnerHolds, BuildIsNewerHolds, SearchTypeCorrect,
     HeldHolds, SearchTimesHold, PTL DEF SearchSpec

\* Then every query opens the index of the present storage.
LEMMA QuietReads ==
    ASSUME Owner, CurrentIsFaithful, QuietIndex, Quiet, at \in Opening
    PROVE  Opened /\ Composers = version /\ Bubbles = version
<1>1. resolved = pointer /\ pointer # None /\ content[pointer].fp = version
  BY DEF QuietIndex, Indexing
<1>2. pointer \in exists /\ content[pointer].done /\ pointer \in Files
  BY <1>1 DEF Owner, Ordered, Typed, TypeOK, ActiveIsComplete
<1>. QED
  BY <1>1, <1>2, SearchIndexAssumption DEF Opened, Composers, Bubbles, CurrentIsFaithful, Current

\* One conversation is looked at, or all of them through the index.
LEMMA AnswersAreSound ==
    ASSUME SearchTypeOK, Typed,
           window = [c \in Chats |-> story[version][c].row],
           \A c \in hits : Live(version, c) /\ story[version][c].text # "none",
           NEW bad, NEW c \in Answers(bad), Banned(version, c) => c \in bad
    PROVE  Sound(c)
<1>1. c \in Chats /\ version \in Version
  BY DEF Answers, SearchTypeOK, Typed, TypeOK
<1>2. story[version][c].row # "gone" /\ c \notin bad /\ (story[version][c].row = "match" \/ c \in hits)
  BY <1>1 DEF Answers
<1>3. story[version][c].text \in {"none", "word", "infix"}
  BY <1>1, StoryType DEF Chat
<1>. QED
  BY <1>2, <1>3 DEF Sound, Live, Matches

LEMMA QuietFoundStep ==
    /\ Owner /\ CurrentIsFaithful /\ SearchTypeOK /\ SearchTimes /\ NothingYet /\ QuietIndex
    /\ QuietFound /\ [SearchNext]_allVars
    => QuietFound'
<1> SUFFICES ASSUME Owner, CurrentIsFaithful, SearchTypeOK, SearchTimes, NothingYet, QuietIndex,
                    QuietFound, [SearchNext]_allVars, Quiet'
             PROVE  QuietFound'
  BY DEF QuietFound
<1>1. /\ Typed /\ version \in Version /\ version \in Int /\ floor \in Int /\ floor <= version
  BY DEF Owner, Ordered, Typed, TypeOK, SearchTypeOK, SearchTimes, Version
<1>2. CASE RefreshStep \/ UNCHANGED allVars
  <2>1. UNCHANGED search /\ [Next]_vars
    BY <1>2 DEF RefreshStep, allVars
  <2>2. version' = version
    BY <1>1, <2>1, VersionGrows DEF Quiet, search
  <2>3. UNCHANGED <<story, floor, at, headers, window, hits, candidates, banned, result, warned>>
    BY <2>1 DEF search, found
  <2>4. UNCHANGED <<HeadersNow, RowsNow, WordsNow, TextsNow, Answer>>
        /\ \A c : (Sound(c) <=> Sound(c)') /\ (Banned(version, c) <=> Banned(version, c)')
                  /\ (Matches(version, c) <=> Matches(version, c)')
    BY <2>2, <2>3 DEF HeadersNow, RowsNow, WordsNow, TextsNow, Answer, Sound, Live, Matches, Banned
  <2>. QED
    BY <2>2, <2>3, <2>4 DEF QuietFound, Quiet
<1>3. CASE Begin
  BY <1>3 DEF Begin, Move, QuietFound, NothingYet, found, Indexing, Opening
<1>4. CASE Finish
  BY <1>4 DEF Finish, Quiet
<1>5. ASSUME UNCHANGED vars, UNCHANGED <<story, floor>>
      PROVE  /\ UNCHANGED version /\ Quiet /\ UNCHANGED Answer
             /\ \A c : (Sound(c) <=> Sound(c)') /\ (Banned(version, c) <=> Banned(version, c)')
                       /\ (Live(version, c) <=> Live(version, c)')
                       /\ (Matches(version, c) <=> Matches(version, c)')
  <2>1. UNCHANGED <<story, floor, version>> /\ Quiet
    BY <1>5 DEF vars, Quiet
  <2>. QED
    BY <2>1 DEF Answer, Sound, Live, Matches, Banned
<1>6. CASE UNCHANGED vars /\ (StampStorage \/ CheckUsable \/ IndexedSearchFails)
  <2>1. UNCHANGED <<story, floor, found, result>> /\ at' \in {"live", "usable", "headers"}
    BY <1>6 DEF StampStorage, CheckUsable, IndexedSearchFails, Move
  <2>. QED
    BY <1>5, <1>6, <2>1 DEF QuietFound, found, Indexing, Opening
<1>7. CASE UNCHANGED vars
           /\ \/ Resolve("usable", "usable_open") \/ Resolve("window", "window_open")
              \/ Resolve("hits", "hits_open") \/ Resolve("titles", "titles_open")
              \/ Resolve("bodies", "bodies_open")
  <2>1. UNCHANGED <<story, floor, headers, window, hits, candidates, banned, result>>
    BY <1>7 DEF Resolve, found
  <2>2. <<at, at'>> \in {<<"usable", "usable_open">>, <<"window", "window_open">>,
          <<"hits", "hits_open">>, <<"titles", "titles_open">>, <<"bodies", "bodies_open">>}
    BY <1>7 DEF Resolve, Move
  <2>3. UNCHANGED version /\ (HeadersNow => HeadersNow') /\ (RowsNow => RowsNow')
        /\ (WordsNow => WordsNow')
    BY <1>5, <1>7, <2>1 DEF HeadersNow, RowsNow, WordsNow
  <2>. QED
    BY <1>5, <1>7, <2>1, <2>2, <2>3 DEF QuietFound, Indexing, Opening
<1>8. CASE UNCHANGED vars
           /\ (LoadHeaders("headers", "window") \/ LoadHeaders("live_headers", "live_hits"))
  <2>1. UNCHANGED <<story, floor, window, hits, candidates, banned, result>>
    BY <1>8 DEF LoadHeaders
  <2>2. <<at, at'>> \in {<<"headers", "window">>, <<"live_headers", "live_hits">>}
    BY <1>8 DEF LoadHeaders, Move
  <2>3. HeadersNow' /\ (RowsNow => RowsNow')
    BY <1>5, <1>8, <2>1 DEF LoadHeaders, HeadersNow, RowsNow
  <2>. QED
    BY <1>5, <1>8, <2>1, <2>2, <2>3 DEF QuietFound, Indexing, Opening
<1>9. CASE UNCHANGED vars /\ QueryWindow
  <2>1. /\ at = "window_open" /\ at' \in {"hits", "done"} /\ result = {}
        /\ UNCHANGED <<story, floor, headers, hits, candidates, banned, result>>
        /\ at' = "done" => window' = NoRow
    BY <1>9 DEF QueryWindow, Move, NothingYet
  <2>2. Opened /\ Composers = version
    BY <1>5, <1>9, <2>1, QuietReads DEF Opening
  <2>3. HeadersNow /\ HeadersNow' /\ RowsNow'
    BY <1>5, <1>9, <2>1, <2>2 DEF QuietFound, Indexing, Opening, QueryWindow, HeadersNow, RowsNow
  <2>4. at' = "done" => Answer' = {}
    BY <2>1, <2>3 DEF RowsNow, NoRow, Answer, Matches, Live
  <2>. QED
    BY <1>5, <1>9, <2>1, <2>3, <2>4 DEF QuietFound, Indexing, Opening
<1>10. CASE UNCHANGED vars /\ QueryHits
  <2>1. /\ at = "hits_open" /\ at' = "titles"
        /\ UNCHANGED <<story, floor, headers, window, candidates, banned, result>>
    BY <1>10 DEF QueryHits, Move
  <2>2. Opened /\ Composers = version /\ Bubbles = version
    BY <1>5, <1>10, <2>1, QuietReads DEF Opening
  <2>3. HeadersNow /\ RowsNow
    BY <1>5, <1>10, <2>1 DEF QuietFound, Indexing, Opening
  <2>4. \A c \in Chats : Indexed(c) => window[c] # "gone"
    BY <2>2, <2>3 DEF Indexed, Live, RowsNow
  <2>5. hits' = {c \in Chats : Live(version, c) /\ story[version][c].text = "word"}
    BY <1>10, <2>2, <2>4 DEF QueryHits, Indexed
  <2>6. HeadersNow' /\ RowsNow' /\ WordsNow'
    BY <1>5, <1>10, <2>1, <2>3, <2>5 DEF HeadersNow, RowsNow, WordsNow
  <2>. QED
    BY <1>5, <1>10, <2>1, <2>6 DEF QuietFound, Indexing, Opening
<1>11. CASE UNCHANGED vars /\ QueryTitles
  <2>1. /\ at = "titles_open" /\ at' = "bodies"
        /\ UNCHANGED <<story, floor, headers, window, hits, banned, result>>
    BY <1>11 DEF QueryTitles, Move
  <2>2. Opened /\ Composers = version
    BY <1>5, <1>11, <2>1, QuietReads DEF Opening
  <2>3. HeadersNow /\ RowsNow /\ WordsNow
    BY <1>5, <1>11, <2>1 DEF QuietFound, Indexing, Opening
  <2>4. candidates' = {c \in Chats : Matches(version, c)}
    BY <1>11, <2>2, <2>3 DEF QueryTitles, RowsNow, WordsNow, Matches, Live
  <2>5. HeadersNow' /\ RowsNow' /\ WordsNow' /\ candidates' = {c \in Chats : Matches(version, c)'}
    BY <1>5, <1>11, <2>1, <2>3, <2>4 DEF HeadersNow, RowsNow, WordsNow
  <2>. QED
    BY <1>5, <1>11, <2>1, <2>5 DEF QuietFound, Indexing, Opening
<1>12. CASE UNCHANGED vars /\ QueryBodies
  <2>1. /\ at = "bodies_open" /\ at' = "done"
        /\ UNCHANGED <<story, floor, headers, window, hits, candidates>>
    BY <1>12 DEF QueryBodies, Move
  <2>2. Opened /\ Composers = version /\ Bubbles = version
    BY <1>5, <1>12, <2>1, QuietReads DEF Opening
  <2>3. /\ HeadersNow /\ RowsNow /\ WordsNow /\ candidates = {c \in Chats : Matches(version, c)}
    BY <1>5, <1>12, <2>1 DEF QuietFound, Indexing, Opening
  <2>4. /\ banned' = {c \in candidates : Banned(version, c)} /\ result' = Answers(banned')
    BY <1>12, <2>2 DEF QueryBodies, Indexed, Banned
  <2>5. Answer \subseteq result'
    BY <2>3, <2>4 DEF Answer, Answers, HeadersNow, RowsNow, WordsNow, Matches, Live
  <2>6. ASSUME NEW c \in result' PROVE Sound(c)
    <3>1. \A d \in hits : Live(version, d) /\ story[version][d].text # "none"
      BY <2>3 DEF WordsNow
    <3>2. c \in Answers(banned') /\ (Banned(version, c) => c \in banned')
      BY <2>4, <2>6 DEF Answers
    <3>. QED
      BY <1>1, <2>3, <3>1, <3>2, AnswersAreSound DEF RowsNow
  <2>. QED
    BY <1>5, <1>12, <2>1, <2>4, <2>5, <2>6 DEF QuietFound, Indexing, Opening
<1>13. CASE UNCHANGED vars /\ LiveRows
  <2>1. /\ at = "live" /\ at' = "live_headers"
        /\ UNCHANGED <<story, floor, headers, hits, candidates, banned, result>>
    BY <1>5, <1>13 DEF LiveRows, Move, Quiet
  <2>2. RowsNow'
    BY <1>5, <1>13, <2>1 DEF LiveRows, RowsNow
  <2>. QED
    BY <1>5, <1>13, <2>1, <2>2 DEF QuietFound, Indexing, Opening
<1>14. CASE UNCHANGED vars /\ LiveHits
  <2>1. /\ at = "live_hits" /\ at' = "live_bodies"
        /\ UNCHANGED <<story, floor, headers, window, banned, result>>
    BY <1>14 DEF LiveHits, Move
  <2>2. HeadersNow /\ RowsNow
    BY <1>5, <1>14, <2>1 DEF QuietFound
  <2>3. hits' = {c \in Chats : Live(version, c) /\ story[version][c].text # "none"}
    BY <1>14 DEF LiveHits
  <2>4. \A c \in Chats : Matches(version, c) => c \in candidates'
    BY <1>14, <2>2, <2>3 DEF LiveHits, RowsNow, Matches, Live
  <2>5. HeadersNow' /\ RowsNow' /\ TextsNow' /\ Answer' \subseteq candidates'
    BY <1>5, <1>14, <2>1, <2>2, <2>3, <2>4 DEF HeadersNow, RowsNow, TextsNow, Answer
  <2>. QED
    BY <1>5, <1>14, <2>1, <2>5 DEF QuietFound, Indexing, Opening
<1>15. ASSUME NEW c \in Chats, LiveCheck(c), UNCHANGED vars PROVE QuietFound'
  <2>1. /\ at = "live_bodies" /\ at' = "live_bodies" /\ c \in candidates
        /\ candidates' = candidates \ {c}
        /\ UNCHANGED <<story, floor, headers, window, hits>>
    BY <1>15 DEF LiveCheck
  <2>0. Quiet
    BY <1>5, <1>15, <2>1
  <2>2. /\ HeadersNow /\ RowsNow /\ TextsNow /\ Answer \subseteq candidates \cup result
        /\ \A d \in banned : Banned(version, d)
        /\ \A d \in result : Sound(d)
    BY <2>0, <2>1 DEF QuietFound
  <2>3. banned' = IF Banned(version, c) THEN banned \cup {c} ELSE banned
    BY <1>15 DEF LiveCheck, Banned
  <2>4. \A d \in banned' : Banned(version, d)
    BY <2>2, <2>3
  <2>5. result' = result \cup (Answers(banned') \cap {c})
    BY <1>15 DEF LiveCheck
  <2>6. c \in Answer => c \in result'
    BY <2>1, <2>2, <2>4, <2>5 DEF Answer, Answers, HeadersNow, RowsNow, TextsNow, Matches, Live
  <2>7. ASSUME NEW d \in result' PROVE Sound(d)
    <3>1. CASE d \in result
      BY <2>2, <3>1
    <3>2. CASE d \notin result
      <4>1. d \in Answers(banned') /\ (Banned(version, d) => d \in banned')
        BY <2>3, <2>5, <2>7, <3>2
      <4>2. \A x \in hits : Live(version, x) /\ story[version][x].text # "none"
        BY <2>2 DEF TextsNow
      <4>. QED
        BY <1>1, <2>2, <4>1, <4>2, AnswersAreSound DEF RowsNow
    <3>. QED
      BY <3>1, <3>2
  <2>8. HeadersNow' /\ RowsNow' /\ TextsNow'
    BY <1>5, <1>15, <2>1, <2>2 DEF HeadersNow, RowsNow, TextsNow
  <2>9. Answer \subseteq candidates' \cup result'
    BY <2>1, <2>2, <2>5, <2>6
  <2>. QED
    BY <1>5, <1>15, <2>1, <2>4, <2>7, <2>8, <2>9 DEF QuietFound, Indexing, Opening
<1>16. CASE UNCHANGED vars /\ (LiveDone \/ LiveFails)
  <2>1. /\ at' = "done" /\ UNCHANGED <<story, floor, banned, result>>
        /\ warned' \/ (at = "live_bodies" /\ candidates = {})
    BY <1>16 DEF LiveDone, LiveFails, Move, found
  <2>. QED
    BY <1>5, <1>16, <2>1 DEF QuietFound, Indexing, Opening
<1>. QED
  BY <1>2, <1>3, <1>4, <1>6, <1>7, <1>8, <1>9, <1>10, <1>11, <1>12, <1>13, <1>14, <1>15, <1>16
  DEF SearchNext, SearchStep

\* While the database rests, a search gives what the present storage has, up to
\* matches inside words, whether it went through the index or not and whatever
\* the refresh thread did meanwhile; a scan that was cut short says so.
THEOREM QuietSearchExact ==
    ASSUME SingleProcess PROVE SearchSpec => []QuietSearchIsExact
<1>1. SearchInit => QuietFound
  BY DEF SearchInit, QuietFound, Quiet, Indexing, Opening
<1>2. SearchTypeOK /\ QuietFound => QuietSearchIsExact
  BY DEF SearchTypeOK, QuietFound, Quiet, QuietSearchIsExact, Sound, Answer
<1>. QED
  BY <1>1, <1>2, QuietFoundStep, SingleProcess, SearchRefines, OwnerHolds,
     UsableIndexIsFaithful, SearchTypeCorrect, SearchTimesHold, NothingYetHolds,
     QuietIndexHolds, PTL DEF SearchSpec
===============================================================================
