-------------------------- MODULE SummaryCacheProofs --------------------------
(***************************************************************************)
(* Proofs about SummaryCache for any number of threads, scopes and sources *)
(* and any bound on the versions.                                          *)
(***************************************************************************)
EXTENDS SummaryCache, TLAPS

\* A thread that serves a request knows its scope.
ScopeKnown == \A t \in Threads : pc[t] # "idle" => scope[t] \in Scopes

\* What a thread built is a payload.
LEMMA BuiltIsPayload ==
  ASSUME TypeOK, NEW t \in Threads, scope[t] \in Scopes
  PROVE  Built(t) \in Payload
<1>1. data[t] \in [Sources -> SUBSET Version] /\ ok[t] \in BOOLEAN
  BY DEF TypeOK
<1>. QED
  BY <1>1 DEF Built, Payload

\* A stored entry consists of a fingerprint and a payload.
LEMMA EntryParts ==
  ASSUME TypeOK, cache # None
  PROVE  cache \in Entry /\ cache.payload \in Payload /\ cache.fp \in Fingerprint
BY DEF TypeOK, Entry

\* The entry PostMiss writes is well formed.
LEMMA WrittenEntry ==
  ASSUME TypeOK, NEW t \in Threads, scope[t] \in Scopes, Complete(t), Unmoved(t)
  PROVE  [fp |-> FingerprintOf(t, pre[t]), payload |-> Built(t)] \in Entry
<1>1. stamp[t] \in [Stamped -> Version \cup {None}]
  BY DEF TypeOK
<1>2. stamp[t] \in [Stamped -> Version]
  BY <1>1 DEF Complete
<1>3. FingerprintOf(t, pre[t]) \in Fingerprint
  BY <1>2 DEF FingerprintOf, Fingerprint, Unmoved
<1>. QED
  BY <1>3, BuiltIsPayload DEF Entry

\* The states of _get_or_build_cached are well formed.
THEOREM TypeCorrect == Spec => []TypeOK
<1>. USE SummaryCacheAssumption
<1>1. Init => TypeOK /\ ScopeKnown
  BY DEF Init, TypeOK, ScopeKnown, Version, Zero, NoStamp, NoData, Stages
<1>2. TypeOK /\ ScopeKnown /\ [Next]_vars => TypeOK' /\ ScopeKnown'
  <2>. SUFFICES ASSUME TypeOK, ScopeKnown, [Next]_vars
                PROVE  TypeOK' /\ ScopeKnown'
    OBVIOUS
  <2>. USE DEF TypeOK, ScopeKnown, Stages, Goto
  <2>1. ASSUME NEW t \in Threads, Request(t) PROVE TypeOK' /\ ScopeKnown'
    BY <2>1 DEF Request, building
  <2>2. ASSUME NEW t \in Threads, Acquire(t) PROVE TypeOK' /\ ScopeKnown'
    BY <2>2 DEF Acquire, request, building, NoStamp
  <2>3. ASSUME NEW t \in Threads, NEW s \in Stamped, StampSource(t, s) PROVE TypeOK' /\ ScopeKnown'
    BY <2>3 DEF StampSource, request, building
  <2>4. ASSUME NEW t \in Threads, PreHit(t) PROVE TypeOK' /\ ScopeKnown'
    BY <2>4, EntryParts DEF PreHit, request, building, Hit
  <2>5. ASSUME NEW t \in Threads, PreMiss(t) PROVE TypeOK' /\ ScopeKnown'
    BY <2>5 DEF PreMiss, request, building
  <2>6. ASSUME NEW t \in Threads, BuildDone(t) PROVE TypeOK' /\ ScopeKnown'
    BY <2>6 DEF BuildDone, request
  <2>7. ASSUME NEW t \in Threads, BuildBypassed(t) PROVE TypeOK' /\ ScopeKnown'
    BY <2>7, BuiltIsPayload DEF BuildBypassed, request, building
  <2>8. ASSUME NEW t \in Threads, BuildRaises(t) PROVE TypeOK' /\ ScopeKnown'
    BY <2>8 DEF BuildRaises, request, building
  <2>9. ASSUME NEW t \in Threads, PostHit(t) PROVE TypeOK' /\ ScopeKnown'
    BY <2>9, EntryParts DEF PostHit, request, building, Hit
  <2>10. ASSUME NEW t \in Threads, PostMiss(t) PROVE TypeOK' /\ ScopeKnown'
    <3>1. Built(t) \in Payload
      BY <2>10, BuiltIsPayload DEF PostMiss
    <3>2. cache' \in Entry \cup {None}
      BY <2>10, WrittenEntry DEF PostMiss
    <3>. QED
      BY <2>10, <3>1, <3>2 DEF PostMiss, request, building
  <2>11. ASSUME NEW t \in Threads, Respond(t) PROVE TypeOK' /\ ScopeKnown'
    BY <2>11 DEF Respond, NoStamp, NoData, Zero, Version
  <2>12. ASSUME NEW t \in Threads, NEW s \in Sources, ReadSource(t, s) PROVE TypeOK' /\ ScopeKnown'
    BY <2>12 DEF ReadSource, request
  <2>13. ASSUME NEW s \in Sources, CursorWrites(s) PROVE TypeOK' /\ ScopeKnown'
    BY <2>13 DEF CursorWrites, request, building, Version
  <2>14. CASE UNCHANGED vars
    BY <2>14 DEF vars, request, building
  <2>. QED
    BY <2>1, <2>2, <2>3, <2>4, <2>5, <2>6, <2>7, <2>8, <2>9, <2>10, <2>11, <2>12,
       <2>13, <2>14 DEF Next, Serve
<1>. QED
  BY <1>1, <1>2, PTL DEF Spec

-----------------------------------------------------------------------------
(* The inductive invariant.                                                *)

\* The fingerprint taken before the build and the equal one taken after it
\* pin every read in between to the version both name.
LEMMA PinnedReads ==
  ASSUME TypeOK, Stamped \subseteq Sources, MaxVersion \in Nat,
         NEW t \in Threads, pc[t] = "post", Complete(t), Unmoved(t),
         BuilderReads(t), PreStamped(t), Stamping(t)
  PROVE  \A s \in Stamped : /\ stamp[t][s] <= version[s]
                            /\ data[t][s] = {pre[t][s]}
                            /\ pre[t][s] = stamp[t][s]
<1>. SUFFICES ASSUME NEW s \in Stamped
              PROVE  /\ stamp[t][s] <= version[s]
                     /\ data[t][s] = {pre[t][s]}
                     /\ pre[t][s] = stamp[t][s]
  OBVIOUS
<1>1. /\ ~bypass[t] /\ s \in Sources
      /\ stamp[t][s] # None /\ stamp[t][s] = pre[t][s]
  BY DEF BuilderReads, Complete, Unmoved
<1>2. data[t][s] # {} /\ data[t][s] \subseteq Version /\ stamp[t][s] \in Version
  BY <1>1 DEF BuilderReads, TypeOK
<1>3. \A v \in data[t][s] : pre[t][s] <= v
  BY <1>1 DEF PreStamped
<1>4. stamp[t][s] <= version[s] /\ \A v \in data[t][s] : v <= stamp[t][s]
  BY <1>1 DEF Stamping
<1>5. \A v \in data[t][s] : v = pre[t][s]
  BY <1>1, <1>2, <1>3, <1>4 DEF Version
<1>. QED
  BY <1>1, <1>2, <1>4, <1>5

\* An empty cache and idle threads satisfy the inductive invariant.
LEMMA InductiveInit == Init => Inductive
BY SummaryCacheAssumption
   DEF Init, Inductive, TypeOK, LockDiscipline, CoherentEntry, EntryBehind,
       FreshAnswer, BuilderReads, PreStamped, Stamping, Version, Zero, NoStamp,
       NoData, Stages

\* Every step of a request, and every write of Cursor, keeps it.
LEMMA InductiveStep == Inductive /\ TypeOK' /\ [Next]_vars => Inductive'
<1>. SUFFICES ASSUME Inductive, TypeOK', [Next]_vars PROVE Inductive'
  OBVIOUS
<1>. USE SummaryCacheAssumption
     DEF Inductive, TypeOK, Stages, Goto, Version, LockDiscipline, CoherentEntry,
         EntryBehind, FreshAnswer, BuilderReads, PreStamped, Stamping
<1>1. ASSUME NEW t \in Threads, Request(t) PROVE Inductive'
  <2>1. LockDiscipline'
    BY <1>1 DEF Request, building
  <2>2. CoherentEntry' /\ EntryBehind'
    BY <1>1 DEF Request, building
  <2>3. FreshAnswer'
    BY <1>1 DEF Request, building
  <2>4. \A u \in Threads : BuilderReads(u)'
    BY <1>1 DEF Request, building, NoData
  <2>5. \A u \in Threads : PreStamped(u)'
    BY <1>1 DEF Request, building
  <2>6. \A u \in Threads : Stamping(u)'
    BY <1>1 DEF Request, building
  <2>. QED
    BY <2>1, <2>2, <2>3, <2>4, <2>5, <2>6
<1>2. ASSUME NEW t \in Threads, Acquire(t) PROVE Inductive'
  BY <1>2 DEF Acquire, request, building, NoStamp
<1>3. ASSUME NEW t \in Threads, NEW s \in Stamped, StampSource(t, s) PROVE Inductive'
  BY <1>3 DEF StampSource, Stampable, request, building
<1>4. ASSUME NEW t \in Threads, PreHit(t) PROVE Inductive'
  BY <1>4 DEF PreHit, request, building, Hit, FingerprintOf, Complete
<1>5. ASSUME NEW t \in Threads, PreMiss(t) PROVE Inductive'
  BY <1>5 DEF PreMiss, request, building, Complete, NoData
<1>6. ASSUME NEW t \in Threads, NEW s \in Sources, ReadSource(t, s) PROVE Inductive'
  <2>1. LockDiscipline'
    BY <1>6 DEF ReadSource, request
  <2>2. CoherentEntry' /\ EntryBehind'
    BY <1>6 DEF ReadSource, request
  <2>3. FreshAnswer'
    BY <1>6 DEF ReadSource, request
  <2>4. \A u \in Threads : BuilderReads(u)'
    BY <1>6 DEF ReadSource, request
  <2>5. \A u \in Threads : PreStamped(u)'
    BY <1>6 DEF ReadSource, request
  <2>6. \A u \in Threads : Stamping(u)'
    <3>1. pc[t] = "build" /\ data' = [data EXCEPT ![t] = data'[t]]
      BY <1>6 DEF ReadSource
    <3>2. ASSUME NEW u \in Threads, u # t PROVE data'[u] = data[u]
      BY <3>1, <3>2
    <3>. QED
      BY <1>6, <3>1, <3>2 DEF ReadSource, request
  <2>. QED
    BY <2>1, <2>2, <2>3, <2>4, <2>5, <2>6
<1>7. ASSUME NEW t \in Threads, BuildDone(t) PROVE Inductive'
  BY <1>7 DEF BuildDone, request
<1>8. ASSUME NEW t \in Threads, BuildBypassed(t) PROVE Inductive'
  BY <1>8 DEF BuildBypassed, request, building, Built
<1>9. ASSUME NEW t \in Threads, BuildRaises(t) PROVE Inductive'
  BY <1>9 DEF BuildRaises, request, building
<1>10. ASSUME NEW t \in Threads, PostHit(t) PROVE Inductive'
  BY <1>10 DEF PostHit, request, building, Hit, FingerprintOf, Complete
<1>11. ASSUME NEW t \in Threads, PostMiss(t) PROVE Inductive'
  <2>1. LockDiscipline'
    BY <1>11 DEF PostMiss, request, building, Built, FingerprintOf, Complete, Unmoved
  <2>2. CoherentEntry' /\ EntryBehind'
    <3>1. CASE cache' = cache
      BY <1>11, <3>1 DEF PostMiss
    <3>2. CASE /\ ok[t] /\ Unmoved(t)
               /\ cache' = [fp |-> FingerprintOf(t, pre[t]), payload |-> Built(t)]
      <4>1. \A s \in Stamped : /\ stamp[t][s] <= version[s]
                               /\ data[t][s] = {pre[t][s]}
                               /\ pre[t][s] = stamp[t][s]
        BY <1>11, <3>2, PinnedReads DEF PostMiss
      <4>. QED
        BY <1>11, <3>2, <4>1 DEF PostMiss, FingerprintOf, Built
    <3>. QED
      BY <1>11, <3>1, <3>2 DEF PostMiss
  <2>3. FreshAnswer'
    BY <1>11 DEF PostMiss, request, building, Built, FingerprintOf, Complete, Unmoved
  <2>4. \A u \in Threads : BuilderReads(u)'
    BY <1>11 DEF PostMiss, request, building, Built, FingerprintOf, Complete, Unmoved
  <2>5. \A u \in Threads : PreStamped(u)'
    BY <1>11 DEF PostMiss, request, building, Built, FingerprintOf, Complete, Unmoved
  <2>6. \A u \in Threads : Stamping(u)'
    BY <1>11 DEF PostMiss, request, building, Built, FingerprintOf, Complete, Unmoved
  <2>. QED
    BY <2>1, <2>2, <2>3, <2>4, <2>5, <2>6
<1>12. ASSUME NEW t \in Threads, Respond(t) PROVE Inductive'
  <2>1. LockDiscipline' /\ CoherentEntry' /\ EntryBehind'
    BY <1>12 DEF Respond
  <2>2. FreshAnswer'
    BY <1>12 DEF Respond
  <2>3. \A u \in Threads : BuilderReads(u)'
    BY <1>12 DEF Respond, NoData, Zero
  <2>4. \A u \in Threads : PreStamped(u)' /\ Stamping(u)'
    BY <1>12 DEF Respond
  <2>. QED
    BY <2>1, <2>2, <2>3, <2>4
<1>13. ASSUME NEW s \in Sources, CursorWrites(s) PROVE Inductive'
  <2>1. LockDiscipline'
    BY <1>13 DEF CursorWrites, request, building
  <2>0. \A r \in Sources : version[r] <= version'[r] /\ version[r] \in Int
    BY <1>13 DEF CursorWrites
  <2>2. CoherentEntry' /\ EntryBehind'
    <3>1. cache # None => \A r \in Stamped : cache.fp.stamp[r] \in Int
      BY EntryParts DEF Fingerprint
    <3>. QED
      BY <1>13, <2>0, <3>1 DEF CursorWrites
  <2>3. FreshAnswer'
    BY <1>13 DEF CursorWrites, request, building
  <2>4. \A u \in Threads : BuilderReads(u)'
    BY <1>13 DEF CursorWrites, request, building
  <2>5. \A u \in Threads : PreStamped(u)'
    BY <1>13 DEF CursorWrites, request, building
  <2>6. \A u \in Threads : Stamping(u)'
    BY <1>13 DEF CursorWrites, request, building
  <2>. QED
    BY <2>1, <2>2, <2>3, <2>4, <2>5, <2>6
<1>14. CASE UNCHANGED vars
  BY <1>14 DEF vars, request, building
<1>. QED
  BY <1>1, <1>2, <1>3, <1>4, <1>5, <1>6, <1>7, <1>8, <1>9, <1>10, <1>11, <1>12, <1>13, <1>14 DEF Next, Serve

\* The inductive invariant of the double-checked protocol.
THEOREM InductiveHolds == Spec => []Inductive
<1>1. Inductive /\ TypeOK' /\ [Next]_vars => Inductive'
  BY InductiveStep
<1>. QED
  BY InductiveInit, TypeCorrect, <1>1, PTL DEF Spec

-----------------------------------------------------------------------------
(* What follows from it.                                                   *)

\* A stored summary was read from exactly the file versions in its
\* fingerprint (_get_or_build_cached, the pre/post comparison).
THEOREM EntriesAreCoherent == Spec => []CoherentEntry
<1>1. Inductive => CoherentEntry
  BY DEF Inductive
<1>. QED
  BY InductiveHolds, <1>1, PTL

\* No request is answered with a fingerprinted source older than it was when
\* the request arrived, nor with another workspace's or rule set's summary.
THEOREM AnswersAreFresh == Spec => []FreshAnswer
<1>1. Inductive => FreshAnswer
  BY DEF Inductive
<1>. QED
  BY InductiveHolds, <1>1, PTL

\* At most one thread is inside a critical section of summary_cache.
THEOREM OneThreadInside == Spec => []LockDiscipline
<1>1. Inductive => LockDiscipline
  BY DEF Inductive
<1>. QED
  BY InductiveHolds, <1>1, PTL

\* Only PostMiss changes the file.
LEMMA OnlyPostMissWrites ==
  ASSUME Next, cache' # cache
  PROVE  \E t \in Threads :
            /\ PostMiss(t) /\ ok[t] /\ Unmoved(t)
            /\ cache' = [fp |-> FingerprintOf(t, pre[t]), payload |-> Built(t)]
BY DEF Next, Request, Serve, Acquire, StampSource, PreHit, PreMiss, BuildDone,
       BuildBypassed, BuildRaises, PostHit, PostMiss, Respond, ReadSource,
       CursorWrites

\* Within one process no entry is replaced by an older one or by one with the
\* same fingerprint (the lost update the lock is there to prevent).
THEOREM NoUpdateIsLost == Spec => NoLostUpdate
<1>1. Inductive /\ [Next]_vars => [cache # None => NewerEntry(cache, cache')]_cache
  <2>. SUFFICES ASSUME Inductive, Next, cache' # cache, cache # None
                PROVE  NewerEntry(cache, cache')
    BY DEF vars
  <2>1. PICK t \in Threads :
            /\ PostMiss(t) /\ ok[t] /\ Unmoved(t)
            /\ cache' = [fp |-> FingerprintOf(t, pre[t]), payload |-> Built(t)]
    BY OnlyPostMissWrites
  <2>2. pc[t] = "post" /\ Complete(t) /\ ~Hit(t)
    BY <2>1 DEF PostMiss, Goto
  <2>3. cache'.fp = FingerprintOf(t, stamp[t])
    BY <2>1 DEF Unmoved
  <2>4. cache.fp # cache'.fp
    BY <2>2, <2>3 DEF Hit
  <2>5. \A s \in Stamped : cache.fp.stamp[s] <= cache'.fp.stamp[s]
    BY <2>2, <2>3 DEF Inductive, Stamping, Complete, FingerprintOf
  <2>. QED
    BY <2>4, <2>5 DEF NewerEntry
<1>. QED
  BY InductiveHolds, <1>1, PTL DEF Spec, NoLostUpdate

-----------------------------------------------------------------------------
(* The protocol implements its contract.                                   *)

\* Moving one thread from one stage to another moves stageOf the same way.
LEMMA StageMoves ==
  ASSUME TypeOK, NEW t \in Threads, NEW from \in Stages, NEW to \in Stages,
         Goto(t, from, to), NEW abs \in {"idle", "pending", "done"},
         abs = IF to \in {"idle", "done"} THEN to ELSE "pending"
  PROVE  stageOf' = [stageOf EXCEPT ![t] = abs]
BY DEF TypeOK, Goto, stageOf

\* A stage within a request is invisible to the caller.
LEMMA StageStays ==
  ASSUME TypeOK, NEW t \in Threads, NEW from \in Stages, NEW to \in Stages,
         Goto(t, from, to), {from, to} \cap {"idle", "done"} = {}
  PROVE  stageOf' = stageOf
BY DEF TypeOK, Goto, stageOf

\* What the caller gets is admissible: current at some moment of its request.
LEMMA ReplyRefined ==
  ASSUME Inductive, NEW t \in Threads, NEW a \in Payload,
         pc[t] \in {"pre", "build", "post"}, pc' = [pc EXCEPT ![t] = "done"],
         answer' = [answer EXCEPT ![t] = a],
         a.scope = scope[t],
         \A s \in Stamped : \A v \in a.data[s] : floor[t][s] <= v /\ v <= version[s],
         UNCHANGED <<version, scope, floor>>
  PROVE  Contract!Reply(t)
<1>1. stageOf[t] = "pending" /\ stageOf' = [stageOf EXCEPT ![t] = "done"]
  BY DEF Inductive, TypeOK, stageOf
<1>2. a \in Contract!Payload
  BY DEF Contract!Payload, Payload, Contract!Version, Version
<1>. QED
  BY <1>1, <1>2 DEF Contract!Reply, Contract!Admissible

\* A hit is admissible although it was built by another request, perhaps
\* before this one arrived.
LEMMA HitIsAdmissible ==
  ASSUME Inductive, SummaryCacheAssumption, NEW t \in Threads,
         pc[t] \in {"pre", "post"}, Complete(t), Hit(t)
  PROVE  /\ cache.payload \in Payload
         /\ cache.payload.scope = scope[t]
         /\ \A s \in Stamped : \A v \in cache.payload.data[s] :
              floor[t][s] <= v /\ v <= version[s]
<1>1. cache # None /\ cache.payload \in Payload
  BY EntryParts DEF Hit, Inductive
<1>2. cache.fp.scope = scope[t] /\ cache.fp.stamp = stamp[t]
  BY DEF Hit, FingerprintOf
<1>3. \A s \in Stamped : cache.payload.data[s] = {stamp[t][s]}
  BY <1>1, <1>2 DEF Inductive, CoherentEntry
<1>4. \A s \in Stamped : floor[t][s] <= stamp[t][s] /\ stamp[t][s] <= version[s]
  BY DEF Inductive, Stamping, Complete
<1>5. cache.payload.scope = scope[t]
  BY <1>1, <1>2 DEF Inductive, CoherentEntry
<1>. QED
  BY <1>1, <1>3, <1>4, <1>5

\* So is what the thread built itself.
LEMMA BuiltIsAdmissible ==
  ASSUME Inductive, SummaryCacheAssumption, NEW t \in Threads, pc[t] # "idle"
  PROVE  /\ Built(t) \in Payload
         /\ Built(t).scope = scope[t]
         /\ \A s \in Stamped : \A v \in Built(t).data[s] :
              floor[t][s] <= v /\ v <= version[s]
<1>1. BuilderReads(t) /\ TypeOK /\ Stamped \subseteq Sources
  BY DEF Inductive, SummaryCacheAssumption
<1>2. scope[t] \in Scopes
  BY <1>1 DEF BuilderReads
<1>. QED
  BY <1>1, <1>2, BuiltIsPayload DEF Built, BuilderReads

\* summary_cache keeps CacheContract: every step of the locks, the file and
\* the fingerprints is a step of the contract or invisible to the callers.
THEOREM CacheImplementsContract == Spec => ImplementsContract
<1>1. Init => Contract!Init
  BY DEF Init, Contract!Init, stageOf, Contract!Version, Version, Contract!Zero, Zero
<1>2. Inductive /\ Inductive' /\ [Next]_vars => [Contract!Next]_(Contract!vars)
  <2>. SUFFICES ASSUME Inductive, [Next]_vars PROVE [Contract!Next]_(Contract!vars)
    OBVIOUS
  <2>. USE SummaryCacheAssumption DEF Stages
  <2>0. TypeOK
    BY DEF Inductive
  <2>1. ASSUME NEW t \in Threads, Request(t) PROVE Contract!Ask(t)
    <3>1. PICK to \in {"build", "lock_pre"} : Goto(t, "idle", to)
      BY <2>1 DEF Request
    <3>2. stageOf[t] = "idle" /\ stageOf' = [stageOf EXCEPT ![t] = "pending"]
      BY <2>0, <3>1, StageMoves DEF Goto, stageOf
    <3>. QED
      BY <2>1, <3>2 DEF Request, Contract!Ask
  <2>2. ASSUME NEW t \in Threads, Acquire(t) PROVE UNCHANGED Contract!vars
    BY <2>0, <2>2, StageStays DEF Acquire, Contract!vars, request, building
  <2>3. ASSUME NEW t \in Threads, NEW s \in Stamped, StampSource(t, s)
        PROVE  UNCHANGED Contract!vars
    BY <2>3 DEF StampSource, Contract!vars, request, building, stageOf
  <2>4. ASSUME NEW t \in Threads, PreHit(t) PROVE Contract!Reply(t)
    BY <2>4, HitIsAdmissible, ReplyRefined DEF PreHit, Goto, request
  <2>5. ASSUME NEW t \in Threads, PreMiss(t) PROVE UNCHANGED Contract!vars
    BY <2>0, <2>5, StageStays DEF PreMiss, Contract!vars, request, building
  <2>6. ASSUME NEW t \in Threads, NEW s \in Sources, ReadSource(t, s)
        PROVE  UNCHANGED Contract!vars
    BY <2>6 DEF ReadSource, Contract!vars, request, stageOf
  <2>7. ASSUME NEW t \in Threads, BuildDone(t) PROVE UNCHANGED Contract!vars
    BY <2>0, <2>7, StageStays DEF BuildDone, Contract!vars, request
  <2>8. ASSUME NEW t \in Threads, BuildBypassed(t) PROVE Contract!Reply(t)
    BY <2>8, BuiltIsAdmissible, ReplyRefined DEF BuildBypassed, Goto, request
  <2>9. ASSUME NEW t \in Threads, BuildRaises(t) PROVE Contract!Fail(t)
    <3>1. stageOf[t] = "pending" /\ stageOf' = [stageOf EXCEPT ![t] = "done"]
      BY <2>0, <2>9, StageMoves DEF BuildRaises, Goto, stageOf
    <3>. QED
      BY <2>9, <3>1 DEF BuildRaises, Contract!Fail, request
  <2>10. ASSUME NEW t \in Threads, PostHit(t) PROVE Contract!Reply(t)
    BY <2>10, HitIsAdmissible, ReplyRefined DEF PostHit, Goto, request
  <2>11. ASSUME NEW t \in Threads, PostMiss(t) PROVE Contract!Reply(t)
    BY <2>11, BuiltIsAdmissible, ReplyRefined DEF PostMiss, Goto, request
  <2>12. ASSUME NEW t \in Threads, Respond(t) PROVE Contract!Collect(t)
    <3>1. stageOf[t] = "done" /\ stageOf' = [stageOf EXCEPT ![t] = "idle"]
      BY <2>0, <2>12, StageMoves DEF Respond, Goto, stageOf
    <3>. QED
      BY <2>12, <3>1 DEF Respond, Contract!Collect, Contract!Zero, Zero
  <2>13. ASSUME NEW s \in Sources, CursorWrites(s) PROVE Contract!Write(s)
    BY <2>13 DEF CursorWrites, Contract!Write, stageOf, request
  <2>14. CASE UNCHANGED vars
    BY <2>14 DEF vars, Contract!vars, request, stageOf
  <2>. QED
    BY <2>1, <2>2, <2>3, <2>4, <2>5, <2>6, <2>7, <2>8, <2>9, <2>10, <2>11, <2>12,
       <2>13, <2>14 DEF Next, Serve, Contract!Next
<1>. QED
  BY <1>1, <1>2, InductiveHolds, PTL DEF Spec, ImplementsContract, Contract!Spec
=============================================================================
