---------------------------- MODULE SummaryCache ----------------------------
(***************************************************************************)
(* services/summary_cache.py: the disk cache of derived summaries and its  *)
(* double-checked protocol _get_or_build_cached, as run by the threads of  *)
(* one process while Cursor keeps rewriting the files the summaries are    *)
(* built from.                                                             *)
(*                                                                         *)
(* Each of the four caches (project list, composer map, workspace aliases, *)
(* tab summaries of one workspace) is one JSON file run by this protocol.  *)
(* A source file is its version; its modification time stands for that     *)
(* version (0 while the file is missing).  A payload is the set of         *)
(* versions of each source that its builder read.                          *)
(***************************************************************************)
EXTENDS Integers

CONSTANTS
    Threads,     \* WSGI worker threads of the process
    Scopes,      \* pairs of a workspace path and an exclusion-rules digest
    Sources,     \* the files a builder reads
    Global,      \* globalStorage/state.vscdb, stamped after the workspace files
    Stamped,     \* the sources that contribute a time to the fingerprint
    MaxVersion,  \* bound: how often a source is rewritten
    None

ASSUME SummaryCacheAssumption ==
    /\ Stamped \subseteq Sources
    /\ MaxVersion \in Nat
    /\ None \notin Threads

VARIABLES
    version,     \* [Sources -> Version]: Cursor's files
    cache,       \* the JSON file: [fp, payload], or None
    lock,        \* holder of _summary_cache_lock, or None
    pc,          \* where each thread is in _get_or_build_cached
    bypass,      \* nocache was asked for
    scope,       \* workspace_path and rules of the request
    floor,       \* history: the sources when the request arrived
    stamp,       \* the fingerprint being computed, None where not yet taken
    pre,         \* pre_fingerprint
    data,        \* the versions the builder has read so far
    ok,          \* should_cache(built)
    answer       \* the payload returned, None when the builder raised

request == <<bypass, scope, floor>>
building == <<data, ok>>
vars == <<version, cache, lock, pc, request, stamp, pre, building, answer>>

Version == 0 .. MaxVersion
Zero == [s \in Sources |-> 0]
NoStamp == [s \in Stamped |-> None]
NoData == [s \in Sources |-> {}]

Fingerprint == [scope : Scopes, stamp : [Stamped -> Version]]
Payload == [scope : Scopes, data : [Sources -> SUBSET Version], ok : BOOLEAN]
Entry == [fp : Fingerprint, payload : Payload]

Stages == {"idle", "lock_pre", "pre", "build", "lock_post", "post", "done"}

TypeOK ==
    /\ version \in [Sources -> Version]
    /\ cache \in Entry \cup {None}
    /\ lock \in Threads \cup {None}
    /\ pc \in [Threads -> Stages]
    /\ bypass \in [Threads -> BOOLEAN]
    /\ scope \in [Threads -> Scopes \cup {None}]
    /\ floor \in [Threads -> [Sources -> Version]]
    /\ stamp \in [Threads -> [Stamped -> Version \cup {None}]]
    /\ pre \in [Threads -> [Stamped -> Version \cup {None}]]
    /\ data \in [Threads -> [Sources -> SUBSET Version]]
    /\ ok \in [Threads -> BOOLEAN]
    /\ answer \in [Threads -> Payload \cup {None}]

Goto(t, from, to) == pc[t] = from /\ pc' = [pc EXCEPT ![t] = to]

-----------------------------------------------------------------------------
(* The fingerprint.                                                        *)

\* The workspace files are stamped by a thread pool, in any order, and the
\* global database once the pool has joined.
Stampable(t, s) ==
    /\ stamp[t][s] = None
    /\ s = Global => \A w \in Stamped \ {Global} : stamp[t][w] # None

StampSource(t, s) ==
    /\ pc[t] \in {"pre", "post"}
    /\ Stampable(t, s)
    /\ stamp' = [stamp EXCEPT ![t][s] = version[s]]
    /\ UNCHANGED <<version, cache, lock, pc, request, pre, building, answer>>

\* Mutant of Complete: the thread pool is not joined.
CompleteUnjoined(t) == TRUE

Complete(t) == \A s \in Stamped : stamp[t][s] # None

FingerprintOf(t, st) == [scope |-> scope[t], stamp |-> st]

\* Mutants of Hit: an entry is served whatever the storage is now; the rules
\* digest and the workspace path are left out of the comparison.
HitUnstamped(t) == cache # None /\ cache.fp.scope = scope[t]
HitAnyScope(t) == cache # None /\ cache.fp.stamp = stamp[t]

\* get_unlocked(fingerprint) is not None.
Hit(t) == cache # None /\ cache.fp = FingerprintOf(t, stamp[t])

-----------------------------------------------------------------------------
(* _get_or_build_cached.                                                   *)

\* The route collects the workspace folders and calls the cache, or builds
\* at once when nocache is on.
Request(t) ==
    /\ \E b \in BOOLEAN :
         /\ bypass' = [bypass EXCEPT ![t] = b]
         /\ Goto(t, "idle", IF b THEN "build" ELSE "lock_pre")
    /\ \E sc \in Scopes : scope' = [scope EXCEPT ![t] = sc]
    /\ floor' = [floor EXCEPT ![t] = version]
    /\ UNCHANGED <<version, cache, lock, stamp, pre, building, answer>>

Acquire(t) ==
    /\ lock = None
    /\ lock' = t
    /\ Goto(t, "lock_pre", "pre") \/ Goto(t, "lock_post", "post")
    /\ stamp' = [stamp EXCEPT ![t] = NoStamp]
    /\ UNCHANGED <<version, cache, request, pre, building, answer>>

\* First critical section: a hit is the answer.
PreHit(t) ==
    /\ Goto(t, "pre", "done")
    /\ Complete(t) /\ Hit(t)
    /\ answer' = [answer EXCEPT ![t] = cache.payload]
    /\ lock' = None
    /\ UNCHANGED <<version, cache, request, stamp, pre, building>>

\* Mutant of PreMiss: the build runs inside the lock, which is not reentrant.
PreMissLocked(t) ==
    /\ Goto(t, "pre", "build")
    /\ Complete(t) /\ ~Hit(t)
    /\ pre' = [pre EXCEPT ![t] = stamp[t]]
    /\ UNCHANGED <<version, cache, lock, request, stamp, building, answer>>

PreMiss(t) ==
    /\ Goto(t, "pre", "build")
    /\ Complete(t) /\ ~Hit(t)
    /\ pre' = [pre EXCEPT ![t] = stamp[t]]
    /\ lock' = None
    /\ UNCHANGED <<version, cache, request, stamp, building, answer>>

\* The builder opens each source for itself, some of them several times, in
\* an order that differs between the four caches.
ReadSource(t, s) ==
    /\ pc[t] = "build"
    /\ data' = [data EXCEPT ![t][s] = @ \cup {version[s]}]
    /\ UNCHANGED <<version, cache, lock, pc, request, stamp, pre, ok, answer>>

Built(t) == [scope |-> scope[t], data |-> data[t], ok |-> ok[t]]

BuildDone(t) ==
    /\ ~bypass[t]
    /\ Goto(t, "build", "lock_post")
    /\ \A s \in Sources : data[t][s] # {}
    /\ \E b \in BOOLEAN : ok' = [ok EXCEPT ![t] = b]
    /\ UNCHANGED <<version, cache, lock, request, stamp, pre, data, answer>>

\* nocache: the built payload is returned and nothing is stored.
BuildBypassed(t) ==
    /\ bypass[t]
    /\ Goto(t, "build", "done")
    /\ \A s \in Sources : data[t][s] # {}
    /\ answer' = [answer EXCEPT ![t] = Built(t)]
    /\ UNCHANGED <<version, cache, lock, request, stamp, pre, building>>

\* The builder raises, outside the lock; the route answers with an error.
BuildRaises(t) ==
    /\ Goto(t, "build", "done")
    /\ UNCHANGED <<version, cache, lock, request, stamp, pre, building, answer>>

\* Second critical section: a peer's entry wins over what was just built.
PostHit(t) ==
    /\ Goto(t, "post", "done")
    /\ Complete(t) /\ Hit(t)
    /\ answer' = [answer EXCEPT ![t] = cache.payload]
    /\ lock' = None
    /\ UNCHANGED <<version, cache, request, stamp, pre, building>>

\* Mutant of Unmoved: the second fingerprint is not compared with the first.
UnmovedUnchecked(t) == TRUE

Unmoved(t) == stamp[t] = pre[t]

\* The file is replaced in one rename, or kept when the write fails (OSError
\* is only logged).
PostMiss(t) ==
    /\ Goto(t, "post", "done")
    /\ Complete(t) /\ ~Hit(t)
    /\ \/ /\ ok[t] /\ Unmoved(t)
          /\ cache' = [fp |-> FingerprintOf(t, pre[t]), payload |-> Built(t)]
       \/ cache' = cache
    /\ answer' = [answer EXCEPT ![t] = Built(t)]
    /\ lock' = None
    /\ UNCHANGED <<version, request, stamp, pre, building>>

\* The response is sent and the thread returns to the pool.
Respond(t) ==
    /\ Goto(t, "done", "idle")
    /\ bypass' = [bypass EXCEPT ![t] = FALSE]
    /\ scope' = [scope EXCEPT ![t] = None]
    /\ floor' = [floor EXCEPT ![t] = Zero]
    /\ stamp' = [stamp EXCEPT ![t] = NoStamp]
    /\ pre' = [pre EXCEPT ![t] = NoStamp]
    /\ data' = [data EXCEPT ![t] = NoData]
    /\ ok' = [ok EXCEPT ![t] = FALSE]
    /\ answer' = [answer EXCEPT ![t] = None]
    /\ UNCHANGED <<version, cache, lock>>

\* Cursor rewrites one of its files.
CursorWrites(s) ==
    /\ version[s] < MaxVersion
    /\ version' = [version EXCEPT ![s] = @ + 1]
    /\ UNCHANGED <<cache, lock, pc, request, stamp, pre, building, answer>>

-----------------------------------------------------------------------------
Init ==
    /\ version \in [Sources -> Version]
    /\ cache = None
    /\ lock = None
    /\ pc = [t \in Threads |-> "idle"]
    /\ bypass = [t \in Threads |-> FALSE]
    /\ scope = [t \in Threads |-> None]
    /\ floor = [t \in Threads |-> Zero]
    /\ stamp = [t \in Threads |-> NoStamp]
    /\ pre = [t \in Threads |-> NoStamp]
    /\ data = [t \in Threads |-> NoData]
    /\ ok = [t \in Threads |-> FALSE]
    /\ answer = [t \in Threads |-> None]

\* The steps of a request once it has begun.
Serve(t) ==
    \/ Acquire(t)
    \/ \E s \in Stamped : StampSource(t, s)
    \/ PreHit(t) \/ PreMiss(t)
    \/ BuildDone(t) \/ BuildBypassed(t) \/ BuildRaises(t)
    \/ PostHit(t) \/ PostMiss(t)
    \/ Respond(t)

Next ==
    \/ \E t \in Threads : Request(t) \/ Serve(t)
    \/ \E t \in Threads, s \in Sources : ReadSource(t, s)
    \/ \E s \in Sources : CursorWrites(s)

Spec == Init /\ [][Next]_vars

\* A thread that can take its next step does; callers and Cursor need not act.
Fairness ==
    /\ \A t \in Threads : WF_vars(Serve(t))
    /\ \A t \in Threads, s \in Sources : WF_vars(ReadSource(t, s))

FairSpec == Spec /\ Fairness

-----------------------------------------------------------------------------
(* Correctness.                                                            *)

\* The lock is held by exactly the thread inside a critical section, so
\* fingerprint, comparison and write are one unit to every other thread.
LockDiscipline ==
    \A t \in Threads : pc[t] \in {"pre", "post"} <=> lock = t

\* The stored payload was read entirely from the sources its fingerprint
\* names, although the fingerprint is stamped file by file, the builder reads
\* outside the lock and Cursor may write between any two of those steps.
CoherentEntry ==
    cache # None =>
        /\ cache.payload.scope = cache.fp.scope
        /\ cache.payload.ok
        /\ \A s \in Stamped : cache.payload.data[s] = {cache.fp.stamp[s]}

\* An answer is about what was asked and shows every fingerprinted source at
\* a version no older than when the request arrived.
FreshAnswer ==
    \A t \in Threads : pc[t] = "done" /\ answer[t] # None =>
        /\ answer[t].scope = scope[t]
        /\ \A s \in Stamped : \A v \in answer[t].data[s] : floor[t][s] <= v

\* The same of every source the builder reads, fingerprinted or not.
FreshFromEverySource ==
    \A t \in Threads : pc[t] = "done" /\ answer[t] # None =>
        \A s \in Sources : \A v \in answer[t].data[s] : floor[t][s] <= v

\* Lost update (the comment on _summary_cache_lock): a thread whose build was
\* overtaken never puts its older entry over a peer's newer one, and an entry
\* is never rewritten for a fingerprint it already had.
NewerEntry(old, new) ==
    old.fp.scope = new.fp.scope =>
        /\ old.fp # new.fp
        /\ \A s \in Stamped : old.fp.stamp[s] <= new.fp.stamp[s]

NoLostUpdate == [][cache # None => NewerEntry(cache, cache')]_cache

\* The inductive invariant behind them, in parts.  Time flows from the arrival
\* of the request (floor) over pre_fingerprint, the builder's reads and
\* post_fingerprint to the sources as they are now.
BuilderReads(t) ==
    /\ bypass[t] => pc[t] \in {"idle", "build", "done"}
    /\ pc[t] # "idle" => scope[t] \in Scopes
    /\ pc[t] # "done" => answer[t] = None
    /\ pc[t] \in {"idle", "lock_pre", "pre"} => data[t] = NoData
    /\ pc[t] \in {"lock_post", "post"} => \A s \in Sources : data[t][s] # {}
    /\ \A s \in Sources :
         /\ floor[t][s] <= version[s]
         /\ \A v \in data[t][s] : floor[t][s] <= v /\ v <= version[s]

PreStamped(t) ==
    pc[t] \in {"build", "lock_post", "post"} /\ ~bypass[t] =>
        \A s \in Stamped :
            /\ pre[t][s] # None /\ pre[t][s] <= version[s]
            /\ \A v \in data[t][s] : pre[t][s] <= v

Stamping(t) ==
    pc[t] \in {"pre", "post"} =>
        \A s \in Stamped : stamp[t][s] # None =>
            /\ floor[t][s] <= stamp[t][s] /\ stamp[t][s] <= version[s]
            /\ cache # None => cache.fp.stamp[s] <= stamp[t][s]
            /\ \A v \in data[t][s] : v <= stamp[t][s]

EntryBehind ==
    cache # None => \A s \in Stamped : cache.fp.stamp[s] <= version[s]

Inductive ==
    /\ TypeOK
    /\ LockDiscipline
    /\ CoherentEntry
    /\ EntryBehind
    /\ FreshAnswer
    /\ \A t \in Threads : BuilderReads(t) /\ PreStamped(t) /\ Stamping(t)

\* What the protocol promises its callers.
stageOf == [t \in Threads |->
              IF pc[t] \in {"idle", "done"} THEN pc[t] ELSE "pending"]

Contract == INSTANCE CacheContract
              WITH Tracked <- Stamped, stage <- stageOf, asked <- scope

ImplementsContract == Contract!Spec

\* The threads cannot all be stuck, and none keeps the lock from the others:
\* while a request is open one gets answered.
SomeoneAnswered ==
    (\E t \in Threads : pc[t] # "idle") ~> (\E t \in Threads : pc[t] = "done")
=============================================================================
