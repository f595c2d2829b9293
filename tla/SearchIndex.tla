----------------------------- MODULE SearchIndex -----------------------------
(***************************************************************************)
(* services/search_index.py: the local search index, rebuilt by one        *)
(* background thread per process into a new file, published through the    *)
(* pointer file search_index.active, after which older files are pruned.   *)
(*                                                                         *)
(* Cursor's global database is its version (0 while the file is missing).  *)
(* An index file holds the fingerprint stored in it and the versions of    *)
(* the composer rows and of the bubble rows it was filled from; those two  *)
(* are read by separate queries.  The processes share the cache directory  *)
(* and nothing else.  A file that is unlinked while a connection has a     *)
(* transaction open stays usable through that connection only.             *)
(***************************************************************************)
EXTENDS Integers, FiniteSets

CONSTANTS
    Procs,       \* server processes, each with its refresh thread
    Files,       \* names of index files (uuids; a name is reused only when
                 \* nothing refers to it any more)
    Windows,     \* TRUE where an open file can be neither replaced nor removed
    Legacy,      \* search_index.sqlite of an older version
    MaxVersion,  \* bound: how often Cursor rewrites the global database
    MaxFaults,   \* bound: crashes, failed builds, files that cannot be removed
    None

ASSUME SearchIndexAssumption ==
    /\ MaxVersion \in Nat /\ MaxFaults \in Nat /\ Windows \in BOOLEAN
    /\ Legacy \notin Files /\ None \notin Files \cup {Legacy}

VARIABLES
    version,     \* the global database
    exists,      \* index files in the cache directory
    content,     \* [Files -> Index], what was committed to each file
    pointer,     \* search_index.active: a file, or None when absent or empty
    pc,          \* where each refresh thread is
    fp,          \* fingerprint the thread compares or will store
    mine,        \* the file it is building, or None
    rows,        \* what its queries returned: composers and bubbles
    stale,       \* files its prune has still to unlink
    faults       \* crashes and failures so far

worker == <<fp, mine, rows, stale>>
vars == <<version, exists, content, pointer, pc, worker, faults>>

Version == 0 .. MaxVersion
Index == [done : BOOLEAN, fp : Version, composers : Version, bubbles : Version]
Blank == [done |-> FALSE, fp |-> 0, composers |-> 0, bubbles |-> 0]
NoRows == [composers |-> 0, bubbles |-> 0]

Steps == {"sleep", "ensure", "stamp", "recheck", "create", "composers", "bubbles",
          "commit", "publish", "truncated", "prune"}

TypeOK ==
    /\ version \in Version
    /\ exists \subseteq Files \cup {Legacy}
    /\ content \in [Files -> Index]
    /\ pointer \in Files \cup {None}
    /\ pc \in [Procs -> Steps]
    /\ fp \in [Procs -> Version]
    /\ mine \in [Procs -> Files \cup {None}]
    /\ rows \in [Procs -> [composers : Version, bubbles : Version]]
    /\ stale \in [Procs -> SUBSET (Files \cup {Legacy})]
    /\ faults \in 0 .. MaxFaults

Goto(p, from, to) == pc[p] = from /\ pc' = [pc EXCEPT ![p] = to]

Building == {"composers", "bubbles", "commit", "publish", "truncated"}

-----------------------------------------------------------------------------
(* Reading the index.                                                      *)

\* _resolve_active_index_db_path: the pointer's file if it is there, else the
\* legacy file if it is there.
Active ==
    IF pointer # None /\ pointer \in exists THEN pointer
    ELSE IF Legacy \in exists THEN Legacy ELSE None

\* Not _index_needs_rebuild: a committed index of this INDEX_VERSION with the
\* given fingerprint.  The legacy file has an older INDEX_VERSION.
Current(f, v) == f \in Files /\ content[f].done /\ content[f].fp = v

\* index_is_usable.
Usable == Current(Active, version)

-----------------------------------------------------------------------------
(* The refresh thread: ensure_search_index, then build_search_index.       *)

\* The poll interval has passed.  With no active file it builds at once, else
\* it first stamps the storage.
Wake(p) ==
    /\ Goto(p, "sleep", IF Active = None THEN "stamp" ELSE "ensure")
    /\ fp' = [fp EXCEPT ![p] = version]
    /\ UNCHANGED <<version, exists, content, pointer, mine, rows, stale, faults>>

\* The active file is resolved again and opened; one that is gone or does not
\* match the stamp means a rebuild.
Ensure(p) ==
    /\ Goto(p, "ensure", IF Current(Active, fp[p]) THEN "sleep" ELSE "stamp")
    /\ UNCHANGED <<version, exists, content, pointer, worker, faults>>

\* Mutant of Recheck: any active index will do.
RecheckExists(p) ==
    /\ Goto(p, "recheck", IF Active # None THEN "sleep" ELSE "create")
    /\ UNCHANGED <<version, exists, content, pointer, worker, faults>>

\* build_search_index stamps the storage before anything is read, and gives up
\* when there is no global database.
Stamp(p) ==
    /\ Goto(p, "stamp", IF version = 0 THEN "sleep" ELSE "recheck")
    /\ fp' = [fp EXCEPT ![p] = version]
    /\ UNCHANGED <<version, exists, content, pointer, mine, rows, stale, faults>>

Recheck(p) ==
    /\ Goto(p, "recheck", IF Current(Active, fp[p]) THEN "sleep" ELSE "create")
    /\ UNCHANGED <<version, exists, content, pointer, worker, faults>>

Fresh(f) ==
    /\ f \notin exists /\ pointer # f
    /\ \A q \in Procs : mine[q] # f /\ f \notin stale[q]

\* A new file with an empty schema.
Create(p) ==
    /\ Goto(p, "create", "composers")
    /\ \E f \in Files :
         /\ Fresh(f)
         /\ mine' = [mine EXCEPT ![p] = f]
         /\ exists' = exists \cup {f}
         /\ content' = [content EXCEPT ![f] = Blank]
    /\ UNCHANGED <<version, pointer, fp, rows, stale, faults>>

\* Another process pruned the file that is being filled.
Unlinked(p) == mine[p] \notin exists

\* The composer rows are fetched and the insertion transaction begins, which
\* SQLite refuses when the file was unlinked.
ReadComposers(p) ==
    /\ ~Unlinked(p)
    /\ Goto(p, "composers", "bubbles")
    /\ rows' = [rows EXCEPT ![p].composers = version]
    /\ UNCHANGED <<version, exists, content, pointer, fp, mine, stale, faults>>

ReadBubbles(p) ==
    /\ Goto(p, "bubbles", "commit")
    /\ rows' = [rows EXCEPT ![p].bubbles = version]
    /\ UNCHANGED <<version, exists, content, pointer, fp, mine, stale, faults>>

\* Mutant of Commit: the storage is stamped when the index is complete.
CommitStamps(p) ==
    /\ Goto(p, "commit", "publish")
    /\ content' = [content EXCEPT ![mine[p]] =
         [done |-> TRUE, fp |-> version,
          composers |-> rows[p].composers, bubbles |-> rows[p].bubbles]]
    /\ UNCHANGED <<version, exists, pointer, worker, faults>>

Commit(p) ==
    /\ Goto(p, "commit", "publish")
    /\ content' = [content EXCEPT ![mine[p]] =
         [done |-> TRUE, fp |-> fp[p],
          composers |-> rows[p].composers, bubbles |-> rows[p].bubbles]]
    /\ UNCHANGED <<version, exists, pointer, worker, faults>>

\* Mutants of Swing: the path resolved before the build is written; any index
\* file of the directory is; the new file is not exempt from pruning.
SwingResolved(p) ==
    /\ pointer' = Active
    /\ stale' = [stale EXCEPT ![p] = exists \ {mine[p]}]
    /\ UNCHANGED <<version, exists, content, fp, mine, rows, faults>>

SwingAny(p) ==
    /\ pointer' \in exists \ {Legacy}
    /\ stale' = [stale EXCEPT ![p] = exists \ {pointer'}]
    /\ UNCHANGED <<version, exists, content, fp, mine, rows, faults>>

SwingKeepsNone(p) ==
    /\ pointer' = mine[p]
    /\ stale' = [stale EXCEPT ![p] = exists]
    /\ UNCHANGED <<version, exists, content, fp, mine, rows, faults>>

\* _publish_active_index swings the pointer with a rename, then lists what
\* _prune_stale_index_files will remove.
Swing(p) ==
    /\ pointer' = mine[p]
    /\ stale' = [stale EXCEPT ![p] = exists \ {mine[p]}]
    /\ UNCHANGED <<version, exists, content, fp, mine, rows, faults>>

Publish(p) == Goto(p, "publish", "prune") /\ Swing(p)

\* The rename is refused while a reader has the pointer file open: the pointer
\* file is truncated, then written.
PublishTruncates(p) ==
    /\ Windows
    /\ Goto(p, "publish", "truncated")
    /\ pointer' = None
    /\ UNCHANGED <<version, exists, content, worker, faults>>

PublishRewrites(p) == Goto(p, "truncated", "prune") /\ Swing(p)

Prune(p, f) ==
    /\ pc[p] = "prune" /\ f \in stale[p]
    /\ stale' = [stale EXCEPT ![p] = @ \ {f}]
    /\ exists' = exists \ {f}
    /\ UNCHANGED <<version, content, pointer, pc, fp, mine, rows, faults>>

\* A file that is still open elsewhere is left to the next publication.
PruneRefused(p, f) ==
    /\ Windows
    /\ pc[p] = "prune" /\ f \in stale[p]
    /\ faults < MaxFaults
    /\ faults' = faults + 1
    /\ stale' = [stale EXCEPT ![p] = @ \ {f}]
    /\ UNCHANGED <<version, exists, content, pointer, pc, fp, mine, rows>>

Pruned(p) ==
    /\ stale[p] = {}
    /\ Goto(p, "prune", "sleep")
    /\ mine' = [mine EXCEPT ![p] = None]
    /\ rows' = [rows EXCEPT ![p] = NoRows]
    /\ UNCHANGED <<version, exists, content, pointer, fp, stale, faults>>

\* Any exception while building: the new file is removed, the thread sleeps.
Abandon(p) ==
    /\ pc[p] \in Building
    /\ pc' = [pc EXCEPT ![p] = "sleep"]
    /\ exists' = exists \ {mine[p]}
    /\ mine' = [mine EXCEPT ![p] = None]
    /\ rows' = [rows EXCEPT ![p] = NoRows]
    /\ UNCHANGED <<version, content, pointer, fp, stale>>

\* Disk full, database locked, or the file was unlinked.
BuildFails(p) ==
    /\ Unlinked(p) \/ faults < MaxFaults
    /\ Abandon(p)
    /\ faults' = IF Unlinked(p) THEN faults ELSE faults + 1

-----------------------------------------------------------------------------
(* The environment.                                                        *)

\* The process is killed and started again; its files stay behind.
Crash(p) ==
    /\ faults < MaxFaults
    /\ pc[p] # "sleep"
    /\ faults' = faults + 1
    /\ pc' = [pc EXCEPT ![p] = "sleep"]
    /\ mine' = [mine EXCEPT ![p] = None]
    /\ rows' = [rows EXCEPT ![p] = NoRows]
    /\ stale' = [stale EXCEPT ![p] = {}]
    /\ UNCHANGED <<version, exists, content, pointer, fp>>

CursorWrites ==
    /\ version < MaxVersion
    /\ version' = version + 1
    /\ UNCHANGED <<exists, content, pointer, pc, worker, faults>>

Init ==
    /\ version \in Version
    /\ exists \in {{}, {Legacy}}
    /\ content = [f \in Files |-> Blank]
    /\ pointer = None
    /\ pc = [p \in Procs |-> "sleep"]
    /\ fp = [p \in Procs |-> 0]
    /\ mine = [p \in Procs |-> None]
    /\ rows = [p \in Procs |-> NoRows]
    /\ stale = [p \in Procs |-> {}]
    /\ faults = 0

Refresh(p) ==
    \/ Wake(p) \/ Ensure(p) \/ Stamp(p) \/ Recheck(p) \/ Create(p)
    \/ ReadComposers(p) \/ ReadBubbles(p) \/ Commit(p)
    \/ Publish(p) \/ PublishTruncates(p) \/ PublishRewrites(p)
    \/ \E f \in Files \cup {Legacy} : Prune(p, f)
    \/ Pruned(p)

Next ==
    \/ \E p \in Procs : Refresh(p) \/ BuildFails(p) \/ Crash(p)
    \/ \E p \in Procs, f \in Files \cup {Legacy} : PruneRefused(p, f)
    \/ CursorWrites

Spec == Init /\ [][Next]_vars

\* The refresh thread polls for ever; faults and Cursor's writes need not happen.
FairSpec == Spec /\ \A p \in Procs : WF_vars(Refresh(p))

-----------------------------------------------------------------------------
(* Correctness.                                                            *)

\* An index whose fingerprint is the storage's present one was filled from the
\* present storage, although the fingerprint is stamped first and the two
\* queries run later: whoever index_is_usable lets in reads nothing stale.
CurrentIsFaithful ==
    \A f \in Files : Current(f, version) =>
        content[f].composers = version /\ content[f].bubbles = version

\* What the pointer names is there and complete: no reader is sent to a file
\* that was pruned or is still being filled, whatever crashed or failed.
ActiveIsComplete == pointer # None => pointer \in exists /\ content[pointer].done

\* A published index is never replaced by one of older storage.
NoRegress ==
    [][pointer # None /\ pointer' # None =>
         content[pointer].fp <= content'[pointer'].fp]_pointer

\* Once Cursor pauses and the faults are over, the index becomes usable and
\* stays so: the poll retries, and no leftover file stands in its way.
EventuallyUsable == <>[](version = 0 \/ Usable)

-----------------------------------------------------------------------------
(* The inductive invariants behind them.                                   *)

\* An index stored no row older than its fingerprint.
IndexOrdered(f) ==
    content[f].done =>
        /\ content[f].fp <= content[f].composers /\ content[f].composers <= version
        /\ content[f].fp <= content[f].bubbles /\ content[f].bubbles <= version

\* A build knows which file it fills.
Typed ==
    /\ TypeOK
    /\ \A p \in Procs : pc[p] \in Building => mine[p] \in Files

\* A build stamped before it read.
BuildOrdered(p) ==
    /\ fp[p] <= version
    /\ pc[p] \in Building \ {"composers"} =>
         fp[p] <= rows[p].composers /\ rows[p].composers <= version
    /\ pc[p] \in Building \ {"composers", "bubbles"} =>
         fp[p] <= rows[p].bubbles /\ rows[p].bubbles <= version

\* Whatever the other processes do: what is stored was read no earlier than
\* the fingerprint that goes with it was stamped.
Ordered ==
    /\ Typed
    /\ \A f \in Files : IndexOrdered(f)
    /\ \A p \in Procs : BuildOrdered(p)

\* One process has the cache directory to itself.
SingleProcess == \A p, q \in Procs : p = q

\* What the build of p may count on then.
Owned(p) ==
    /\ pc[p] # "prune" => stale[p] = {}
    /\ pc[p] \in Building => mine[p] \in exists /\ mine[p] # pointer
    /\ pc[p] \in {"publish", "truncated"} =>
         content[mine[p]].done /\ content[mine[p]].fp = fp[p]
    /\ pc[p] = "truncated" => pointer = None
    /\ pc[p] = "prune" => pointer \notin stale[p]
    /\ pointer # None /\ pc[p] \in Building \cup {"recheck", "create"} =>
         content[pointer].fp <= fp[p]

\* With one process on the cache directory the file being built is there until
\* it is published, and the one published is not among those being pruned.
Owner ==
    /\ Ordered
    /\ ActiveIsComplete
    /\ pointer # None => content[pointer].fp <= version
    /\ \A p \in Procs : Owned(p)
=============================================================================
