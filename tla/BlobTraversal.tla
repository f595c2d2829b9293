---------------------------- MODULE BlobTraversal ----------------------------
(***************************************************************************)
(* utils/cli_chat_reader.py, traverse_blobs: a CLI session is a store of   *)
(* blobs, each a message or a chain node that refers to other blobs, and a *)
(* root.  The reader takes the root, then loads the blobs in a second      *)
(* statement, and walks the graph breadth first, while the agent CLI may   *)
(* add a turn to the session at any time.                                  *)
(*                                                                         *)
(* Nothing is assumed of the graph: it may have cycles, shared nodes and   *)
(* repeated references.  Blobs are named by their content, so what a blob  *)
(* refers to never changes.                                                *)
(***************************************************************************)
EXTENDS Integers, Sequences, FiniteSets

CONSTANTS
    Blobs,     \* blob ids
    Messages,  \* those that decode to a message, classify_blob_data
    Graphs,    \* the reference lists considered
    None

ASSUME BlobAssumption ==
    /\ Messages \subseteq Blobs /\ None \notin Blobs
    /\ Graphs \subseteq [Blobs -> Seq(Blobs)]

VARIABLES
    refs,     \* [Blobs -> Seq(Blobs)], extract_blob_refs of each blob
    store,    \* blobs in the database
    root,     \* latestRootBlobId, None while there is no usable meta row
    pc,
    start,    \* root_id
    seen,     \* history: the store when root_id was read
    loaded,   \* json_blobs and chain_blobs
    queue,
    pending,  \* references of the node being expanded, still to be looked at
    visited,
    found,    \* messages, newest first
    result

session == <<refs, store, root>>
reader == <<pc, start, seen, loaded, queue, pending, visited, found, result>>
vars == <<session, reader>>

Elements(s) == {s[i] : i \in 1 .. Len(s)}

TypeOK ==
    /\ refs \in [Blobs -> Seq(Blobs)]
    /\ store \subseteq Blobs /\ root \in Blobs \cup {None}
    /\ pc \in {"idle", "load", "pop", "push", "done"}
    /\ start \in Blobs \cup {None}
    /\ seen \subseteq Blobs /\ loaded \subseteq Blobs /\ visited \subseteq Blobs
    /\ queue \in Seq(Blobs) /\ pending \in Seq(Blobs)
    /\ found \in Seq(Messages) /\ result \in Seq(Messages)

\* The chain nodes of a store, and the sets that contain what they refer to.
Chain(s) == s \ Messages
Closed(S, s) == \A b \in S \cap Chain(s) : Elements(refs[b]) \subseteq S

\* What can be reached from r in the store s: the least closed set.
Reach(r, s) == {b \in Blobs : \A S \in SUBSET Blobs : r \in S /\ Closed(S, s) => b \in S}

-----------------------------------------------------------------------------
(* The reader.                                                             *)

\* Without a readable meta row the session has no messages.
ReadMeta ==
    /\ pc = "idle"
    /\ pc' = IF root = None THEN "done" ELSE "load"
    /\ start' = root
    /\ seen' = store
    /\ UNCHANGED <<session, loaded, queue, pending, visited, found, result>>

\* Mutant of LoadBlobs: the references of the root go into the queue.
LoadSkipsRoot ==
    /\ pc = "load"
    /\ pc' = "pop"
    /\ loaded' = store
    /\ queue' = refs[start]
    /\ UNCHANGED <<session, start, seen, pending, visited, found, result>>

LoadBlobs ==
    /\ pc = "load"
    /\ pc' = "pop"
    /\ loaded' = store
    /\ queue' = <<start>>
    /\ UNCHANGED <<session, start, seen, pending, visited, found, result>>

\* Mutant of Skip: the id stays at the head of the queue.
SkipPeeks ==
    /\ pc = "pop" /\ queue # <<>> /\ Head(queue) \in visited
    /\ UNCHANGED vars

\* An id met before is dropped.
Skip ==
    /\ pc = "pop" /\ queue # <<>> /\ Head(queue) \in visited
    /\ queue' = Tail(queue)
    /\ UNCHANGED <<session, pc, start, seen, loaded, pending, visited, found, result>>

\* Mutants of Visit: what was visited before is visited again; whatever is in
\* the store is collected.
VisitAgain(b) ==
    /\ pc = "pop" /\ queue # <<>> /\ Head(queue) = b
    /\ visited' = visited \cup {b}
    /\ queue' = Tail(queue)
    /\ found' = IF b \in loaded \cap Messages THEN Append(found, b) ELSE found
    /\ pending' = IF b \in Chain(loaded) THEN refs[b] ELSE <<>>
    /\ pc' = "push"
    /\ UNCHANGED <<session, start, seen, loaded, result>>

VisitCollects(b) ==
    /\ pc = "pop" /\ queue # <<>> /\ Head(queue) = b /\ b \notin visited
    /\ visited' = visited \cup {b}
    /\ queue' = Tail(queue)
    /\ found' = IF b \in loaded THEN Append(found, b) ELSE found
    /\ pending' = IF b \in Chain(loaded) THEN refs[b] ELSE <<>>
    /\ pc' = "push"
    /\ UNCHANGED <<session, start, seen, loaded, result>>

\* A message is collected, a chain node is expanded, an id that is not in the
\* store is neither.
Visit(b) ==
    /\ pc = "pop" /\ queue # <<>> /\ Head(queue) = b /\ b \notin visited
    /\ visited' = visited \cup {b}
    /\ queue' = Tail(queue)
    /\ found' = IF b \in loaded \cap Messages THEN Append(found, b) ELSE found
    /\ pending' = IF b \in Chain(loaded) THEN refs[b] ELSE <<>>
    /\ pc' = "push"
    /\ UNCHANGED <<session, start, seen, loaded, result>>

\* Mutant of Push: a stack.
PushFront ==
    /\ pc = "push" /\ pending # <<>>
    /\ pending' = Tail(pending)
    /\ queue' = IF Head(pending) \in visited THEN queue ELSE <<Head(pending)>> \o queue
    /\ UNCHANGED <<session, pc, start, seen, loaded, visited, found, result>>

\* One reference of the node.
Push ==
    /\ pc = "push" /\ pending # <<>>
    /\ pending' = Tail(pending)
    /\ queue' = IF Head(pending) \in visited THEN queue ELSE Append(queue, Head(pending))
    /\ UNCHANGED <<session, pc, start, seen, loaded, visited, found, result>>

Pushed ==
    /\ pc = "push" /\ pending = <<>>
    /\ pc' = "pop"
    /\ UNCHANGED <<session, start, seen, loaded, queue, pending, visited, found, result>>

Reversed(s) == [i \in 1 .. Len(s) |-> s[Len(s) + 1 - i]]

\* The queue is empty: oldest first.
Finish ==
    /\ pc = "pop" /\ queue = <<>>
    /\ pc' = "done"
    /\ result' = Reversed(found)
    /\ UNCHANGED <<session, start, seen, loaded, queue, pending, visited, found>>

Return ==
    /\ pc = "done"
    /\ pc' = "idle"
    /\ start' = None /\ seen' = {} /\ loaded' = {} /\ visited' = {}
    /\ queue' = <<>> /\ pending' = <<>> /\ found' = <<>> /\ result' = <<>>
    /\ UNCHANGED session

Read ==
    \/ ReadMeta \/ LoadBlobs \/ Skip \/ (\E b \in Blobs : Visit(b))
    \/ Push \/ Pushed \/ Finish \/ Return

-----------------------------------------------------------------------------
(* The agent CLI commits a turn: new blobs and a root whose graph is there. *)

AgentWrites ==
    /\ \E s \in SUBSET Blobs, r \in Blobs :
         /\ store \subseteq s /\ store # s
         /\ Reach(r, s) \subseteq s
         /\ store' = s
         /\ root' = r
    /\ UNCHANGED <<refs, reader>>

Init ==
    /\ refs \in Graphs /\ store = {} /\ root = None
    /\ pc = "idle" /\ start = None /\ seen = {} /\ loaded = {} /\ visited = {}
    /\ queue = <<>> /\ pending = <<>> /\ found = <<>> /\ result = <<>>

Next == Read \/ AgentWrites

Spec == Init /\ [][Next]_vars

\* The reader runs by itself.
FairSpec == Spec /\ WF_vars(Read)

-----------------------------------------------------------------------------
(* Correctness.                                                            *)

\* The messages are those of the conversation whose root was read, all of them
\* and no others, whatever shape the graph has and although the agent may have
\* written between the two statements.
ExactlyReachable ==
    pc = "done" /\ start # None => Elements(result) = Messages \cap Reach(start, seen)

\* No message is listed twice, however many nodes refer to it.
OnceEach ==
    \A i, j \in 1 .. Len(result) : result[i] = result[j] => i = j

\* [n |-> what is at most n references from the root].
Within ==
    LET near[n \in Nat] ==
          IF n = 0 THEN {start}
          ELSE near[n - 1] \cup UNION {Elements(refs[b]) : b \in near[n - 1] \cap Chain(loaded)}
    IN  near

\* Conversation order: a message further down the chain comes before those
\* nearer to the root, so that a linked list comes out oldest first whichever
\* way round its nodes name the message and the next node.
OldestFirst ==
    \A i, j \in 1 .. Len(result), n \in 0 .. Cardinality(Blobs) :
        i < j /\ result[i] \in Within[n] => result[j] \in Within[n]

\* The walk ends although the graph may have cycles.
Terminates == pc = "load" ~> pc = "done"

-----------------------------------------------------------------------------
(* The inductive invariant behind them.                                    *)

\* The reader holds a root whose graph was there when it was read and still is.
Rooted ==
    /\ root # None => Reach(root, store) \subseteq store
    /\ pc = "load" => start # None
    /\ pc \in {"load", "pop", "push", "done"} /\ start # None =>
         seen \subseteq store /\ Reach(start, seen) \subseteq seen
    /\ pc \in {"pop", "push"} => start # None /\ seen \subseteq loaded

Ahead == visited \cup Elements(queue) \cup Elements(pending)

\* Half way through, what is not visited yet is ahead of the reader, and what
\* is ahead of it can be reached.
Walking ==
    pc \in {"pop", "push"} =>
        /\ start \in Ahead
        /\ Ahead \subseteq Reach(start, loaded)
        /\ \A b \in visited \cap Chain(loaded) : Elements(refs[b]) \subseteq Ahead
        /\ pc = "pop" => pending = <<>>
        /\ Elements(found) = visited \cap loaded \cap Messages

FoundOnce == \A i, j \in 1 .. Len(found) : found[i] = found[j] => i = j

Traversal ==
    /\ TypeOK /\ Rooted /\ Walking
    /\ FoundOnce /\ OnceEach /\ ExactlyReachable
    /\ pc \in {"idle", "load"} => found = <<>> /\ visited = {} /\ pending = <<>>
=============================================================================
