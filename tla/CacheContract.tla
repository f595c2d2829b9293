---------------------------- MODULE CacheContract ----------------------------
(***************************************************************************)
(* What a caller of services/summary_cache.py may rely on, with no lock,   *)
(* file or fingerprint in sight: every request is answered for the scope   *)
(* it asked about, and each tracked source is shown as it stood at some    *)
(* moment between the request and its answer.                              *)
(***************************************************************************)
EXTENDS Integers

CONSTANTS
    Threads,     \* the worker threads serving requests
    Scopes,      \* what a summary is about: workspace path and exclusion rules
    Sources,     \* the files a summary is built from
    Tracked,     \* the sources whose changes an answer must reflect
    MaxVersion,  \* bound: how often a source is rewritten
    None         \* no request, no answer

VARIABLES
    version,     \* [Sources -> Version], 0 while the file does not exist
    stage,       \* [Threads -> {"idle", "pending", "done"}]
    asked,       \* [Threads -> Scopes \cup {None}], the request being served
    floor,       \* [Threads -> [Sources -> Version]], storage when it arrived
    answer       \* [Threads -> Payload \cup {None}], None when it failed

vars == <<version, stage, asked, floor, answer>>

Version == 0 .. MaxVersion
Zero == [s \in Sources |-> 0]

\* A summary, by the versions of each source that were read to build it.
Payload == [scope : Scopes, data : [Sources -> SUBSET Version], ok : BOOLEAN]

\* The answers a request may get.
Admissible(t, a) ==
    /\ a.scope = asked[t]
    /\ \A s \in Tracked : \A v \in a.data[s] : floor[t][s] <= v /\ v <= version[s]

Write(s) ==
    /\ version[s] < MaxVersion
    /\ version' = [version EXCEPT ![s] = @ + 1]
    /\ UNCHANGED <<stage, asked, floor, answer>>

Ask(t) ==
    /\ stage[t] = "idle"
    /\ stage' = [stage EXCEPT ![t] = "pending"]
    /\ \E sc \in Scopes : asked' = [asked EXCEPT ![t] = sc]
    /\ floor' = [floor EXCEPT ![t] = version]
    /\ UNCHANGED <<version, answer>>

Reply(t) ==
    /\ stage[t] = "pending"
    /\ stage' = [stage EXCEPT ![t] = "done"]
    /\ \E a \in Payload : Admissible(t, a) /\ answer' = [answer EXCEPT ![t] = a]
    /\ UNCHANGED <<version, asked, floor>>

\* The build raised: the request ends without a payload.
Fail(t) ==
    /\ stage[t] = "pending"
    /\ stage' = [stage EXCEPT ![t] = "done"]
    /\ UNCHANGED <<version, asked, floor, answer>>

Collect(t) ==
    /\ stage[t] = "done"
    /\ stage' = [stage EXCEPT ![t] = "idle"]
    /\ asked' = [asked EXCEPT ![t] = None]
    /\ floor' = [floor EXCEPT ![t] = Zero]
    /\ answer' = [answer EXCEPT ![t] = None]
    /\ UNCHANGED version

Init ==
    /\ version \in [Sources -> Version]
    /\ stage = [t \in Threads |-> "idle"]
    /\ asked = [t \in Threads |-> None]
    /\ floor = [t \in Threads |-> Zero]
    /\ answer = [t \in Threads |-> None]

Next ==
    \/ \E s \in Sources : Write(s)
    \/ \E t \in Threads : Ask(t) \/ Reply(t) \/ Fail(t) \/ Collect(t)

Spec == Init /\ [][Next]_vars
=============================================================================
