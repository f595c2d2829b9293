--------------------------- MODULE MCIndexedSearch ---------------------------
(* Instances of IndexedSearch for TLC. *)
EXTENDS IndexedSearch, TLC

FileSymmetry == Permutations(Files)

Gone == [row |-> "gone", text |-> "none", banned |-> FALSE]

\* The states of a conversation that a search tells apart.
Kinds == {Gone} \cup [row : {"plain"}, text : {"none", "word", "infix"}, banned : {FALSE}]
                \cup [row : {"match"}, text : {"none"}, banned : BOOLEAN]
                \cup [row : {"plain"}, text : {"word"}, banned : {TRUE}]

\* Nothing is there at version 0, the missing database.
MCStories ==
    {s \in [Version -> [Chats -> Kinds]] : \A c \in Chats : s[0][c] = Gone}

\* One conversation that does not change.
SteadyStories ==
    {s \in MCStories : \A v \in 1 .. MaxVersion : s[v] = s[1] /\ s[1] # s[0]}
=============================================================================
