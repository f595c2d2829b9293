--------------------------- MODULE MCBlobTraversal ---------------------------
(* Instances of BlobTraversal for TLC. *)
EXTENDS BlobTraversal, TLC

\* Up to two references a node, of any shape.
ShortLists == {<<>>} \cup {<<a>> : a \in Blobs} \cup {<<a, b>> : a \in Blobs, b \in Blobs}

AllGraphs == {g \in [Blobs -> ShortLists] : \A m \in Messages : g[m] = <<>>}

\* The first message named, reading the chain nodes in a fixed order, is a fixed
\* one: the other graphs differ from these in the names of messages only.
M1 == CHOOSE m \in Messages : TRUE
A1 == CHOOSE a \in Blobs \ Messages : TRUE
B1 == CHOOSE a \in Blobs \ Messages : a # A1
Named(g) == SelectSeq(g[A1] \o g[B1], LAMBDA x : x \in Messages)
Canonical == {g \in AllGraphs : Named(g) = <<>> \/ Head(Named(g)) = M1}
=============================================================================
