\* Every graph of two chain nodes with at most two references each, and two
\* messages, up to the names of the messages.
SPECIFICATION FairSpec
CONSTANTS
    None = None
    Blobs = {a, b, m, n}
    Messages = {m, n}
    Graphs <- Canonical
INVARIANTS TypeOK ExactlyReachable OnceEach OldestFirst
PROPERTY Terminates
