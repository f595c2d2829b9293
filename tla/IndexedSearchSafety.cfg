\* One search, one conversation with any history of two versions, the refresh
\* thread at any point of any rebuild.
SPECIFICATION SearchSpec
CONSTANTS
    None = None
    Windows = TRUE
    Legacy = Legacy
    Procs = {p1}
    Files = {f1, f2, f3}
    MaxVersion = 2
    MaxFaults = 0
    Chats = {c1}
    Inline = {}
    Stories <- MCStories
SYMMETRY FileSymmetry
INVARIANTS SearchTypeOK  ShownWasLive
