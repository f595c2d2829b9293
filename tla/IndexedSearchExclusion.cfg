\* The index is replaced between two queries of one search: the messages that a
\* rule should have matched are not read.
SPECIFICATION SearchSpec
CONSTANTS
    None = None
    Windows = FALSE
    Legacy = Legacy
    Procs = {p1}
    Files = {f1, f2, f3}
    MaxVersion = 2
    MaxFaults = 0
    Chats = {c1}
    Inline = {c1}
    Stories <- SteadyStories
SYMMETRY FileSymmetry
INVARIANT ExcludedNeverShown
