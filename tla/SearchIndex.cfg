\* One process, three rewrites by Cursor, two faults at any step; no symmetry,
\* because of the liveness property.
SPECIFICATION FairSpec
CONSTANTS
    None = None
    Windows = TRUE
    Legacy = Legacy
    Procs = {p1}
    Files = {f1, f2, f3, f4}
    MaxVersion = 3
    MaxFaults = 2
INVARIANTS TypeOK CurrentIsFaithful ActiveIsComplete
PROPERTIES  EventuallyUsable
