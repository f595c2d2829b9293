\* Two threads, the global database and one workspace database, one rewrite of
\* each: every interleaving of two overlapping requests with Cursor's writes.
SPECIFICATION Spec
CONSTANTS
    None = None
    Threads = {t1, t2}
    Scopes = {a}
    Sources = {db, gdb}
    Global = gdb
    Stamped = {db, gdb}
    MaxVersion = 1
SYMMETRY ThreadSymmetry
INVARIANTS TypeOK CoherentEntry FreshAnswer Inductive
PROPERTY NoLostUpdate
