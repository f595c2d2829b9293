\* Two threads, two workspaces (or rule sets) taking turns in one cache file, the
\* contract as the abstract specification, and progress; no symmetry.
SPECIFICATION FairSpec
CONSTANTS
    None = None
    Threads = {t1, t2}
    Scopes = {a, b}
    Sources = {gdb}
    Global = gdb
    Stamped = {gdb}
    MaxVersion = 1
PROPERTIES ImplementsContract SomeoneAnswered
