\* The same workspaces on a POSIX host.
SPECIFICATION Spec
CONSTANTS
    w1 = w1
    w2 = w2
    w3 = w3
    c1 = c1
    c2 = c2
    Workspaces = {w1, w2, w3}
    Composers = {c1, c2}
    Names = {"top", "app", "core", "hidden", "hi"}
    Secret = {"hidden"}
    NameLength <- Names3
    Listing <- InOrder
    RowOrder <- Rows
    Host = "posix"
    None = None
    FolderChoices <- Windows
    RosterChoices <- Registers
    RowChoices <- RowsOf
    LayoutChoices <- Roots
    MessageChoices <- Says
    MaxWrites = 0
    MaxFaults = 0
INVARIANT InnermostOwns
