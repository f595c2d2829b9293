\* Workspaces beside, inside and of one folder, one that may have lost its own; a
\* write and a failing read anywhere.
SPECIFICATION Spec
CONSTANTS
    w1 = w1
    w2 = w2
    w3 = w3
    c1 = c1
    c2 = c2
    Workspaces = {w1, w2, w3}
    Composers = {c1, c2}
    Names = {"top", "app", "core", "hidden", "hi"}
    Secret = {"hidden"}
    NameLength <- Names3
    Listing <- InOrder
    RowOrder <- Rows
    Host = "win32"
    None = None
    FolderChoices <- Windows
    RosterChoices <- Registers
    RowChoices <- RowsOf
    LayoutChoices <- Roots
    MessageChoices <- Says
    MaxWrites = 1
    MaxFaults = 1
INVARIANT TypeOK
 
INVARIANT SummariesAgree
INVARIANT OpensWhatIsAnchored
INVARIANT TabsAreListed
INVARIANT NoOrphanOwns
INVARIANT InnermostOwns
CONSTRAINT Claimed
