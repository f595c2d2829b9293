\* The script and the download button overlap: IDE conversations, one of them
\* excluded by a rule.
SPECIFICATION Spec
CONSTANTS
    Torn = Torn
    Exporters = {e1, e2}
    Composers = {c1, c2}
    Sessions = {}
    Undated = {}
    Excluded = {c2}
    Modes <- AllRuns
    MaxClock = 2
    MaxFaults = 1
SYMMETRY ExporterSymmetry
INVARIANTS TypeOK  ManifestNamesFiles
