------------------------------- MODULE MCExport -------------------------------
(* Instances of Export for TLC. *)
EXTENDS Export, TLC

ExporterSymmetry == Permutations(Exporters)

\* Runs of the script that cover everything, as archives or files.
FullRuns == [since : {"all", "last"}, composer : {TRUE}, out : {"zip", "files"}]
LastRuns == [since : {"last"}, composer : {TRUE}, out : {"files"}]
ZipRuns == [since : {"all", "last"}, composer : {TRUE}, out : {"zip"}]

\* The script and the download button.
Downloads == [since : {"all", "last"}, composer : {TRUE}, out : {"web"}]
AllRuns == FullRuns \cup Downloads
ZipsAndDownloads == ZipRuns \cup Downloads
=============================================================================
