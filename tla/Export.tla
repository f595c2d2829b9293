-------------------------------- MODULE Export --------------------------------
(***************************************************************************)
(* Incremental export: scripts/export.py (zip archive or files) and POST   *)
(* /api/export (a download), both on services/export_engine.py and both    *)
(* keeping lastExportTime in export_state.json.  Several exports may       *)
(* overlap, be killed between any two steps, and meet Cursor writing.      *)
(*                                                                         *)
(* A conversation is the time of its last change, 0 while there is none.   *)
(* Time advances with every change, so a change is later than a saved time *)
(* exactly when it came after it: no two fall on one millisecond.          *)
(***************************************************************************)
EXTENDS Integers, FiniteSets

CONSTANTS
    Exporters,    \* runs of the script and requests to the route
    Composers,    \* IDE conversations in the global database
    Sessions,     \* Cursor CLI sessions, a database file each
    Undated,      \* composers without lastUpdatedAt
    Excluded,     \* conversations an exclusion rule matches
    Modes,        \* the ways an export may be asked for
    MaxClock,     \* bound: changes of conversations
    MaxFaults,    \* bound: killed exports
    Torn          \* export_state.json while it is being written

Chats == Composers \cup Sessions
Time == 0 .. MaxClock
Mode == [since : {"all", "last"}, composer : BOOLEAN, out : {"zip", "files", "web"}]

ASSUME ExportAssumption ==
    /\ MaxClock \in Nat /\ MaxFaults \in Nat
    /\ Composers \cap Sessions = {} /\ Undated \subseteq Composers
    /\ Excluded \subseteq Chats /\ Modes \subseteq Mode /\ Modes # {}
    /\ Torn \notin Time

VARIABLES
    clock,
    updated,     \* [Chats -> Time], last change of each conversation
    quiet,       \* history: those whose last change met no running export
    state,       \* lastExportTime on disk, 0 when there is no file
    delivered,   \* history: newest version of each the user has received
    files,       \* newest version of each in the Markdown files
    manifest,    \* [Manifests -> ...], version of each entry, 0 when none
    pc, mode,
    last,        \* last_export_ms of the run
    bubbles,     \* versions of the messages it loaded
    entries,     \* what it collected: version per conversation
    todo,        \* sessions to look at, entries to write
    held,        \* manifest in memory
    saving,      \* the time it is about to save
    faults

disk == <<state, files, manifest>>
run == <<mode, last, bubbles, entries, todo, held, saving>>
vars == <<clock, updated, quiet, delivered, disk, pc, run, faults>>

Nothing == [c \in Chats |-> 0]
NoMode == CHOOSE m \in Modes : TRUE
Entry == [chat : Chats, version : Time]

\* manifest.jsonl of the output directory and of the state directory.
Manifests == {"out", "global"}

Steps == {"idle", "bubbles", "rows", "sessions", "blobs", "write", "zipping",
          "loaded", "partial", "listed", "global_loaded", "global_partial",
          "save", "saving", "respond"}

TypeOK ==
    /\ clock \in Time
    /\ updated \in [Chats -> Time] /\ quiet \subseteq Chats
    /\ state \in Time \cup {Torn}
    /\ delivered \in [Chats -> Time] /\ files \in [Chats -> Time]
    /\ manifest \in [Manifests -> [Chats -> Time]]
    /\ pc \in [Exporters -> Steps] /\ mode \in [Exporters -> Modes]
    /\ last \in [Exporters -> Time] /\ saving \in [Exporters -> Time]
    /\ bubbles \in [Exporters -> [Chats -> Time]]
    /\ held \in [Exporters -> [Chats -> Time]]
    /\ entries \in [Exporters -> SUBSET Entry]
    /\ todo \in [Exporters -> SUBSET Chats]
    /\ faults \in 0 .. MaxFaults

Goto(e, from, to) == pc[e] = from /\ pc' = [pc EXCEPT ![e] = to]

Newer(a, b) == IF a < b THEN b ELSE a

\* f with the versions of the entries es where they are newer.
With(f, es) ==
    [c \in Chats |-> LET vs == {x.version : x \in {y \in es : y.chat = c}}
                     IN  IF vs = {} THEN f[c] ELSE Newer(f[c], CHOOSE v \in vs : TRUE)]

Names(es) == {x.chat : x \in es}
Of(es, c) == {x \in es : x.chat = c}

-----------------------------------------------------------------------------
(* Collecting, collect_export_entries.                                     *)

\* Mutant of LastExport: what is read is believed.
LastExportUnchecked == state

\* An unreadable state file means a full export.
LastExport == IF state = Torn THEN 0 ELSE state

Begin(e) ==
    /\ pc[e] = "idle"
    /\ \E m \in Modes :
         /\ mode' = [mode EXCEPT ![e] = m]
         /\ last' = [last EXCEPT ![e] = IF m.since = "last" THEN LastExport ELSE 0]
         /\ pc' = [pc EXCEPT ![e] = IF m.composer THEN "bubbles" ELSE "sessions"]
    /\ todo' = [todo EXCEPT ![e] = Sessions]
    /\ UNCHANGED <<clock, updated, quiet, delivered, disk, bubbles, entries, held, saving, faults>>

\* The messages are loaded before the composer rows.
ReadBubbles(e) ==
    /\ Goto(e, "bubbles", "rows")
    /\ bubbles' = [bubbles EXCEPT ![e] = [c \in Chats |-> IF c \in Composers THEN updated[c] ELSE 0]]
    /\ UNCHANGED <<clock, updated, quiet, delivered, disk, mode, last, entries, todo, held, saving, faults>>

\* to_epoch_ms(lastUpdatedAt).
Stamp(c) == IF c \in Undated THEN 0 ELSE updated[c]

\* since == "last" and updated_at <= last_export_ms: skipped.
Wanted(e, c) ==
    /\ updated[c] # 0 /\ c \notin Excluded
    /\ mode[e].since = "last" => Stamp(c) > last[e]

ReadRows(e) ==
    /\ Goto(e, "rows", "sessions")
    /\ entries' = [entries EXCEPT ![e] =
         {[chat |-> c, version |-> bubbles[e][c]] : c \in {d \in Composers : Wanted(e, d)}}]
    /\ UNCHANGED <<clock, updated, quiet, delivered, disk, mode, last, bubbles, todo, held, saving, faults>>

\* A session is looked at: its file time decides.  The route leaves sessions out.
StampSession(e, c) ==
    /\ mode[e].out # "web" /\ c \in todo[e]
    /\ IF Wanted(e, c)
         THEN /\ Goto(e, "sessions", "blobs")
              /\ entries' = [entries EXCEPT ![e] = @ \cup {[chat |-> c, version |-> 0]}]
              /\ UNCHANGED todo
         ELSE /\ pc[e] = "sessions"
              /\ todo' = [todo EXCEPT ![e] = @ \ {c}]
              /\ UNCHANGED <<pc, entries>>
    /\ UNCHANGED <<clock, updated, quiet, delivered, disk, mode, last, bubbles, held, saving, faults>>

\* Then its blobs are read.
ReadSession(e, c) ==
    /\ Goto(e, "blobs", "sessions")
    /\ c \in todo[e] \cap Names(entries[e])
    /\ todo' = [todo EXCEPT ![e] = @ \ {c}]
    /\ entries' = [entries EXCEPT ![e] =
         (@ \ Of(@, c)) \cup {[chat |-> c, version |-> updated[c]]}]
    /\ UNCHANGED <<clock, updated, quiet, delivered, disk, mode, last, bubbles, held, saving, faults>>

\* The local variables of a run are gone when it ends.
Forget(e) ==
    /\ pc' = [pc EXCEPT ![e] = "idle"]
    /\ last' = [last EXCEPT ![e] = 0]
    /\ bubbles' = [bubbles EXCEPT ![e] = Nothing]
    /\ entries' = [entries EXCEPT ![e] = {}]
    /\ todo' = [todo EXCEPT ![e] = {}]
    /\ held' = [held EXCEPT ![e] = Nothing]
    /\ saving' = [saving EXCEPT ![e] = 0]
    /\ mode' = [mode EXCEPT ![e] = NoMode]

Collecting(e) == pc[e] = "sessions" /\ (mode[e].out # "web" => todo[e] = {})

\* Nothing found: the run ends and leaves the state file as it was.
NothingFound(e) ==
    /\ Collecting(e) /\ entries[e] = {}
    /\ Forget(e)
    /\ UNCHANGED <<clock, updated, quiet, delivered, disk, faults>>

Collected(e) ==
    /\ Collecting(e) /\ entries[e] # {}
    /\ pc' = [pc EXCEPT ![e] = IF mode[e].out = "web" THEN "save" ELSE "write"]
    /\ todo' = [todo EXCEPT ![e] = Names(entries[e])]
    /\ UNCHANGED <<clock, updated, quiet, delivered, disk, mode, last, bubbles, entries, held, saving, faults>>

-----------------------------------------------------------------------------
(* Writing, scripts/export.py main.                                        *)

\* The archive of the day is opened for writing.  Runs that overlap are taken
\* not to fill one archive at the same time, which would garble it.
OpenZip(e) ==
    /\ mode[e].out = "zip" /\ \A d \in Exporters : pc[d] # "zipping"
    /\ Goto(e, "write", "zipping")
    /\ UNCHANGED <<clock, updated, quiet, delivered, disk, run, faults>>

CloseZip(e) ==
    /\ Goto(e, "zipping", "save")
    /\ delivered' = With(delivered, entries[e])
    /\ UNCHANGED <<clock, updated, quiet, disk, run, faults>>

WriteFile(e, c) ==
    /\ pc[e] = "write" /\ mode[e].out = "files" /\ c \in todo[e]
    /\ todo' = [todo EXCEPT ![e] = @ \ {c}]
    /\ files' = With(files, Of(entries[e], c))
    /\ delivered' = With(delivered, Of(entries[e], c))
    /\ UNCHANGED <<clock, updated, quiet, state, manifest,
                   pc, mode, last, bubbles, entries, held, saving, faults>>

\* Mutant of LoadManifest: a file that cannot be written is passed over.
LoadManifestEarly(e, m, from, to) ==
    /\ mode[e].out = "files"
    /\ Goto(e, from, to)
    /\ held' = [held EXCEPT ![e] = With(manifest[m], entries[e])]
    /\ UNCHANGED <<clock, updated, quiet, delivered, disk,
                   mode, last, bubbles, entries, todo, saving, faults>>

\* Once all files are there a manifest is loaded and merged in memory.
LoadManifest(e, m, from, to) ==
    /\ mode[e].out = "files" /\ todo[e] = {}
    /\ Goto(e, from, to)
    /\ held' = [held EXCEPT ![e] = With(manifest[m], entries[e])]
    /\ UNCHANGED <<clock, updated, quiet, delivered, disk,
                   mode, last, bubbles, entries, todo, saving, faults>>

\* write_manifest_entries empties the file and writes it again: some of the
\* entries are on disk before the others.
TruncateManifest(e, m, from, to) ==
    /\ Goto(e, from, to)
    /\ \E flushed \in SUBSET Chats :
         manifest' = [manifest EXCEPT ![m] =
           [c \in Chats |-> IF c \in flushed THEN held[e][c] ELSE 0]]
    /\ UNCHANGED <<clock, updated, quiet, delivered, state, files, run, faults>>

\* Where another run wrote meanwhile, the end of its longer file may remain.
WriteManifest(e, m, from, to) ==
    /\ Goto(e, from, to)
    /\ \E tail \in SUBSET {c \in Chats : manifest[m][c] # 0} :
         manifest' = [manifest EXCEPT ![m] =
           [c \in Chats |-> IF c \in tail THEN manifest[m][c] ELSE held[e][c]]]
    /\ UNCHANGED <<clock, updated, quiet, delivered, state, files, run, faults>>

\* The time is taken at the end of the run, the state file emptied and written.
SaveTruncates(e) ==
    /\ Goto(e, "save", "saving")
    /\ saving' = [saving EXCEPT ![e] = clock]
    /\ state' = Torn
    /\ UNCHANGED <<clock, updated, quiet, delivered, files, manifest,
                   mode, last, bubbles, entries, todo, held, faults>>

\* A file another run wrote meanwhile may be longer, which leaves it torn.
SaveState(e) ==
    /\ pc[e] = "saving"
    /\ state' = saving[e] \/ (state # Torn /\ state' = Torn)
    /\ IF mode[e].out = "web"
         THEN pc' = [pc EXCEPT ![e] = "respond"] /\ UNCHANGED run
         ELSE Forget(e)
    /\ UNCHANGED <<clock, updated, quiet, delivered, files, manifest, faults>>

\* The route sends the archive after it has saved the state.
Respond(e) ==
    /\ pc[e] = "respond"
    /\ delivered' = With(delivered, entries[e])
    /\ Forget(e)
    /\ UNCHANGED <<clock, updated, quiet, disk, faults>>

-----------------------------------------------------------------------------
(* The environment.                                                        *)

\* The run is killed, or a write fails and it raises.  Downloads are taken to
\* arrive.
Crash(e) ==
    /\ faults < MaxFaults
    /\ pc[e] \notin {"idle", "respond"}
    /\ faults' = faults + 1
    /\ Forget(e)
    /\ UNCHANGED <<clock, updated, quiet, delivered, disk>>

\* Cursor adds to a conversation.
Update(c) ==
    /\ clock < MaxClock
    /\ clock' = clock + 1
    /\ updated' = [updated EXCEPT ![c] = clock']
    /\ quiet' = IF \A e \in Exporters : pc[e] = "idle" THEN quiet \cup {c} ELSE quiet \ {c}
    /\ UNCHANGED <<delivered, disk, pc, run, faults>>

Init ==
    /\ clock = 0 /\ updated = Nothing /\ quiet = {}
    /\ state = 0 /\ delivered = Nothing
    /\ files = Nothing
    /\ manifest = [m \in Manifests |-> Nothing]
    /\ pc = [e \in Exporters |-> "idle"]
    /\ mode = [e \in Exporters |-> NoMode]
    /\ last = [e \in Exporters |-> 0] /\ saving = [e \in Exporters |-> 0]
    /\ bubbles = [e \in Exporters |-> Nothing] /\ held = [e \in Exporters |-> Nothing]
    /\ entries = [e \in Exporters |-> {}] /\ todo = [e \in Exporters |-> {}]
    /\ faults = 0

Export(e) ==
    \/ Begin(e) \/ ReadBubbles(e) \/ ReadRows(e)
    \/ \E c \in Sessions : StampSession(e, c) \/ ReadSession(e, c)
    \/ NothingFound(e) \/ Collected(e)
    \/ OpenZip(e) \/ CloseZip(e)
    \/ \E c \in Chats : WriteFile(e, c)
    \/ LoadManifest(e, "out", "write", "loaded")
    \/ TruncateManifest(e, "out", "loaded", "partial")
    \/ WriteManifest(e, "out", "partial", "listed")
    \/ LoadManifest(e, "global", "listed", "global_loaded")
    \/ TruncateManifest(e, "global", "global_loaded", "global_partial")
    \/ WriteManifest(e, "global", "global_partial", "save")
    \/ SaveTruncates(e) \/ SaveState(e) \/ Respond(e)

Next ==
    \/ \E e \in Exporters : Export(e) \/ Crash(e)
    \/ \E c \in Chats : Update(c)

Spec == Init /\ [][Next]_vars

-----------------------------------------------------------------------------
(* Correctness.                                                            *)

\* The newest version has not reached the user.
Pending(c) == c \notin Excluded /\ delivered[c] < updated[c]

\* The next export since the last one would take it.
Due(c) == Stamp(c) > LastExport

\* It is in a download that is on its way.
Sending(c) == \E e \in Exporters : pc[e] = "respond" /\ c \in Names(entries[e])

\* A change made while no export was running is exported or stays due, however
\* many exports overlap or are killed: lastExportTime never passes over it.
QuietChangesStayDue ==
    \A c \in Chats \ Undated : c \in quiet /\ Pending(c) => Due(c) \/ Sending(c)

\* The same of every change (README: "so that --since last works across runs").
ChangesStayDue == \A c \in Chats \ Undated : Pending(c) => Due(c) \/ Sending(c)

\* An entry of a manifest names a file that was written, although exports
\* overlap, are killed at any step and hold the manifest in memory.
ManifestNamesFiles ==
    \A m \in Manifests, c \in Chats : manifest[m][c] <= files[c]

-----------------------------------------------------------------------------
(* What the proofs rest on, see ExportProofs.                              *)

Reading == {"bubbles", "rows", "sessions", "blobs"}
Early == {"idle", "bubbles", "rows"}
Manifesting == {"loaded", "partial", "listed", "global_loaded", "global_partial"}
Late == Manifesting \cup {"write", "zipping", "save", "saving", "respond"}

\* An export collects each conversation once.
Single(es) == \A x, y \in es : x.chat = y.chat => x = y
CollectsOnce ==
    \A e \in Exporters :
        /\ Single(entries[e])
        /\ pc[e] \in Early => entries[e] = {}
        /\ pc[e] \in Reading => todo[e] \subseteq Sessions
        /\ pc[e] = "sessions" => todo[e] \cap Names(entries[e]) = {}
        /\ pc[e] = "blobs" => \A c, d \in todo[e] \cap Names(entries[e]) : c = d

\* Nothing is in a manifest, on disk or in memory, before it is in a file.
FilesFirst ==
    /\ ManifestNamesFiles
    /\ \A e \in Exporters : \A c \in Chats : held[e][c] <= files[c]
    /\ \A e \in Exporters : pc[e] \in Late =>
          \A x \in entries[e] : x.chat \in todo[e] \/ x.version <= files[x.chat]

\* No saved time is ahead of the clock.
TimesPast ==
    /\ state # Torn => state <= clock
    /\ \A e \in Exporters : last[e] <= clock /\ saving[e] <= clock
    /\ \A c \in Chats : updated[c] <= clock
    /\ \A c \in quiet : updated[c] > 0

\* Export e has the present version of c.
Has(e, c) == \E x \in entries[e] : x.chat = c /\ x.version = updated[c]

\* Nothing more has to be done for the present version of c.
Settled(c) ==
    \/ c \in Excluded \/ delivered[c] >= updated[c]
    \/ \E e \in Exporters : pc[e] = "respond" /\ Has(e, c)

\* What an export that began after the last change of c has or will have of it.
Covered(e, c) ==
    /\ pc[e] \in {"bubbles", "rows"} /\ c \in Sessions => c \in todo[e]
    /\ pc[e] = "rows" /\ c \in Composers => bubbles[e][c] = updated[c]
    /\ pc[e] \in {"sessions", "blobs"} => Settled(c) \/ c \in todo[e] \/ Has(e, c)
    /\ pc[e] = "write" => Settled(c) \/ (c \in todo[e] /\ Has(e, c))
    /\ pc[e] = "zipping" => Settled(c) \/ Has(e, c)
    /\ pc[e] \in Manifesting => Settled(c)
    /\ pc[e] \in {"save", "saving"} => Settled(c) \/ (mode[e].out = "web" /\ Has(e, c))

\* The exports of Modes look at c: the route leaves sessions out, and the script
\* can be told to leave composers out.
LookedAt(c) == \A m \in Modes : IF c \in Composers THEN m.composer ELSE m.out # "web"

\* A time that passes over a quiet change is saved, or remembered by a run, only
\* once the change needs nothing more.
QuietKept ==
    \A c \in quiet \ Undated : LookedAt(c) =>
        /\ state # Torn /\ state >= updated[c] => Settled(c)
        /\ \A e \in Exporters :
              /\ last[e] >= updated[c] => Settled(c)
              /\ Covered(e, c)
=============================================================================
