# A TLA+ model of Cursor Chat Browser

Cursor Chat Browser is a local Flask application that reads the chat history of
the Cursor editor and of its `agent` CLI, shows it project by project, searches
it and exports it. It owns none of the data: Cursor writes the sqlite files at
any time, in another process, without telling anybody. What the program does own
are *derived* files (summary caches, a full-text index, exported archives and the
state of the incremental export) and *views* (a project list, the summaries and
tabs of a project, a transcript, an exported document). What is hard about it is
whether a derived file still says what its source says, and whether views that
are computed apart from each other tell the same story.

This directory models that core, checks it with TLC on small instances and proves
the central results with TLAPS for every instance. Line numbers refer to the
sources as they are in the repository.

## 1. Inventory

### Components, their state and their operations

| Component | Code | State it keeps | Operations |
|---|---|---|---|
| Summary cache | `services/summary_cache.py` | four JSON files (project list, composer map, workspace aliases, tab summaries), one lock | fingerprint the storage, read, build, write |
| Search index | `services/search_index.py` | `search_index.<n>.sqlite`, the pointer file `search_index.active`, the build lock, a refresh thread | build, publish, prune, poll; queries of readers |
| Search | `services/search.py`, `api/search.py` | none between requests | search through the index, live scan, legacy workspaces, CLI sessions, ranking |
| Incremental export | `services/export_engine.py`, `scripts/export.py`, `api/export_api.py` | `export_state.json`, two `manifest.jsonl`, the exported files | script run, download |
| CLI session reader | `utils/cli_chat_reader.py` | none; reads `store.db` | traverse blobs, list projects, convert messages |
| Workspace listing | `services/workspace_listing.py`, `workspace_composer_scan.py` | none | list projects with the number of their conversations |
| Workspace tabs | `services/workspace_tabs.py` | none | list summaries, assemble one tab |
| Resolver and context | `services/workspace_resolver.py`, `workspace_context.py` | none (the maps are cached by the summary cache) | assign a conversation to a workspace, infer aliases of invalid workspaces |
| Global database loaders | `services/workspace_db.py` | none | load rows, bubbles, layouts |
| Conversation index | `utils/conversation_index.py` | none | header lists for composers that have none inline |
| Exclusion rules | `utils/exclusion_rules.py` | rules loaded once at startup | tokenize, match |
| Workspace path | `utils/workspace_path.py`, `utils/path_validation.py`, `api/config_api.py` | an override per process, behind a lock | set, resolve |
| CLI tabs, parse warnings | `services/cli_tabs.py`, `models/parse_warnings.py` | counters of one request | |
| Records, rendering, routes, pages, tooling | `models/`, `utils/*`, `api/*`, `static/`, `templates/`, `scripts/*` | none | formatting and glue |

### How they interact

```
   Cursor (external)  writes state.vscdb,      agent CLI (external)  writes store.db
          |           workspace.json                    |
          v                                             v
   loaders, resolver  <---- SummaryCache ---->   CLI session reader
          |                (fingerprint of             |
          |                 the storage)               |
   +------+--------+----------------+------------------+
   v               v                v                  v
 listing, tabs   search  ------> search index      export engine <-- script
                   |  usable?       ^                  ^
                   +-- live scan    | refresh thread   +-- download route
                                                       (one export_state.json)
```

* Requests are served by the threads of one process or by several processes
  (`DEPLOYMENT.md` recommends the latter). Threads share the lock of the summary
  cache; processes share only files.
* The refresh thread of the index runs beside the requests. A search opens the
  index once per query, so the thread may publish and prune between two of them.
* The script and the download route keep one `lastExportTime`.
* Every component reads Cursor's files by several statements; there is no
  transaction over them.

### What is hard, and what makes each component correct

* **Summary cache**: the builder runs outside the lock and takes seconds. Correct
  when an entry holds exactly the versions its fingerprint names, no answer is
  older than the request, and a slower thread never replaces a newer entry.
* **Search index**: rebuilt in the background, published through a pointer file
  that not every platform can replace atomically, pruned while readers may hold the
  old file. Correct when the pointer always names a complete file, an index that
  passes `index_is_usable` holds the present rows, published indexes never go back
  in time, and the index becomes usable in the end.
* **Search**: correct when index and live scan give the same answer, excluded
  conversations are never shown, and an incomplete answer says that it is.
* **Export**: runs overlap, are killed, share files that are written in place.
  Correct when every change is either exported or due at the next incremental run.
* **CLI reader**: reads an arbitrary graph by two statements. Correct when it
  returns exactly the messages of the root it read, once each, in order.
* **Listing, tabs, resolver**: four handlers assign, group and filter the same
  conversations anew, from files read in different orders. Correct when the number
  shown, the list shown and the tab opened agree on whose conversation it is,
  whatever failed to load, and none is lost or shown twice.
* **Transcript**: a conversation is read by four queries and put into an order of
  time. Correct when nothing that was there is missing, only times reorder it, and
  page and exported document tell the same conversation.
* **Exclusion rules**: correct when a line means what its author wrote and what is
  hidden in one place stays hidden in the others.
* **Workspace path**: kept in the memory of one process. Correct when all workers
  read the same storage.

The individual hazards, each at its line, are the `hazards` of `PROJECT.json`;
those no property covers yet say why.

## 2. Plan

In order of importance; a module is written so that it can be proved about.

| # | Modules | Status |
|---|---|---|
| 1 | `SummaryCache`, with `CacheContract` as its abstract specification, `SummaryCacheProofs` | done: checked and proved |
| 2 | `SearchIndex`, `SearchIndexProofs` | done: checked and proved |
| 3 | `IndexedSearch` = a search composed with `SearchIndex`, `IndexedSearchProofs` | done: checked and proved |
| 4 | `Export`, `ExportProofs` | done: checked and proved |
| 5 | `BlobTraversal`, `BlobTraversalProofs` | done: checked and proved (termination by TLC) |
| 6 | `WorkspaceResolver` (the assignment as operators), `WorkspaceViews` (list, summaries, all tabs, single tab), `WorkspaceViewsProofs` | done: checked and proved |
| 7 | `ExclusionRules` (tokenizer and evaluation) and `Configuration` (workers, their rules and the workspace path), `ConfigurationProofs` | done: checked and proved |
| 8 | `Transcript`: order and times of one conversation on the page and in the document, `TranscriptProofs` | done: checked and proved |
| 9 | the refresh thread that keeps the path of the start; nested builders of the summary cache, its files shared by several processes | left |
| 10 | legacy workspaces, CLI sessions and ranking in `IndexedSearch`; `list_cli_projects` and `messages_to_bubbles` | left |

Every invariant and action property of the passing runs is also a theorem; the liveness
properties are left to TLC.

## 3. Modules

### SummaryCache and CacheContract

A source file is its version, a natural number that Cursor increments; 0 is a
file that does not exist. Its mtime stands for the version (section 7). A payload
is, per source, the set of versions its builder read, because builders open some
of the files more than once.

| Model | Code |
|---|---|
| `Request`, `Respond` | the route, `list_workspace_projects`, `list_workspace_tab_summaries` |
| `Acquire`, `lock` | `_summary_cache_lock` |
| `StampSource`, `Stampable`, `Complete` | `fingerprint_workspace_storage`: a thread pool over the workspace files, then the global database |
| `PreHit`, `PreMiss` | the first critical section of `_get_or_build_cached` |
| `ReadSource`, `BuildDone`, `BuildBypassed`, `BuildRaises` | `build_fn`, with `nocache` and a builder that raises |
| `PostHit`, `PostMiss`, `Unmoved` | the second critical section and the comparison of the fingerprints |
| `CursorWrites` | external |

`CacheContract` is what a caller may rely on: a request is answered for the scope
it asked about (workspace and rules) with each tracked source as it stood between
request and answer, or it fails. `SummaryCache` implements it under the mapping
`stageOf`, which hides everything between arrival and answer.

### SearchIndex

`content` maps a file name to what is in it: the fingerprint and the versions of
the composer and bubble rows. `pointer` is `search_index.active`; `Legacy` is the
file of earlier releases that is used when there is no pointer. The two-statement
build is `ReadComposers`, `ReadBubbles`; `Publish` is `os.replace`, and where the
platform refuses it (`Windows`), `PublishTruncates` and `PublishRewrites`.
`Prune(p, f)` removes one stale file, `PruneRefused` cannot. `BuildFails` and
`Crash` may strike at any step, `MaxFaults` times.

### IndexedSearch

Extends `SearchIndex` by one search. A *story* says, for each version of the
database and each conversation, whether its row is there and contains the query,
whether its messages contain it at the start of a word or inside one, and whether
they match a rule. Every query is two steps, `Resolve` (which file?) and the query
itself (open it read-only, which fails when it was pruned in between), as
`_index_db_conn` has it. `LiveRows` ... `LiveFails` are the live scan.

### Export

A conversation is the time of its last change. A run collects (`ReadBubbles`
before `ReadRows`, then session by session), writes an archive or files and two
manifests, each truncated and rewritten in place (`TruncateManifest`,
`WriteManifest`), and saves the time (`SaveTruncates`, `SaveState`). A download
collects without the sessions, saves, then responds. `Torn` is a state file whose
JSON does not parse: killed half way, or garbled by two writers.

### BlobTraversal

`refs` is any function from blobs to finite lists of blobs. `ReadMeta` and
`LoadBlobs` are the two statements; `Visit`, `Skip`, `Push` and `Pushed` the
breadth-first loop; `Finish` the reversal. The agent (`AgentWrites`, external)
commits a turn as a whole: the new root and all it refers to. `Reach` is defined
as the least closed set, so that it needs no recursion.

### WorkspaceResolver

Operators only, on what a request has read: `fs` (folders of each workspace), `rost`
(registered conversations), `lay` (project roots), `own` and `said` (files of a
conversation and of its messages). A path is its components and whether it was
stored as a `file:` URI; `Normal` says what `normalize_file_path` makes of it on
each platform. Order matters wherever the code takes the first or the last of
equals, so the order of `os.listdir` (`Listing`) and of the rows (`RowOrder`) are
constants.

| Model | Code |
|---|---|
| `FileOwner` | `get_project_from_file_path` |
| `OfPath`, `OfName`, `LayoutOwner` | the two maps, where the last workspace wins |
| `NameOwner` | the last resort: a folder name that occurs in a path |
| `Inferred`, `Determined` | `determine_project_for_conversation` |
| `Votes`, `Alias` | `infer_invalid_workspace_aliases` |
| `Assigned`, `Group` | `assign_composer_workspace`, `matching_workspace_ids_for_folder` |

### WorkspaceViews

Cursor's files are five variables. A request (`AskList`, `AskSummaries`, `AskTabs`,
`AskTab`) reads them one by one (`Read`) in the order of its handler (`Reads`); a
read may fail and then yields what the loaders yield for an `sqlite3.Error`
(`FailingRead`, `Empty`). `Answer` computes the page from `got`, except for the
workspace files, which the code opens again whenever it looks up a file or a name.
The `Write...` actions are Cursor.

| Model | Code |
|---|---|
| `Projects`, `ProjectOf` | `_build_workspace_projects_uncached` |
| `SummariesOf`, `AssignedTo` | `_build_workspace_tab_summaries_uncached`, `_iter_assigned_workspace_composers` |
| `TabsOf`, `HasTab` | `assemble_workspace_tabs`, `_assemble_tab_from_composer_data` |
| `TabOf` | `assemble_single_tab` |

### ExclusionRules and Configuration

A line of the rules file is a sequence of pieces: the letters AND and OR, other
letters, marks, space, quote, hash. `Tokens` is `tokenize_rule`, `Clauses` and
`RuleMatches` are `_rule_matches`. The reference is what the head of
`exclusion_rules.py` promises: a rule is a list of items, AND, OR, words and phrases in
quotes. `WrittenAs` says when a line holds these items with nothing but spaces between
them (some between any two), `WellWritten` when a file does so on every line that is
neither empty nor a comment, and `Means` what the items say of a text: some term is in
it, and with it all that no OR separates from it. Neither mentions tokens.

`Configuration` has worker processes, each with the rules it loaded when it started
(`Restart` is `create_app`) and its own `_workspace_path_override`. `set_workspace`
is two steps, `Validate` (the directory holds a workspace now) and `Store` (409 for
several workers, else the override); `Mark` and `EditRules` are what the user and
Cursor do in between.

### Transcript

A message is a row (what it shows, its time if it has one) and a header, kept
inline or in chunks. Cursor writes either first. A page or document `Begin`s, makes
its queries one by one (`Query`, in the order of `Queries`) and is assembled:

| Model | Code |
|---|---|
| `Merged`, `Headers` | `_merge_header_rows`, `composer_data_with_headers` |
| `Stamp` | `bubble_display_timestamp_ms` |
| `Shows`, `Entries`, `Edits` | `_build_tab_display_bubbles`, `build_display_bubble_from_storage`, `_build_ide_export_bubbles` |
| `Before`, `ByTime` | the stable sort: an entry stands where its rank puts it |
| `Annotated`, `Assembled` | `annotate_response_times` on the sorted list |
| `TotalResponse` | `total_response_ms`, of all entries or of those at some places |

## 4. Runs

| Run | Instance | What it shows |
|---|---|---|
| `summary_cache_safety` | 2 threads, 2 sources, 1 rewrite each | `CoherentEntry`, `FreshAnswer`, `NoLostUpdate`; `Inductive` is the invariant of the proof |
| `summary_cache_contract` | 2 threads, 2 scopes | `ImplementsContract`; `SomeoneAnswered` |
| `search_index` | 1 process, 4 files, 3 versions, 2 faults | `CurrentIsFaithful`, `ActiveIsComplete`, `NoRegress`, `EventuallyUsable` |
| `indexed_search_safety` | 1 conversation, all its histories over 2 versions | `QuietSearchIsExact`, `ShownWasLive` |
| `indexed_search_exclusion` | 1 conversation that never changes | *violated*: `ExcludedNeverShown` |
| `export_downloads` | 2 exporters of any kind, 2 composers (one excluded), 1 crash | `QuietChangesStayDue`, `ManifestNamesFiles` |
| `export_script` | 2 runs of the script, a session and an undated composer | `QuietChangesStayDue` |
| `blob_traversal` | all graphs of 2 nodes and 2 messages | `ExactlyReachable`, `OnceEach`, `OldestFirst`, `Terminates` |
| `workspace_views` | 3 workspaces (registered, beside, inside or sharing a folder, orphaned), 2 conversations, 1 write, 1 failing read | `NoneIsLost`, `SummariesAgree`, `TabsAreListed`, `OpensWhatIsAnchored`, `NoOrphanOwns`, `InnermostOwns` |
| `workspace_posix_folders` | the same on a POSIX host, nothing written | *violated*: `InnermostOwns` |
| `configuration` | 2 workers, every line of 2 terms in one clause and 3 in two, 1 edit of the rules | `WorkersAgree`, `RulesMeanWhatIsWritten`, `HiddenStaysHidden` |
| `transcript` | 3 messages, 1 code edit, 2 ticks, 1 write during an assembly | `NothingOldIsMissing`, `OnlyTimesReorder`, `ResponseIsToTheLastQuestion`, `DocumentMatchesPage` |

Five more configurations are kept for reading and are run by hand
(`tlc -config <cfg> <module>`); each finds one property violated, as section 5
explains:

| Configuration | Module | Violated |
|---|---|---|
| `SummaryCacheCli.cfg` | `MCSummaryCache` | `FreshFromEverySource` |
| `SearchIndexTwoProcs.cfg` | `MCSearchIndex` | `ActiveIsComplete` |
| `ExportMidRun.cfg` | `MCExport` | `ChangesStayDue` |
| `ExportSkipsSessions.cfg` | `MCExport` | `QuietChangesStayDue` |
| `WorkspaceViewsOpens.cfg` | `MCWorkspaceViews` | `OpensWhatIsListed` |

**Bounds.** Two threads or runs are what the protocols' arguments are about: one
that is overtaken and one that overtakes; the proofs remove the bound where there
are some. One rewrite of each of two sources puts every read and stamp on either
side of every write; two versions of the database give an index that is stale,
and one that is replaced, during a search. Four index files allow for the published
one, the one being built and two that could not be removed. Two changes and two
exports give a change before, during and after each of them. Two chain nodes with
two references each contain self-loops, cycles, shared nodes, repeated references
and both orders of message and next node. Symmetry is used over threads, runs and
file names, and only in runs without liveness properties; `Canonical` in
`MCBlobTraversal` leaves out graphs that differ in the names of messages only.

Three workspaces are the least for which votes can tie, one folder can lie within
another and a third be lost; two conversations give an invalid workspace one that
votes and one that is voted for; one write and one failing read fall before, between
or after any two reads of a request. Rules of two terms in one clause, or of three
in two, one or two spaces apart, with words that begin or end in an operator, phrases
that hold one and an empty phrase, a second line with operators too many and one with a
quote that nothing closes reach every branch of the tokenizer. The last is not written as
the head of the file says, so both sides of `WellWritten` occur. Three messages and two
ticks are a question, an answer and an out-of-order or untimed third; the roles are
the three sequences in which something can go wrong with response times. One write
per assembly suffices to fall between any two queries; writes outside are free. In
`workspace_views` the constraint `Claimed` stops following the pages behind a list
once something was written or failed to load: the properties of those pages are about
an unchanged storage, and `NoneIsLost` is about the list alone.

**Deadlock** is checked in every run.

**Fairness.** `SummaryCache`: each thread takes its next step when it can (weak
fairness), no caller has to call and Cursor need not write. Nothing is assumed of
the lock beyond that, so a single thread may starve and only "someone is answered"
is claimed. `SearchIndex`: the refresh thread polls for ever
(`start_search_index_background`), which is weak fairness of `Refresh`; faults and
writes are bounded, as "once Cursor pauses and the faults stop" demands.
`BlobTraversal`: the reader is a loop in one thread.
The other modules state safety only: their requests are one pass without a retry,
and what Cursor or a user does next is nobody's promise.

## 5. Where code and documents disagree

Runs of the project:

* `indexed_search_exclusion`: a query that cannot open the index answers `{}`,
  which is taken for conversations without text; the rules are not applied to it
  (`services/search_index.py:502`). `query_composer_rows_in_window` (`:528`) does
  the same to a date window, with an empty answer instead of the live scan.
* `workspace_posix_folders`: `normalize_file_path` strips `file:///` with its last
  slash (`utils/path_helpers.py:38`), so that on a POSIX host the folder of a
  workspace becomes relative and contains no absolute file; a conversation is filed
  under a workspace whose folder name merely occurs in the path.

Run by hand:

* `SummaryCacheCli.cfg`: `cli_chats_mtime_ns` is the mtime of a directory passed to a
  function that only accepts files, so it is always `None`: CLI sessions never
  invalidate the cached project list (`services/summary_cache.py:134`, `:67-73`).
* `SearchIndexTwoProcs.cfg`: a worker prunes the file that another one has
  committed and is about to publish (`services/search_index.py:107`), in a
  deployment that `DEPLOYMENT.md:13` recommends.
* `ExportMidRun.cfg`: the saved time is that of the end of the run, the data that of
  its beginning (`scripts/export.py:253`).
* `ExportSkipsSessions.cfg`: a download leaves out the CLI sessions and advances the
  time they are judged by (`api/export_api.py:209`).
* `WorkspaceViewsOpens.cfg`: the summaries assign a conversation without its messages
  and the single tab with them (`services/workspace_tabs.py:712`), so one whose
  workspace hangs on its messages is listed in the sidebar and answered 404. A comment
  calls the former a trade for speed (`services/workspace_listing.py:154`), so the run
  states where the difference is possible and `OpensWhatIsAnchored` where it is not.

Not a contradiction, but worth knowing: a message without a time is stamped with the
present (`utils/display_bubble.py:20`), so it moves to the end of its conversation and
the answer after it appears to have taken until now; the document of the export counts
the code edits as answers, so its response total exceeds the page's
(`DocumentMatchesPage` says by how much).

## 6. Proofs

Assumed are only the named assumptions on the constants, which TLC evaluates in the
runs: `SummaryCacheAssumption`, `SearchIndexAssumption`,
`IndexedSearchAssumption`, `ExportAssumption`, `BlobAssumption`, `ResolverAssumption`, `ViewsAssumption`,
`PieceAssumption`, `ConfigurationAssumption` and `TranscriptAssumption`. They give the
constants their types and bounds. A premise of a single theorem stands in its `ASSUME`
and is explained here.

The library's theorems for induction take an operator as a parameter, which the provers
cannot instantiate. Where a proof would use induction it takes the *least counterexample* instead
(`LeastNat`: a non-empty set of
natural numbers has a least element): for a recursive function they show that it exists
on every initial segment, that two of them agree, and that no position can be the first
(or last) at which the claim fails.

**SummaryCacheProofs.** `CoherentEntry` is not inductive: whether an entry will be
coherent is decided before it is written. `Inductive` orders, per thread and source,
the version at arrival, the first stamp, the versions read, the second stamp and the
present version. When both stamps are equal (`Unmoved`) everything between them is
pinned to one version (`PinnedReads`), which is what `PostMiss` stores. From it
follow `EntriesAreCoherent`, `AnswersAreFresh`, `OneThreadInside`,
`NoUpdateIsLost` (a stored stamp is no later than a stamp being taken under the
lock) and, step by step, `CacheImplementsContract`.

**SearchIndexProofs.** `Ordered` holds for any number of processes: rows are no older
than the fingerprint they are stored under, and no newer than the storage. An index
whose fingerprint is the present version therefore has present rows
(`UsableIndexIsFaithful`). `ActiveStaysComplete` and `NeverRegresses` need the
premise `SingleProcess`, which `SearchIndexTwoProcs.cfg` shows to be necessary; their invariant `Owner` says that what is being pruned is neither the
published file nor the one being built.

**IndexedSearchProofs.** Every step of the composition is a step of `SearchIndex` or
leaves its variables alone (`SearchRefines`), so `Ordered` and `Owner` hold here too.
`ShownWasThere` rests on three invariants: a build that began during the search is newer
than its beginning (`BuildIsNewer`); what the four queries may open is an index
published since, or one that was usable when the search began (`HeldIsPublished`); and
what has been read, and found, was there since (`ReadsSince`, `FoundSince`).
`QuietSearchExact` follows `QuietIndex` and `QuietFound`: while nothing is written,
everything that can be opened has the present rows. Premises: `SingleProcess`, which
`SearchIndexTwoProcs.cfg` shows to be necessary; and for `ShownWasThere` also
`Windows => MaxFaults = 0`. Without that, TLC finds a search that shows rows of before its
beginning: a legacy index whose removal was refused is resolved while a rebuild has
emptied the pointer file, because `_resolve_active_index_db_path` falls back to it
without asking for its version, and `index_is_usable` had been asked of another file.

**ExportProofs.** `ManifestsName` by `FilesFirst`: an entry an exporter holds, or has
emptied out of a manifest, names a file that is written already. `QuietChangesKept` has
to say why a saved time never passes over a change that was made while no export was
running, although exports overlap: each collects a conversation once (`CollectsOnce`), a
saved or held time is no later than the clock (`TimesPast`), and an export that began
before the change holds no time that is later than the change unless it has the
conversation in what it sends (`QuietKept`). The premise `LookedAt(c)`, that every kind
of export looks at c, is what `ExportSkipsSessions.cfg` shows to be missing for sessions.
`QuietChangesDue` is the property of the run, for every set of conversations that
downloads and script share; the undated ones are not part of it.

**BlobTraversalProofs.** `Traversal` says that visited nodes and what is still ahead
lie within the reach of the root, that the successors of visited nodes are visited or
ahead, and that what has been found is what has been visited. With nothing ahead, the
visited set is closed, hence all of `Reach`. `ReachStays` is why the agent's writes
between the two statements do not matter: a graph that is complete is not changed by
what is added to the store. `MessagesAreOldestFirst` adds `InOrder`, about the levels
`Within[n]`: the visited set lies within a level or contains it (`ByLevels`); what waits
and is not visited yet is never behind something further away, except for second
occurrences (`QueuedByLevels`); nothing ahead is further than the next level
(`NextLevel`). A visit keeps that because a level that nothing waiting belongs to has
been visited as a whole (`LevelIsDone`), a push because all other nodes of the level of
the node being expanded have been expanded before it (`PushIsNext`).

**WorkspaceViewsProofs.** What has been read is typed and is what the storage said at
some time (`WellRead`). `NoConversationIsLost` needs no quiet: the page is computed from
one reading, and the groups of workspaces that share a folder partition them, so each
conversation is in one project, hidden or counted as skipped. The other theorems speak of
a storage at rest: then what was read is what is there (`ReadsNow`), the list is the one
of the present (`ListNow`), and the page that is asked for belongs to a project of it
(`AskedFromList`, `SummariesNow`). `SummariesAreTheListed`, `TabsAreOfTheListed` and
`AnchoredOpens` then compare the assignments: they differ only in the files of the
messages, which an anchored conversation does not reach (`SameFirst`). `OrphansOwnNothing` shows that
votes are cast by conversations that have a workspace with a folder. The folder of
`InnermostOwnsOnWindows` is found by the greatest depth among those around the file. Its
premise `Host = "win32"` is necessary: the run `workspace_posix_folders` is the
counterexample.

**ConfigurationProofs.** `OverrideIsAlone` (a process has an override only where
nothing says that there are others) is inductive although validation and storing are
two steps, because `Store` asks `MultiWorker` again. `WorkersReadOneStorage` needs
the premise `WorkersKnown`, that whoever starts several workers says so: the code
cannot know otherwise. `ConfigTypeCorrect` is about the tokenizer: it goes on behind
where it is (`WordEndIs`, `ClosingIs`), so its recursion exists, and of the positions
where it did not yield tokens none would be the last (`ReadsTyped`). `HiddenEverywhere`
follows from `SearchableAppend`, the content is appended to the text the list asks about,
and `OccursLonger`, a value that occurs in a text occurs in what begins with it; a rule
has no negation that could turn that round (`MatchesJoined`).
`RulesKeepTheirMeaning` has two halves. `LineRead`: what the tokenizer makes of a line is
one token per item. An item is read as its token from where it begins to where it ends
(`WordRead`, `PhraseRead`, `ItemRead`), spaces are passed over (`SpacesSkipped`), and of
the items whose rest is not read as written none would be the last (`ItemsRead`).
`RuleMeans`: a clause lies between two bounds, ORs or the ends, without an OR between
them (`ClauseIs`), so that "all terms of some clause" is "some term with all that no OR
separates from it" (`MatchesIs`). `RulesAreLoaded` carries that from the file to the
worker, whatever is saved before it is replaced. The premise `WellWritten` is part of the
property: the code's reading of other lines is not promised to anyone.

**TranscriptProofs.** The invariant is `Gathering`, which TLC checks as well: what was
there at the beginning is in every answer given since (`OldIsHeld`), headers are in the
order of the messages, inline or merged from chunks (`HeadersInOrder`), and no time is
ahead of the clock (`NoTimeAhead`). The list is sorted by how many entries come before
each, and `Sorted` shows that this is a sequence of all entries, in order, when `Before`
is total on them, as it is because each has its own place. Merging the chunks is
`FlattenSeq`; `FlattenAppend` says what one more chunk or header does. From these follow
`NoOldMessageIsMissing`, `TimesAloneReorder` and `ResponsesKnowTheirQuestion`.
`DocumentTellsThePage` compares two lists made from one reading. The messages of the
document are those the page shows as its own (`SameMessages`), an id has one entry
(`MessageIs`), and two sorted lists have the entries they share in one order
(`SameOrder`). A response time depends on nothing but the questions above, as a set
(`ResponseIs`), so code edits, which ask nothing, change none (`ResponsesMatch`). For the
totals `TotalsAdd` takes the least number of entries of the document for which they
differ: neither a message nor a code edit could have been the last of them.

Only model-checked: liveness (`EventuallyUsable`, `SomeoneAnswered`, `Terminates`),
which TLAPS does not prove here.

## 7. What the models leave out

* *mtime and version.* A write that goes to `state.vscdb-wal`, or two within one tick
  of the file system's clock, leaves the fingerprint as it was. The models take every
  write to be visible in the fingerprint.
* *Several processes on one summary cache file* (the shared `.tmp` name), and builders
  that use a cache themselves.
* *Partial results*: `safe_fetchall` turns a locked database into an empty list;
  `WorkspaceViews` has that, but not that the summary cache keeps the result.
* *WorkspaceViews*: one user asks for one thing at a time, and the caches are left
  out (a request is one with `nocache`, or a builder). The rows of the votes are those
  the request has read, the code reads them once more. A missing global database
  (404), the projects of the CLI and the project name that is inferred from layouts
  when `workspace.json` has none are not modelled. No name has a capital letter or an
  escape, and a Windows path is read on Windows.
* *Transcript*: all rows of messages and contexts are one read, and one "now" serves a
  whole assembly (the code asks the clock per message). Tool calls, thinking and text
  are one kind of content; titles and totals other than the response time are left
  out, and so is the rendering of CLI sessions. Failing reads are in `WorkspaceViews`.
* *ExclusionRules and Configuration*: letter case; words that begin with an operator
  and a mark (`and-gate`), which the code splits; `validate-path`,
  `detect-environment` and the refresh thread, which keeps the path of the start.
* *Export*: two runs that fill one archive at the same moment; archives of one day
  replacing one another; downloads that never arrive (the state is saved first, so
  what was in them is passed over); composers without `lastUpdatedAt`, which are
  never exported incrementally, are in the model but not in the property; local time
  when summer time ends; two changes in one millisecond.
* *Text*: tokenizing for the index, Markdown, PDF and HTML, schema validation. A
  conversation is what the properties tell apart.
* Everything that section 2 lists as planned.
