---------------------------- MODULE IndexedSearch ----------------------------
(***************************************************************************)
(* services/search.py, search_global_storage: one search served through    *)
(* the index while the refresh thread of SearchIndex rebuilds it.  Each    *)
(* query of the search resolves the active index file and opens it anew,   *)
(* so they may read different generations, and a file that was resolved    *)
(* may be pruned before it is opened.  When the index is not usable the    *)
(* search scans Cursor's database instead.                                 *)
(*                                                                         *)
(* What is in the database is a story: for every version and conversation, *)
(* whether its composer row is there and contains the query, whether its   *)
(* messages contain the query at the start of a word or only inside one,   *)
(* and whether they match an exclusion rule.                               *)
(***************************************************************************)
EXTENDS SearchIndex

CONSTANTS
    Chats,    \* conversations
    Inline,   \* those whose header list is in the composer row itself
    Stories   \* the histories considered, a subset of [Version -> [Chats -> Chat]]

Chat == [row : {"gone", "plain", "match"}, text : {"none", "word", "infix"},
         banned : BOOLEAN]

ASSUME IndexedSearchAssumption ==
    Inline \subseteq Chats /\ Stories \subseteq [Version -> [Chats -> Chat]]

VARIABLES
    story,      \* the history of the database
    legacy,     \* version the legacy index was filled from
    at,         \* where the search is
    since,      \* a date window was asked for
    floor,      \* history: the database when the search began
    resolved,   \* index file found, not opened yet
    seen,       \* fingerprint taken by index_is_usable
    headers,    \* conversations in the live header map
    window,     \* [Chats -> row], the composer rows
    hits,       \* conversations whose messages contain the query
    candidates, \* ids to look at
    banned,     \* conversations whose messages match an exclusion rule
    result,
    warned      \* a source failure was recorded for the answer

found == <<headers, window, hits, candidates, banned>>
search == <<story, legacy, at, since, floor, resolved, seen, found, result, warned>>
allVars == <<vars, search>>

NoRow == [c \in Chats |-> "gone"]

Places == {"idle", "stamp", "usable", "usable_open", "headers", "window", "window_open",
           "hits", "hits_open", "titles", "titles_open", "bodies", "bodies_open",
           "live", "live_headers", "live_hits", "live_bodies", "done"}

SearchTypeOK ==
    /\ story \in Stories /\ legacy \in Version
    /\ at \in Places /\ since \in BOOLEAN
    /\ floor \in Version /\ seen \in Version
    /\ resolved \in Files \cup {Legacy, None}
    /\ headers \subseteq Chats /\ hits \subseteq Chats
    /\ window \in [Chats -> {"gone", "plain", "match"}]
    /\ candidates \subseteq Chats /\ banned \subseteq Chats /\ result \subseteq Chats
    /\ warned \in BOOLEAN

Move(from, to) == at = from /\ at' = to

Live(v, c) == story[v][c].row # "gone"

-----------------------------------------------------------------------------
(* One connection to the index, _index_db_conn.                            *)

Resolve(q, opening) ==
    /\ Move(q, opening)
    /\ resolved' = Active
    /\ UNCHANGED <<story, legacy, since, floor, seen, found, result, warned>>

\* mode=ro refuses a file that is gone.
Opened == resolved \in exists

Composers == IF resolved = Legacy THEN legacy ELSE content[resolved].composers
Bubbles == IF resolved = Legacy THEN legacy ELSE content[resolved].bubbles

\* Bubbles are indexed for the conversations whose composer row is.
Indexed(c) == Live(Composers, c) /\ Live(Bubbles, c)

-----------------------------------------------------------------------------
(* The search.                                                             *)

Begin ==
    /\ Move("idle", "stamp")
    /\ since' \in BOOLEAN
    /\ floor' = version
    /\ UNCHANGED <<story, legacy, resolved, seen, found, result, warned>>

\* Mutant of StampStorage: no fingerprint while there is no index.
StampNothing ==
    /\ Move("stamp", IF Active = None THEN "live" ELSE "usable")
    /\ seen' = IF Active = None THEN None ELSE version
    /\ UNCHANGED <<story, legacy, since, floor, resolved, found, result, warned>>

\* index_is_usable gives up at once when there is no active index.
StampStorage ==
    /\ Move("stamp", IF Active = None THEN "live" ELSE "usable")
    /\ seen' = version
    /\ UNCHANGED <<story, legacy, since, floor, resolved, found, result, warned>>

\* Mutant of CheckUsable: any index that opens is used.
CheckOpens ==
    /\ Move("usable_open", IF Opened THEN "headers" ELSE "live")
    /\ UNCHANGED <<story, legacy, since, floor, resolved, seen, found, result, warned>>

CheckUsable ==
    /\ Move("usable_open", IF Opened /\ Current(resolved, seen) THEN "headers" ELSE "live")
    /\ UNCHANGED <<story, legacy, since, floor, resolved, seen, found, result, warned>>

LoadHeaders(from, to) ==
    /\ Move(from, to)
    /\ headers' = {c \in Chats : Live(version, c)}
    /\ UNCHANGED <<story, legacy, since, floor, resolved, seen,
                   window, hits, candidates, banned, result, warned>>

\* query_composer_rows_in_window; an empty window is the answer.
QueryWindow ==
    /\ window' = IF Opened THEN [c \in Chats |-> story[Composers][c].row] ELSE NoRow
    /\ Move("window_open", IF since /\ window' = NoRow THEN "done" ELSE "hits")
    /\ UNCHANGED <<story, legacy, since, floor, resolved, seen,
                   headers, hits, candidates, banned, result, warned>>

\* query_composer_bubble_hits matches prefixes of words, within the window.
QueryHits ==
    /\ Move("hits_open", "titles")
    /\ hits' = {c \in Chats :
                  /\ Opened /\ Indexed(c) /\ story[Bubbles][c].text = "word"
                  /\ since => window[c] # "gone"}
    /\ UNCHANGED <<story, legacy, since, floor, resolved, seen,
                   headers, window, candidates, banned, result, warned>>

\* query_composer_title_hits, and the rows that contain the query.
QueryTitles ==
    /\ Move("titles_open", "bodies")
    /\ candidates' = hits \cup {c \in Chats : window[c] = "match"}
                          \cup {c \in Chats : Opened /\ story[Composers][c].row = "match"}
    /\ UNCHANGED <<story, legacy, since, floor, resolved, seen,
                   headers, window, hits, banned, result, warned>>

\* What survives: a row with a header list that contains the query, or whose
\* messages do, and that no rule excludes.
Answers(bad) ==
    {c \in candidates : /\ window[c] # "gone" /\ c \in headers \cup Inline
                        /\ window[c] = "match" \/ c \in hits
                        /\ c \notin bad}

\* query_all_bubble_texts_for_composer_ids feeds the exclusion rules.
QueryBodies ==
    /\ Move("bodies_open", "done")
    /\ banned' = {c \in candidates : Opened /\ Indexed(c) /\ story[Bubbles][c].banned}
    /\ result' = Answers(banned')
    /\ UNCHANGED <<story, legacy, since, floor, resolved, seen,
                   headers, window, hits, candidates, warned>>

\* Anything raised on the way, as by a locked database, leads to the live scan.
IndexedSearchFails ==
    /\ Move("headers", "live")
    /\ UNCHANGED <<story, legacy, since, floor, resolved, seen, found, result, warned>>

\* _search_global_storage_live_scan: rows, header map and messages are read by
\* separate statements.
LiveRows ==
    /\ Move("live", IF version = 0 THEN "done" ELSE "live_headers")
    /\ window' = [c \in Chats |-> story[version][c].row]
    /\ UNCHANGED <<story, legacy, since, floor, resolved, seen,
                   headers, hits, candidates, banned, result, warned>>

\* Substrings of the messages; the conversations found are then taken in turn.
LiveHits ==
    /\ Move("live_hits", "live_bodies")
    /\ hits' = {c \in Chats : Live(version, c) /\ story[version][c].text # "none"}
    /\ candidates' = {c \in Chats : window[c] = "match" \/ (window[c] # "gone" /\ c \in hits')}
    /\ UNCHANGED <<story, legacy, since, floor, resolved, seen,
                   headers, window, banned, result, warned>>

\* One conversation: its messages are read for the exclusion rules.
LiveCheck(c) ==
    /\ at = "live_bodies" /\ c \in candidates
    /\ candidates' = candidates \ {c}
    /\ banned' = IF Live(version, c) /\ story[version][c].banned THEN banned \cup {c} ELSE banned
    /\ result' = result \cup (Answers(banned') \cap {c})
    /\ UNCHANGED <<story, legacy, at, since, floor, resolved, seen,
                   headers, window, hits, warned>>

LiveDone ==
    /\ candidates = {}
    /\ Move("live_bodies", "done")
    /\ UNCHANGED <<story, legacy, since, floor, resolved, seen, found, result, warned>>

Scanning == {"live", "live_headers", "live_hits", "live_bodies"}

\* Mutant of LiveFails: the failure is not recorded.
LiveFailsSilently ==
    /\ at \in Scanning /\ at' = "done"
    /\ UNCHANGED <<story, legacy, since, floor, resolved, seen, found, result, warned>>

\* The scan is cut short; what was found so far is returned with a warning.
LiveFails ==
    /\ at \in Scanning /\ at' = "done"
    /\ warned' = TRUE
    /\ UNCHANGED <<story, legacy, since, floor, resolved, seen, found, result>>

Finish ==
    /\ Move("done", "idle")
    /\ since' = FALSE /\ floor' = 0 /\ seen' = 0 /\ resolved' = None
    /\ headers' = {} /\ window' = NoRow /\ hits' = {} /\ candidates' = {} /\ banned' = {}
    /\ result' = {} /\ warned' = FALSE
    /\ UNCHANGED <<story, legacy>>

SearchStep ==
    \/ Begin \/ StampStorage
    \/ Resolve("usable", "usable_open") \/ CheckUsable
    \/ LoadHeaders("headers", "window")
    \/ Resolve("window", "window_open") \/ QueryWindow
    \/ Resolve("hits", "hits_open") \/ QueryHits
    \/ Resolve("titles", "titles_open") \/ QueryTitles
    \/ Resolve("bodies", "bodies_open") \/ QueryBodies
    \/ LiveRows \/ LoadHeaders("live_headers", "live_hits") \/ LiveHits
    \/ \E c \in Chats : LiveCheck(c)
    \/ LiveDone \/ Finish \/ IndexedSearchFails \/ LiveFails

\* A file name is not used again while the search holds it.
RefreshStep == Next /\ resolved \notin exists' \ exists /\ UNCHANGED search

SearchInit ==
    /\ Init
    /\ story \in Stories /\ legacy \in Version /\ legacy <= version
    /\ at = "idle" /\ since = FALSE /\ floor = 0 /\ seen = 0 /\ resolved = None
    /\ headers = {} /\ window = NoRow /\ hits = {} /\ candidates = {} /\ banned = {}
    /\ result = {} /\ warned = FALSE

SearchNext ==
    \/ SearchStep /\ UNCHANGED vars
    \/ RefreshStep

SearchSpec == SearchInit /\ [][SearchNext]_allVars

-----------------------------------------------------------------------------
(* Correctness.                                                            *)

\* Versions the database had while the search ran.
During == floor .. version

Matches(v, c) == Live(v, c) /\ (story[v][c].row = "match" \/ story[v][c].text = "word")
Banned(v, c) == Live(v, c) /\ story[v][c].banned

\* While the database rests, a search through the index and a live scan give
\* the same answer up to matches inside words, whatever the refresh thread is
\* doing; a scan that was cut short says so.
QuietSearchIsExact ==
    at = "done" /\ floor = version /\ floor # 0 =>
        /\ \A c \in result : Live(version, c) /\ ~Banned(version, c)
                             /\ (Matches(version, c) \/ story[version][c].text = "infix")
        /\ ~warned => \A c \in Chats :
                        Matches(version, c) /\ ~Banned(version, c) => c \in result

\* Whatever is shown was in the database at some time during the search, and
\* contained the query at some time, though the queries that found it may have
\* read different generations of the index.
ShownWasLive ==
    at = "done" => \A c \in result :
        /\ \E v \in During : Live(v, c)
        /\ \E v \in During : Matches(v, c) \/ story[v][c].text = "infix"

\* A conversation that a rule excludes all the while is not shown (the rules
\* file promises that a match in the content excludes the item).
ExcludedNeverShown ==
    at = "done" => \A c \in result : \E v \in During : ~Banned(v, c)

-----------------------------------------------------------------------------
(* What the proofs rest on, see IndexedSearchProofs.                       *)

Opening == {"window_open", "hits_open", "titles_open", "bodies_open"}
Indexing == {"headers", "window", "hits", "titles", "bodies"} \cup Opening

\* A build that has begun will replace an index of strictly older storage.
BuildIsNewer ==
    \A p \in Procs : pointer # None /\ pc[p] \in Building \cup {"create"} =>
        content[pointer].fp < fp[p]

\* Where the pointer file can be seen empty, the legacy index does not outlive
\* the pruning after the first publication.
LegacyLeaves ==
    Windows /\ pointer # None /\ Legacy \in exists =>
        \E p \in Procs : pc[p] = "prune" /\ Legacy \in stale[p]

\* No index that is active, or will be published next, is of storage before b.
NoneOlder(b) ==
    /\ pointer # None => content[pointer].fp >= b
    /\ pointer = None =>
         /\ Legacy \notin exists
         /\ \A p \in Procs : pc[p] \in Building \cup {"recheck", "create"} => fp[p] >= b

\* The file that was resolved was published complete, is not being filled, and
\* is the active one as long as it is current.
HeldIsPublished ==
    resolved \in Files =>
        /\ content[resolved].done /\ content[resolved].fp <= version
        /\ \A p \in Procs : pc[p] \in Building => mine[p] # resolved
        /\ content[resolved].fp = version => resolved = pointer

\* Nothing is found before a search, and no answer before its end.
NothingYet ==
    /\ at = "idle" => window = NoRow /\ hits = {}
    /\ at \notin {"live_bodies", "done"} => banned = {} /\ result = {}

SearchTimes ==
    /\ floor <= version
    /\ at \notin {"idle", "stamp"} => floor <= seen /\ seen <= version

\* What a search through the index reads is of storage since it began.
ReadsSince ==
    /\ resolved \in Files => NoneOlder(content[resolved].fp)
    /\ at \in Indexing => NoneOlder(floor)
    /\ at \in Opening => resolved # Legacy /\ (resolved \in Files => content[resolved].fp >= floor)

\* What it found was in the database since it began.
FoundSince ==
    /\ \A c \in Chats : window[c] # "gone" => \E v \in During : story[v][c].row = window[c]
    /\ \A c \in hits : \E v \in During : Live(v, c) /\ story[v][c].text # "none"
    /\ \A c \in result : window[c] # "gone" /\ (window[c] = "match" \/ c \in hits)

\* The database has rested since the search began.
Quiet == floor = version /\ floor # 0

\* Then the index in use stays in use, and is the present storage's.
QuietIndex ==
    Quiet /\ at \in Indexing =>
        /\ pointer # None /\ content[pointer].fp = version
        /\ at \in Opening => resolved = pointer

Sound(c) == Live(version, c) /\ ~Banned(version, c)
            /\ (Matches(version, c) \/ story[version][c].text = "infix")

HeadersNow == headers = {c \in Chats : Live(version, c)}
RowsNow == window = [c \in Chats |-> story[version][c].row]
WordsNow == hits = {c \in Chats : Live(version, c) /\ story[version][c].text = "word"}
TextsNow == hits = {c \in Chats : Live(version, c) /\ story[version][c].text # "none"}
Answer == {c \in Chats : Matches(version, c) /\ ~Banned(version, c)}

\* And each query returns what the present storage has.
QuietFound ==
    Quiet =>
        /\ at \in (Indexing \ {"headers"}) \cup {"live_hits", "live_bodies"} => HeadersNow
        /\ at \in (Indexing \ {"headers", "window", "window_open"})
                  \cup {"live_headers", "live_hits", "live_bodies"} => RowsNow
        /\ at \in {"titles", "titles_open", "bodies", "bodies_open"} => WordsNow
        /\ at \in {"bodies", "bodies_open"} => candidates = {c \in Chats : Matches(version, c)}
        /\ at = "live_bodies" => TextsNow /\ Answer \subseteq candidates \cup result
        /\ \A c \in banned : Banned(version, c)
        /\ \A c \in result : Sound(c)
        /\ at = "done" /\ ~warned => Answer \subseteq result
=============================================================================
