------------------------------- MODULE Transcript -------------------------------
(***************************************************************************)
(* One conversation of the IDE as it is shown: the page of a conversation, *)
(* the page of all of them (services/workspace_tabs.py) and the Markdown   *)
(* document of the export (utils/cursor_md_exporter.py).  Each reads the   *)
(* headers, the chunks they may be kept in (utils/conversation_index.py),  *)
(* the messages and the code edits one query after the other, while Cursor *)
(* goes on writing, and brings what it has read into an order of time.     *)
(*                                                                         *)
(* A message is what it shows and its time: a text, a tool call or         *)
(* thinking of its own, only the context that was sent with it, or         *)
(* nothing.                                                                *)
(***************************************************************************)
EXTENDS Integers, Sequences, SequencesExt, FiniteSetsExt

CONSTANTS
    Messages,   \* how many messages Cursor writes
    Roles,      \* who may say them, SUBSET [1 .. Messages -> {"user", "ai"}]
    MaxClock,   \* bound: ticks
    MaxEdits,   \* bound: code edits
    MaxWrites   \* bound: writes of Cursor while one page is assembled

ASSUME TranscriptAssumption ==
    /\ Messages \in Nat \ {0} /\ MaxClock \in Nat \ {0} /\ MaxEdits \in Nat
    /\ MaxWrites \in Nat
    /\ Roles \subseteq [1 .. Messages -> {"user", "ai"}]

VARIABLES
    clock,
    role,       \* [1 .. Messages -> "user" or "ai"]
    kept,       \* "inline" or "chunks": where this Cursor keeps the headers
    inline,     \* fullConversationHeadersOnly
    chunks,     \* composerConvHeaders, by suffix
    rows,       \* [1 .. Messages -> row or NoRow], bubbleId rows
    edits,      \* number of codeBlockDiff rows
    updated,    \* lastUpdatedAt
    reader,     \* what is being assembled, or ""
    todo,       \* queries it has yet to make
    got,        \* what the others answered
    now,        \* when it was assembled, 0 before
    old,        \* history: the messages that were complete when it began
    writes      \* writes since it began

vars == <<clock, role, kept, inline, chunks, rows, edits, updated,
          reader, todo, got, now, old, writes>>
stored == <<role, kept, inline, chunks, rows, edits, updated>>

Ids == 1 .. Messages
Untimed == 0
Times == 0 .. MaxClock
NoRow == [shows |-> "none", at |-> Untimed]
Row == [shows : {"own", "context", "nothing"}, at : Times]

\* The queries, in the order of assemble_single_tab, assemble_workspace_tabs and
\* load_global_db_export_data.
Queries == [tab    |-> <<"composer", "chunks", "rows", "edits">>,
            tabs   |-> <<"rows", "edits", "composer", "chunks">>,
            export |-> <<"rows", "edits", "chunks", "composer">>]

Unread == [composer |-> [inline |-> <<>>, updated |-> 0], chunks |-> <<>>,
           rows |-> [m \in Ids |-> NoRow], edits |-> 0]

TypeOK ==
    /\ clock \in 1 .. MaxClock /\ now \in Times
    /\ role \in Roles /\ kept \in {"inline", "chunks"}
    /\ inline \in Seq(Ids) /\ chunks \in Seq(Seq(Ids))
    /\ rows \in [Ids -> Row \cup {NoRow}]
    /\ edits \in 0 .. MaxEdits /\ updated \in Times /\ writes \in 0 .. MaxWrites
    /\ reader \in DOMAIN Queries \cup {""} /\ old \subseteq Ids
    /\ reader # "" => IsSuffix(todo, Queries[reader])
    /\ got \in [composer : [inline : Seq(Ids), updated : Times], chunks : Seq(Seq(Ids)),
               rows : [Ids -> Row \cup {NoRow}], edits : 0 .. MaxEdits]

-----------------------------------------------------------------------------
(* Cursor.                                                                 *)

Write ==
    /\ updated' = clock
    /\ IF reader = "" THEN UNCHANGED writes ELSE writes < MaxWrites /\ writes' = writes + 1

Said == ToSet(inline) \cup ToSet(FlattenSeq(chunks))

\* The row of a message, before its header or after it, with its time or without.
WriteRow(m) ==
    /\ rows[m] = NoRow /\ m <= Cardinality(Said) + 1
    /\ \E shows \in IF role[m] = "user" THEN {"own", "context"} ELSE {"own", "nothing"},
          at \in {Untimed, clock} :
         rows' = [rows EXCEPT ![m] = [shows |-> shows, at |-> at]]
    /\ Write
    /\ UNCHANGED <<clock, role, kept, inline, chunks, edits, reader, todo, got, now, old>>

\* The header of the next message, inline, in the last chunk or in a new one.
WriteHeader(m) ==
    /\ m = Cardinality(Said) + 1
    /\ \/ /\ kept = "inline"
          /\ inline' = Append(inline, m) /\ UNCHANGED chunks
       \/ /\ kept = "chunks" /\ chunks # <<>>
          /\ chunks' = Append(Front(chunks), Append(Last(chunks), m)) /\ UNCHANGED inline
       \/ /\ kept = "chunks"
          /\ chunks' = Append(chunks, <<m>>) /\ UNCHANGED inline
    /\ Write
    /\ UNCHANGED <<clock, role, kept, rows, edits, reader, todo, got, now, old>>

WriteEdit ==
    /\ edits < MaxEdits /\ edits' = edits + 1 /\ Write
    /\ UNCHANGED <<clock, role, kept, inline, chunks, rows, reader, todo, got, now, old>>

Tick ==
    /\ clock < MaxClock /\ clock' = clock + 1
    /\ UNCHANGED <<stored, reader, todo, got, now, old, writes>>

-----------------------------------------------------------------------------
(* From what was read to what is shown.                                    *)

\* Mutant of Merged: the chunk that was read last.
MergedLast(read) == IF read = <<>> THEN <<>> ELSE Last(read)

\* _merge_header_rows: the chunks in the order of their suffixes.
Merged(read) == FlattenSeq(read)

\* composer_data_with_headers: the chunks only when the row has no headers.
Headers(g) == IF g.composer.inline # <<>> THEN g.composer.inline ELSE Merged(g.chunks)

\* Mutant of Stamp: a message without a time sorts as the oldest.
StampZero(row, at) == row.at

\* bubble_display_timestamp_ms: a message without a time was sent just now.
Stamp(row, at) == IF row.at = Untimed THEN at ELSE row.at

\* _build_tab_display_bubbles adds the context to the text of a message, and
\* build_display_bubble_from_storage does not.
Shows(r, row) == row.shows = "own" \/ (r # "export" /\ row.shows = "context")

Entry(m, kind, ts, place) == [id |-> m, kind |-> kind, ts |-> ts, place |-> place, response |-> 0]

\* One entry for each header whose message shows something.  A list that is yet to
\* be sorted is the set of its entries, each with its place in it.
Entries(r, g, at) ==
    LET h == Headers(g)
    IN  {Entry(h[i], role[h[i]], Stamp(g.rows[h[i]], at), i) :
            i \in {j \in DOMAIN h : g.rows[h[j]] # NoRow /\ Shows(r, g.rows[h[j]])}}

\* Mutant of Edits: as if the user had made them.
EditsOfUser(r, g, at) ==
    {Entry(0, "user", IF g.composer.updated = 0 THEN at ELSE g.composer.updated, Len(Headers(g)) + i) :
        i \in 1 .. IF r = "export" THEN g.edits ELSE 0}

\* _build_ide_export_bubbles: the code edits, all at lastUpdatedAt.
Edits(r, g, at) ==
    {Entry(0, "ai", IF g.composer.updated = 0 THEN at ELSE g.composer.updated, Len(Headers(g)) + i) :
        i \in 1 .. IF r = "export" THEN g.edits ELSE 0}

\* list.sort by time, which is stable.
Before(x, y) == x.ts < y.ts \/ (x.ts = y.ts /\ x.place < y.place)
ByTime(entries) ==
    [i \in 1 .. Cardinality(entries) |->
        CHOOSE e \in entries : Cardinality({x \in entries : Before(x, e)}) = i - 1]

\* Mutant of Annotated: from the first message of the user.
AnnotatedFirst(entries) ==
    [i \in DOMAIN entries |->
        LET asked == {j \in 1 .. i : entries[j].kind = "user"}
            e == entries[i]
        IN  IF e.kind = "user" \/ asked = {} \/ e.ts <= entries[Min(asked)].ts THEN e
            ELSE [e EXCEPT !.response = e.ts - entries[Min(asked)].ts]]

\* annotate_response_times: from the last message of the user above.
Annotated(entries) ==
    [i \in DOMAIN entries |->
        LET asked == {j \in 1 .. i : entries[j].kind = "user"}
            e == entries[i]
        IN  IF e.kind = "user" \/ asked = {} \/ e.ts <= entries[Max(asked)].ts THEN e
            ELSE [e EXCEPT !.response = e.ts - entries[Max(asked)].ts]]

\* _assemble_tab_from_composer_data and _build_ide_export_bubbles
Assembled(r, g, at) == Annotated(ByTime(Entries(r, g, at) \cup Edits(r, g, at)))

\* totalResponseTimeMs, total_response_ms: of the entries at some places.
TotalResponse(entries, places) ==
    LET upTo[i \in 0 .. Len(entries)] ==
            IF i = 0 THEN 0
            ELSE upTo[i - 1] + IF i \in places THEN entries[i].response ELSE 0
    IN  upTo[Len(entries)]

-----------------------------------------------------------------------------
(* A page or a document is assembled.                                      *)

Begin(r) ==
    /\ reader = ""
    /\ reader' = r /\ todo' = Queries[r]
    /\ old' = {m \in Said : rows[m] # NoRow}
    /\ UNCHANGED <<clock, stored, got, now, writes>>

Query ==
    /\ reader # "" /\ todo # <<>>
    /\ todo' = Tail(todo)
    /\ got' = CASE Head(todo) = "composer" ->
                     [got EXCEPT !.composer = [inline |-> inline, updated |-> updated]]
                [] Head(todo) = "chunks" -> [got EXCEPT !.chunks = chunks]
                [] Head(todo) = "rows"   -> [got EXCEPT !.rows = rows]
                [] Head(todo) = "edits"  -> [got EXCEPT !.edits = edits]
    /\ UNCHANGED <<clock, stored, reader, now, old, writes>>

\* Mutant of Assemble: the present in another unit than the rows.
AssembleSeconds ==
    /\ reader # "" /\ todo = <<>> /\ now = 0
    /\ now' = clock * 1000
    /\ UNCHANGED <<clock, stored, reader, todo, got, old, writes>>

Assemble ==
    /\ reader # "" /\ todo = <<>> /\ now = 0
    /\ now' = clock
    /\ UNCHANGED <<clock, stored, reader, todo, got, old, writes>>

Close ==
    /\ now # 0
    /\ reader' = "" /\ todo' = <<>> /\ got' = Unread /\ now' = 0 /\ old' = {} /\ writes' = 0
    /\ UNCHANGED <<clock, stored>>

Init ==
    /\ clock = 1
    /\ role \in Roles /\ kept \in {"inline", "chunks"}
    /\ inline = <<>> /\ chunks = <<>> /\ rows = [m \in Ids |-> NoRow]
    /\ edits = 0 /\ updated = 0
    /\ reader = "" /\ todo = <<>> /\ got = Unread /\ now = 0 /\ old = {} /\ writes = 0

Next ==
    \/ \E m \in Ids : WriteRow(m) \/ WriteHeader(m)
    \/ WriteEdit \/ Tick
    \/ \E r \in DOMAIN Queries : Begin(r)
    \/ Query \/ Assemble \/ Close

Spec == Init /\ [][Next]_vars

-----------------------------------------------------------------------------
(* Properties.                                                             *)

Shown == Assembled(reader, got, now)
Above(entries, i, j) == i < j /\ i \in DOMAIN entries /\ j \in DOMAIN entries

\* Whatever Cursor writes between the queries, a page or document has every
\* message that was there, with its header, when it was begun: the chunks are all
\* merged and no order of the queries loses one.
NothingOldIsMissing ==
    now # 0 => \A m \in old :
        Shows(reader, rows[m]) => \E i \in DOMAIN Shown : Shown[i].id = m

\* A message is shown above one that precedes it in the conversation only when
\* both times say so, or when the other has none: times and their absence are
\* the only reasons for which a conversation is not told in its order.
OnlyTimesReorder ==
    now # 0 => \A i, j \in DOMAIN Shown :
        LET x == Shown[i]  y == Shown[j] IN
        (Above(Shown, i, j) /\ x.id > y.id /\ y.id # 0) =>
            \/ got.rows[y.id].at = Untimed /\ got.rows[x.id].at # Untimed
            \/ got.rows[x.id].at < got.rows[y.id].at /\ got.rows[x.id].at # Untimed

\* A response time never reaches back over a question that is shown above the
\* answer, and never before the first one.
ResponseIsToTheLastQuestion ==
    now # 0 => \A j \in DOMAIN Shown :
        Shown[j].response > 0 =>
            /\ \E i \in 1 .. j : Shown[i].kind = "user"
            /\ \A i \in 1 .. j :
                  Shown[i].kind = "user" => Shown[j].ts - Shown[j].response >= Shown[i].ts

\* The document tells the conversation the page tells: from the same rows at the
\* same moment, the page without the messages that are only context has the
\* messages of the document without the code edits, in the same order; and when no
\* message is only context, each answer took the same time in both, so that the
\* totals differ by the code edits'.
DocumentMatchesPage ==
    now # 0 =>
        LET page == Assembled("tab", got, now)
            document == Assembled("export", got, now)
            own == {i \in DOMAIN page : got.rows[page[i].id].shows = "own"}
            messages == {k \in DOMAIN document : document[k].id # 0}
            Same(i, k) == page[i].id = document[k].id
        IN  /\ \A i \in own : \E k \in messages : Same(i, k)
            /\ \A k \in messages : \E i \in own : Same(i, k)
            /\ \A i, j \in own, k, l \in messages :
                  Same(i, k) /\ Same(j, l) => (i < j <=> k < l)
            /\ (\A m \in Ids : got.rows[m].shows # "context") =>
                  /\ \A i \in own, k \in messages :
                        Same(i, k) => page[i].response = document[k].response
                  /\ TotalResponse(document, DOMAIN document) =
                        TotalResponse(page, DOMAIN page)
                        + TotalResponse(document, DOMAIN document \ messages)

-----------------------------------------------------------------------------
(* What the proofs rest on, see TranscriptProofs.                          *)

QueriesToMake == todo \in Seq({"composer", "chunks", "rows", "edits"})
Pending(q) == \E i \in DOMAIN todo : todo[i] = q

\* The headers are kept in one of the two ways, and in the order of the messages.
InOrder(headers) == \A i \in DOMAIN headers : headers[i] = i
HeadersInOrder ==
    /\ InOrder(inline) /\ InOrder(Merged(chunks))
    /\ InOrder(got.composer.inline) /\ InOrder(Merged(got.chunks))
    /\ kept = "inline" => chunks = <<>> /\ got.chunks = <<>>
    /\ kept = "chunks" => inline = <<>> /\ got.composer.inline = <<>>

\* No row changes once it is written, and what was there when it began is in the
\* answer of every query made since.
OldIsHeld ==
    /\ old \subseteq Said
    /\ \A m \in old : rows[m] # NoRow
    /\ ~Pending("rows") => \A m \in old : got.rows[m] = rows[m]
    /\ kept = "inline" /\ ~Pending("composer") => old \subseteq ToSet(got.composer.inline)
    /\ kept = "chunks" /\ ~Pending("chunks") => old \subseteq ToSet(Merged(got.chunks))

\* No message is from after the clock, and what is shown is from no later than now.
NoTimeAhead ==
    /\ now # 0 => reader # "" /\ todo = <<>>
    /\ now <= clock
    /\ \A m \in Ids : rows[m].at <= clock /\ got.rows[m].at <= clock
    /\ now # 0 => \A m \in Ids : got.rows[m].at <= now

Gathering == TypeOK /\ QueriesToMake /\ HeadersInOrder /\ OldIsHeld /\ NoTimeAhead
===============================================================================
