----------------------------- MODULE WorkspaceViews -----------------------------
(***************************************************************************)
(* What the pages show of the IDE's conversations: the project list        *)
(* (services/workspace_listing.py), the tab summaries of a project, all    *)
(* its tabs and a single tab (services/workspace_tabs.py).  Each request   *)
(* reads Cursor's files one after the other, in an order of its own, while *)
(* Cursor writes; a read may fail, and then it answers empty.              *)
(*                                                                         *)
(* One user asks for one thing at a time.  The caches are left out: a      *)
(* request here is one with nocache, or the builder of a cache entry.      *)
(***************************************************************************)
EXTENDS WorkspaceResolver

CONSTANTS
    Secret,           \* what some exclusion rule matches
    FolderChoices,    \* what Cursor may have written: folders of a workspace,
    RosterChoices,    \* conversations it has registered,
    RowChoices,       \* rows of a conversation,
    LayoutChoices,    \* its project roots,
    MessageChoices,   \* its messages
    MaxWrites,        \* bound: writes of Cursor
    MaxFaults         \* bound: failing reads

VARIABLES
    folders, roster, rows, layouts, messages,    \* Cursor's files
    ask, busy,    \* the request: what is, or was last, asked for; in flight
    todo,         \* the reads it has still to do
    got,          \* what it has read
    listing,      \* the last project list and the rows it was made of
    tabs,         \* the last summaries
    page,         \* the last answer to a request for tabs
    still,        \* history: nothing was written, and no read failed, since the list
    writes, faults

disk == <<folders, roster, rows, layouts, messages>>
shown == <<listing, tabs, page>>
vars == <<disk, ask, busy, todo, got, shown, still, writes, faults>>

Row == [kind : {"none", "null", "broken", "draft", "inline", "chunked"},
        name : Names \cup {None}, own : Seq(Text)]
Message == [first : Names \cup {None}, files : Seq(Text)]
Sources == {"folders", "roster", "rows", "layouts", "messages"}
Ids == Workspaces \cup {"global"}
Asks == [kind : {"none", "list", "summaries", "tabs", "tab"}, ws : Ids, chat : Composers \cup {None}]
Warned == [tabs : SUBSET Composers, warnings : SUBSET Composers]
Project == [id : Ids, group : SUBSET Ids, chats : SUBSET Composers]

ASSUME ViewsAssumption ==
    /\ Secret \subseteq Names /\ MaxWrites \in Nat /\ MaxFaults \in Nat
    /\ DOMAIN FolderChoices = Workspaces /\ DOMAIN RosterChoices = Workspaces
    /\ \A choices \in {RowChoices, LayoutChoices, MessageChoices} : DOMAIN choices = Composers
    /\ \A w \in Workspaces : \A f \in FolderChoices[w] :
          f \in Seq(Text) /\ \A i \in DOMAIN f : f[i].path # <<>>
    /\ \A w \in Workspaces : RosterChoices[w] \subseteq SUBSET Composers
    /\ \A c \in Composers :
          /\ RowChoices[c] \subseteq Row
          /\ \A r \in RowChoices[c] : \A i \in DOMAIN r.own : ~r.own[i].uri
          /\ LayoutChoices[c] \subseteq Seq(Text) /\ MessageChoices[c] \subseteq Message

\* Mutant of Empty: a failing read leaves None.
EmptyNone == [s \in {"folders", "roster", "rows", "layouts", "messages"} |-> None]

\* What a failing read leaves: safe_fetchall and the loaders answer [] or {}.
NoRows == [c \in Composers |-> [kind |-> "none", name |-> None, own |-> <<>>]]
Empty == [folders  |-> [w \in Workspaces |-> <<>>],
          roster   |-> [w \in Workspaces |-> {}],
          rows     |-> NoRows,
          layouts  |-> [c \in Composers |-> <<>>],
          messages |-> [c \in Composers |-> [first |-> None, files |-> <<>>]]]
OnDisk == [folders |-> folders, roster |-> roster, rows |-> rows,
           layouts |-> layouts, messages |-> messages]

Nothing == [kind |-> "none", ws |-> "global", chat |-> None]
NoList == [projects |-> {}, warnings |-> {}, rows |-> NoRows]
NoTabs == [tabs |-> {}, warnings |-> {}]

TypeOK ==
    /\ folders \in [Workspaces -> Seq(Text)] /\ roster \in [Workspaces -> SUBSET Composers]
    /\ rows \in [Composers -> Row] /\ layouts \in [Composers -> Seq(Text)]
    /\ messages \in [Composers -> Message]
    /\ ask \in Asks /\ busy \in BOOLEAN /\ todo \in Seq(Sources)
    /\ got.folders \in [Workspaces -> Seq(Text)] /\ got.roster \in [Workspaces -> SUBSET Composers]
    /\ got.rows \in [Composers -> Row] /\ got.layouts \in [Composers -> Seq(Text)]
    /\ got.messages \in [Composers -> Message]
    /\ listing.projects \subseteq Project /\ listing.rows \in [Composers -> Row]
    /\ listing.warnings \subseteq Composers
    /\ tabs \in Warned /\ page \in Warned
    /\ still \in BOOLEAN /\ writes \in 0 .. MaxWrites /\ faults \in 0 .. MaxFaults

-----------------------------------------------------------------------------
(* Rows, services/workspace_composer_scan.py and utils/conversation_index.py. *)

\* The SQL leaves out rows without a value.
Scanned(rs) == {c \in Composers : rs[c].kind \notin {"none", "null"}}

\* Those with headers, inline or in composerConvHeaders chunks.
Readable(rs) == {c \in Composers : rs[c].kind \in {"inline", "chunked"}}

\* A row that is no JSON object, or not of the schema, is counted.
Skipped(rs) == {c \in Composers : rs[c].kind = "broken"}

\* The rules match a text in which one of these is found.
Excluded(texts) == texts \cap Secret # {}

\* composer_chat_title: the placeholder of a nameless conversation matches none.
ListTitle(row) == row.name

\* _derive_composer_tab_title: the first message stands for a missing name.
TabTitle(row, message) == IF row.name = None THEN message.first ELSE row.name

\* lookup_workspace_display_name; "Other chats" and a bare id match no rule.
DisplayName(w, fs) == IF w = "global" \/ fs[w] = <<>> THEN None ELSE Leaf(fs[w][1])

-----------------------------------------------------------------------------
(* The answers.  fs are the workspace files as they are by now.            *)

ListedIn(w, r, fs, lay) ==
    {c \in Readable(r.rows) :
        Assigned(c, r.folders, fs, r.roster, lay, r.rows, <<>>) = w}

\* Mutant of ProjectOf: conversations of the first workspace only.
ProjectOfFirst(w, r, fs) ==
    LET group == Group(w, fs)
    IN  [id |-> w, group |-> group,
         chats |-> {c \in ListedIn(w, r, fs, r.layouts) :
                      ~Excluded({DisplayName(w, fs), ListTitle(r.rows[c])})}]

\* A project: the workspaces of one folder under the first of them.
ProjectOf(w, r, fs) ==
    LET group == Group(w, fs)
    IN  [id |-> w, group |-> group,
         chats |-> {c \in UNION {ListedIn(v, r, fs, r.layouts) : v \in group} :
                      ~Excluded({DisplayName(w, fs), ListTitle(r.rows[c])})}]

\* _build_workspace_projects_uncached; a project without conversations is not
\* listed, "global" holds those nothing claims.
Projects(r, fs) ==
    LET primaries == {w \in Workspaces : FirstListed(Group(w, fs)) = w}
    IN  {p \in {ProjectOf(w, r, fs) : w \in primaries \cup {"global"}} : p.chats # {}}

\* _iter_assigned_workspace_composers, without messages.
AssignedTo(w, r, fs) == UNION {ListedIn(v, r, fs, r.layouts) : v \in Group(w, r.folders)}

\* Mutant of SummariesOf: the rules are left to the full tab.
SummariesUnruled(w, r, fs) ==
    [tabs |-> AssignedTo(w, r, fs), warnings |-> Skipped(r.rows)]

\* _build_workspace_tab_summaries_uncached.
SummariesOf(w, r, fs) ==
    [tabs |-> {c \in AssignedTo(w, r, fs) :
                 ~Excluded({DisplayName(w, fs), ListTitle(r.rows[c])})},
     warnings |-> Skipped(r.rows)]

\* _assemble_tab_from_composer_data: none without a message that can be shown.
HasTab(c, w, r, fs) ==
    /\ r.messages[c].first # None
    /\ ~Excluded({DisplayName(w, fs), TabTitle(r.rows[c], r.messages[c])})

\* Mutant of TabsOf: the messages it has loaded take part in the assignment.
TabsOfSaid(w, r, fs) ==
    [tabs |-> {c \in Readable(r.rows) :
         /\ Assigned(c, r.folders, fs, r.roster, r.layouts, r.rows, r.messages[c].files)
              \in Group(w, r.folders)
         /\ HasTab(c, w, r, fs)},
     warnings |-> Skipped(r.rows)]

\* assemble_workspace_tabs; the messages are loaded, but not for the assignment.
TabsOf(w, r, fs) ==
    [tabs |-> {c \in AssignedTo(w, r, fs) : HasTab(c, w, r, fs)},
     warnings |-> Skipped(r.rows)]

\* Mutant of TabOf: its own layouts are not loaded.
TabOfRootless(w, c, r, fs) ==
    [tabs |-> {d \in {c} \cap Readable(r.rows) :
         /\ Assigned(d, r.folders, fs, r.roster, [layouts EXCEPT ![d] = <<>>],
                     [rows EXCEPT ![d] = r.rows[d]], r.messages[d].files) \in Group(w, r.folders)
         /\ HasTab(d, w, r, fs)},
     warnings |-> {c} \cap Skipped(r.rows)]

\* assemble_single_tab: its messages take part in the assignment, the votes
\* are on all layouts; no tab is a 404.
TabOf(w, c, r, fs) ==
    [tabs |-> {d \in {c} \cap Readable(r.rows) :
         /\ Assigned(d, r.folders, fs, r.roster, [layouts EXCEPT ![d] = r.layouts[d]],
                     [rows EXCEPT ![d] = r.rows[d]], r.messages[d].files) \in Group(w, r.folders)
         /\ HasTab(d, w, r, fs)},
     warnings |-> {c} \cap Skipped(r.rows)]

-----------------------------------------------------------------------------
(* A request.                                                              *)

\* What each handler reads, in its order.
Reads(kind) ==
    CASE kind = "list"      -> <<"folders", "roster", "rows", "layouts">>
      [] kind = "summaries" -> <<"folders", "roster", "layouts", "rows">>
      [] kind = "tabs"      -> <<"folders", "roster", "messages", "layouts", "rows">>
      [] kind = "tab"       -> <<"folders", "roster", "rows", "layouts", "messages">>

Start(a) ==
    /\ ~busy /\ busy' = TRUE
    /\ ask' = a
    /\ todo' = Reads(a.kind)
    /\ got' = Empty

AskList ==
    /\ Start([Nothing EXCEPT !.kind = "list"])
    /\ still' = TRUE
    /\ listing' = NoList /\ tabs' = NoTabs /\ page' = NoTabs
    /\ UNCHANGED <<disk, writes, faults>>

\* The page of a listed project loads its summaries.
AskSummaries ==
    /\ \E p \in listing.projects : \E w \in p.group :
         Start([Nothing EXCEPT !.kind = "summaries", !.ws = w])
    /\ tabs' = NoTabs /\ page' = NoTabs
    /\ UNCHANGED <<disk, listing, still, writes, faults>>

\* All tabs of a listed project.
AskTabs ==
    /\ \E p \in listing.projects :
         Start([Nothing EXCEPT !.kind = "tabs", !.ws = p.id])
    /\ tabs' = NoTabs /\ page' = NoTabs
    /\ UNCHANGED <<disk, listing, still, writes, faults>>

\* A conversation of the summaries is opened.
AskTab ==
    /\ \E c \in tabs.tabs : Start([kind |-> "tab", ws |-> ask.ws, chat |-> c])
    /\ page' = NoTabs
    /\ UNCHANGED <<disk, listing, tabs, still, writes, faults>>

Read ==
    /\ todo # <<>>
    /\ got' = [got EXCEPT ![Head(todo)] = OnDisk[Head(todo)]]
    /\ todo' = Tail(todo)
    /\ UNCHANGED <<disk, ask, busy, shown, still, writes, faults>>

\* The database is locked or damaged.
FailingRead ==
    /\ todo # <<>> /\ faults < MaxFaults
    /\ got' = [got EXCEPT ![Head(todo)] = Empty[Head(todo)]]
    /\ todo' = Tail(todo)
    /\ faults' = faults + 1 /\ still' = FALSE
    /\ UNCHANGED <<disk, ask, busy, shown, writes>>

Answer ==
    /\ busy /\ todo = <<>> /\ busy' = FALSE
    /\ CASE ask.kind = "list" ->
              /\ listing' = [projects |-> Projects(got, folders),
                             warnings |-> Skipped(got.rows), rows |-> got.rows]
              /\ UNCHANGED <<tabs, page>>
         [] ask.kind = "summaries" ->
              tabs' = SummariesOf(ask.ws, got, folders) /\ UNCHANGED <<listing, page>>
         [] ask.kind = "tabs" ->
              page' = TabsOf(ask.ws, got, folders) /\ UNCHANGED <<listing, tabs>>
         [] ask.kind = "tab" ->
              page' = TabOf(ask.ws, ask.chat, got, folders) /\ UNCHANGED <<listing, tabs>>
    /\ UNCHANGED <<disk, ask, todo, got, still, writes, faults>>

-----------------------------------------------------------------------------
(* Cursor.                                                                 *)

Write ==
    /\ writes < MaxWrites /\ writes' = writes + 1
    /\ still' = FALSE
    /\ UNCHANGED <<ask, busy, todo, got, shown, faults>>

WriteFolders(w) ==
    /\ \E f \in FolderChoices[w] \ {folders[w]} : folders' = [folders EXCEPT ![w] = f]
    /\ Write /\ UNCHANGED <<roster, rows, layouts, messages>>

WriteRoster(w) ==
    /\ \E s \in RosterChoices[w] \ {roster[w]} : roster' = [roster EXCEPT ![w] = s]
    /\ Write /\ UNCHANGED <<folders, rows, layouts, messages>>

WriteRow(c) ==
    /\ \E r \in RowChoices[c] \ {rows[c]} : rows' = [rows EXCEPT ![c] = r]
    /\ Write /\ UNCHANGED <<folders, roster, layouts, messages>>

WriteLayouts(c) ==
    /\ \E l \in LayoutChoices[c] \ {layouts[c]} : layouts' = [layouts EXCEPT ![c] = l]
    /\ Write /\ UNCHANGED <<folders, roster, rows, messages>>

WriteMessages(c) ==
    /\ \E m \in MessageChoices[c] \ {messages[c]} : messages' = [messages EXCEPT ![c] = m]
    /\ Write /\ UNCHANGED <<folders, roster, rows, layouts>>

\* The functions that take one of the choices for each element.
Chosen(choices) ==
    {f \in [DOMAIN choices -> UNION {choices[x] : x \in DOMAIN choices}] :
        \A x \in DOMAIN choices : f[x] \in choices[x]}

Init ==
    /\ folders \in Chosen(FolderChoices)
    /\ roster \in Chosen(RosterChoices)
    /\ rows \in Chosen(RowChoices)
    /\ layouts \in Chosen(LayoutChoices)
    /\ messages \in Chosen(MessageChoices)
    /\ ask = Nothing /\ busy = FALSE /\ todo = <<>> /\ got = Empty
    /\ listing = NoList /\ tabs = NoTabs /\ page = NoTabs
    /\ still = FALSE /\ writes = 0 /\ faults = 0

Next ==
    \/ AskList \/ AskSummaries \/ AskTabs \/ AskTab
    \/ Read \/ FailingRead \/ Answer
    \/ \E w \in Workspaces : WriteFolders(w) \/ WriteRoster(w)
    \/ \E c \in Composers : WriteRow(c) \/ WriteLayouts(c) \/ WriteMessages(c)

Spec == Init /\ [][Next]_vars

-----------------------------------------------------------------------------
(* Properties.                                                             *)

Answered(kind) == ~busy /\ ask.kind = kind

\* A rule matches its own name, or the name of a project it may be under.
MayBeHidden(c, rs) ==
    \/ rs[c].name \in Secret
    \/ \E w \in Workspaces : \E f \in FolderChoices[w] : f # <<>> /\ Leaf(f[1]) \in Secret

\* Every conversation the list has read is under exactly one project, or a rule
\* hides it, and every row it could not parse is counted, whatever Cursor wrote
\* meanwhile and whichever of the other reads failed and answered nothing.
NoneIsLost ==
    LET holders(c) == {p \in listing.projects : c \in p.chats}
    IN  \A c \in Composers :
            /\ listing.rows[c].kind \in {"inline", "chunked"} =>
                  \/ Cardinality(holders(c)) = 1
                  \/ holders(c) = {} /\ MayBeHidden(c, listing.rows)
            /\ listing.rows[c].kind = "broken" => c \in listing.warnings

\* The summaries of a listed project, asked for under any of the workspaces it
\* stands for, are the conversations the list counted: list and summaries agree
\* on assignment, headers, rules and skipped rows.
SummariesAgree ==
    still /\ Answered("summaries") =>
        \E p \in listing.projects :
            ask.ws \in p.group /\ tabs = [tabs |-> p.chats, warnings |-> listing.warnings]

\* The workspace of a conversation does not hang on its messages: one that has
\* a folder registered it, or a project root or a file of its own leads there.
Anchored(c) ==
    \/ Registered(c, roster) \notin Invalid(folders) \cup {None}
    \/ \E i \in DOMAIN layouts[c] : LayoutOwner(layouts[c][i], folders) # None
    \/ \E i \in DOMAIN rows[c].own : FileOwner(rows[c].own[i], folders) # None

\* A conversation of the summaries that is anchored opens: it is a 404 only when
\* it has no message to show or its first message brings it under a rule.
OpensWhatIsAnchored ==
    still /\ Answered("tab") /\ Anchored(ask.chat)
    => page.tabs = {ask.chat} \/ ~HasTab(ask.chat, ask.ws, OnDisk, folders)

\* A conversation the sidebar shows opens.
OpensWhatIsListed ==
    still /\ Answered("tab") =>
        page.tabs = {ask.chat} \/ ~HasTab(ask.chat, ask.ws, OnDisk, folders)

\* All tabs of a project are among the conversations listed for it.
TabsAreListed ==
    still /\ Answered("tabs") =>
        \E p \in listing.projects : p.id = ask.ws /\ page.tabs \subseteq p.chats

\* No conversation is listed under a workspace that has lost its folder: it is
\* under what the others of that workspace point to, or under "global".
NoOrphanOwns ==
    still /\ Answered("list") =>
        \A p \in listing.projects : p.group \cap Invalid(folders) = {}

\* How deep the folders of a workspace are that contain a file.
Depths(w, file) ==
    {Len(t.path) : t \in {u \in ToSet(folders[w]) : IsPrefix(u.path, file.path)}}

\* A conversation nothing else is known of is listed under the workspace whose
\* folder is the innermost around the first file it has touched.
InnermostOwns ==
    still /\ Answered("list") =>
        \A p \in listing.projects : \A c \in p.chats :
            LET around == {w \in Workspaces : Depths(w, Head(rows[c].own)) # {}}
            IN  /\ Registered(c, roster) \in Invalid(folders) \cup {None}
                /\ layouts[c] = <<>> /\ rows[c].own # <<>>
                /\ around # {}
                => \E w \in p.group \cap around : \A v \in around :
                      Max(Depths(v, Head(rows[c].own))) <= Max(Depths(w, Head(rows[c].own)))

-----------------------------------------------------------------------------
(* What the proofs rest on, see WorkspaceViewsProofs.                      *)

\* The folders are what Cursor may have written, and so is what was read of them.
WellRead ==
    /\ Known(folders) /\ \A w \in Workspaces : folders[w] \in FolderChoices[w]
    /\ Known(got.folders) /\ DOMAIN got = Sources /\ (busy => ask.kind # "none")

\* While nothing is written and no read fails, what a request has read is on disk.
ReadsNow ==
    still /\ busy => \A s \in ToSet(Reads(ask.kind)) : s \in ToSet(todo) \/ got[s] = OnDisk[s]

\* And the list that was answered is the one that would be answered now.
ListNow ==
    still /\ ~(busy /\ ask.kind = "list") =>
        listing = [projects |-> Projects(OnDisk, folders), warnings |-> Skipped(rows), rows |-> rows]

\* And so are the conversations of the summaries.
SummariesNow == still => tabs.tabs \subseteq AssignedTo(ask.ws, OnDisk, folders)

\* A page is asked for from the page it is linked on.
AskedFromList ==
    /\ ask.kind = "summaries" => \E p \in listing.projects : ask.ws \in p.group
    /\ ask.kind = "tabs" => \E p \in listing.projects : ask.ws = p.id
    /\ ask.kind = "tab" => ask.chat \in tabs.tabs
===============================================================================
