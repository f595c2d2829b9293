--------------------------- MODULE WorkspaceResolver ---------------------------
(***************************************************************************)
(* Whose conversation is it?  services/workspace_resolver.py and what      *)
(* services/workspace_composer_scan.py makes of it, as operators on what a *)
(* request has read of Cursor's files:                                     *)
(*   fs   the folders of each workspace, <<>> when workspace.json has none *)
(*   rost the composers registered in the database of each workspace       *)
(*   lay  the project roots of each conversation (messageRequestContext)   *)
(*   own  the files a conversation created or has code blocks for          *)
(*   said the files its messages refer to                                  *)
(*                                                                         *)
(* A path as it is stored is its components and whether it is a file: URI. *)
(* No stored folder is the root of the file system, no name has a capital  *)
(* letter or an escape, and Windows paths are read on Windows.             *)
(***************************************************************************)
EXTENDS Integers, Sequences, SequencesExt, FiniteSetsExt

CONSTANTS
    Workspaces,    \* folders of workspaceStorage that have a workspace.json
    Composers,     \* conversations of the global database
    Listing,       \* the workspaces in the order os.listdir gives them
    RowOrder,      \* the conversations in the order of their rows
    Names,         \* names of directories, projects and conversations
    NameLength,    \* their lengths
    Host,          \* where the program runs
    None           \* Python's None

Text == [uri : BOOLEAN, path : Seq(Names)]

ASSUME ResolverAssumption ==
    /\ Listing \in Seq(Workspaces) /\ ToSet(Listing) = Workspaces /\ IsInjective(Listing)
    /\ RowOrder \in Seq(Composers) /\ ToSet(RowOrder) = Composers /\ IsInjective(RowOrder)
    /\ NameLength \in [Names -> Nat \ {0}]
    /\ Host \in {"posix", "win32"}
    /\ None \notin Workspaces \cup Names
    /\ "global" \notin Workspaces

Leaf(t) == Last(t.path)
Plain(path) == [uri |-> FALSE, path |-> path]

Rank(w) == CHOOSE i \in DOMAIN Listing : Listing[i] = w
FirstListed(S) == CHOOSE w \in S : \A v \in S : Rank(w) <= Rank(v)
LastListed(S) == CHOOSE w \in S : \A v \in S : Rank(v) <= Rank(w)

\* The first element of a sequence that is not None.
FirstSome(s) ==
    LET hits == {i \in DOMAIN s : s[i] # None}
    IN  IF hits = {} THEN None ELSE s[Min(hits)]

-----------------------------------------------------------------------------
(* Paths.                                                                  *)

\* normalize_file_path strips "file:///" as a whole: on a POSIX path that
\* takes the leading slash away, on a Windows path it leaves the drive.
Normal(t) == [abs |-> Host = "win32" \/ ~t.uri, path |-> t.path]

\* commonpath([file, folder]) == folder, which raises for one relative and one
\* absolute path.
Within(file, folder) ==
    /\ Normal(file).abs = Normal(folder).abs
    /\ IsPrefix(folder.path, file.path)

\* "/name/" in p or p.endswith("/name"): nothing is before a drive, nor before
\* what was a URI.
NamedIn(t, name) ==
    \E i \in DOMAIN t.path : t.path[i] = name /\ (i > 1 \/ (Host = "posix" /\ ~t.uri))

\* Mutant of FileOwner: the first workspace that contains the file.
FileOwnerFirst(file, fs) ==
    LET owners == {w \in Workspaces : \E t \in ToSet(fs[w]) : Within(file, t)}
    IN  IF owners = {} THEN None ELSE FirstListed(owners)

\* get_project_from_file_path: the longest root that contains the file, the
\* first workspace among equals.
FileOwner(file, fs) ==
    LET Depths(w) == {Len(t.path) : t \in {u \in ToSet(fs[w]) : Within(file, u)}}
        owners == {w \in Workspaces : Depths(w) # {}}
    IN  IF owners = {} THEN None
        ELSE FirstListed({w \in owners : \A v \in owners : Max(Depths(v)) <= Max(Depths(w))})

\* The maps of a context; the last workspace wins.
OfPath(t, fs) ==
    LET ws == {w \in Workspaces : \E u \in ToSet(fs[w]) : Normal(u) = Normal(t)}
    IN  IF ws = {} THEN None ELSE LastListed(ws)

OfName(name, fs) ==
    LET ws == {w \in Workspaces : \E u \in ToSet(fs[w]) : Leaf(u) = name}
    IN  IF ws = {} THEN None ELSE LastListed(ws)

LayoutOwner(root, fs) == FirstSome(<<OfPath(root, fs), OfName(Leaf(root), fs)>>)

\* The last resort: the longest name of a workspace folder that is a component
\* of one of the files; the first file, then the first workspace, among equals.
NameOwner(files, fs) ==
    LET Found(i, w) == {NameLength[Leaf(t)] : t \in {u \in ToSet(fs[w]) : NamedIn(files[i], Leaf(u))}}
        hits == {h \in (DOMAIN files) \X Workspaces : Found(h[1], h[2]) # {}}
        Length(h) == Max(Found(h[1], h[2]))
        longest == {h \in hits : \A g \in hits : Length(g) <= Length(h)}
    IN  IF hits = {} THEN None
        ELSE (CHOOSE h \in longest : \A g \in longest :
                h[1] < g[1] \/ (h[1] = g[1] /\ Rank(h[2]) <= Rank(g[2])))[2]

-----------------------------------------------------------------------------
(* One conversation.                                                       *)

\* The first workspace that has registered the conversation.
Registered(c, rost) ==
    LET ws == {w \in Workspaces : c \in rost[w]}
    IN  IF ws = {} THEN None ELSE FirstListed(ws)

\* collect_invalid_workspace_ids: no folder can be resolved.
Invalid(fs) == {w \in Workspaces : fs[w] = <<>>}

\* The heuristics.  The maps were made of mapped; the workspace files are read
\* again, as fs, whenever a file is looked up.
Inferred(mapped, fs, roots, own, said) ==
    FirstSome([i \in DOMAIN roots |-> LayoutOwner(roots[i], mapped)]
              \o [i \in DOMAIN (own \o said) |-> FileOwner((own \o said)[i], fs)]
              \o <<NameOwner(own \o said, fs)>>)

\* determine_project_for_conversation.
Determined(c, mapped, fs, rost, roots, own, said) ==
    LET r == Registered(c, rost)
    IN  IF r # None /\ r \notin Invalid(mapped) THEN r
        ELSE Inferred(mapped, fs, roots, own, said)

\* infer_invalid_workspace_aliases: the conversations an invalid workspace has
\* registered vote, by their own inferred workspace; messages are not loaded.
\* The votes are by the place of the conversation in the order of the rows.
Votes(w, mapped, fs, rost, lay, rows) ==
    LET Vote(c) == IF Registered(c, rost) = w /\ rows[c].kind \in {"draft", "inline", "chunked"}
                     THEN Inferred(mapped, fs, lay[c], rows[c].own, <<>>) ELSE None
        voters == {i \in DOMAIN RowOrder : Vote(RowOrder[i]) \notin Invalid(mapped) \cup {None}}
    IN  [i \in voters |-> Vote(RowOrder[i])]

\* Mutant of Alias: an invalid workspace nobody votes for stands for itself.
AliasSelf(w, mapped, fs, rost, lay, rows) ==
    LET votes == Votes(w, mapped, fs, rost, lay, rows)
    IN  IF DOMAIN votes = {} THEN w ELSE votes[Min(DOMAIN votes)]

\* Most votes, the earliest candidate among equals.
Alias(w, mapped, fs, rost, lay, rows) ==
    LET votes == Votes(w, mapped, fs, rost, lay, rows)
        Count(v) == Cardinality({i \in DOMAIN votes : votes[i] = v})
        winners == {i \in DOMAIN votes : \A v \in ToSet(votes) : Count(v) <= Count(votes[i])}
    IN  IF DOMAIN votes = {} THEN None ELSE votes[Min(winners)]

\* assign_composer_workspace.
Assigned(c, mapped, fs, rost, lay, rows, said) ==
    LET d == Determined(c, mapped, fs, rost, lay[c], rows[c].own, said)
        r == Registered(c, rost)
        alias == IF r \in Invalid(mapped) THEN Alias(r, mapped, fs, rost, lay, rows) ELSE None
        all == FirstSome(<<d, alias>>)
    IN  IF all = None THEN "global" ELSE all

\* matching_workspace_ids_for_folder, and the groups of the listing: the
\* workspaces with the same first folder.
Group(w, fs) ==
    {w} \cup {v \in Workspaces :
        w # "global" /\ fs[w] # <<>> /\ fs[v] # <<>> /\ Normal(fs[v][1]) = Normal(fs[w][1])}

-----------------------------------------------------------------------------
(* What the proofs rest on, see WorkspaceViewsProofs.                      *)

\* Folders as they may be stored.
Known(fs) ==
    /\ fs \in [Workspaces -> Seq(Text)]
    /\ \A w \in Workspaces : \A i \in DOMAIN fs[w] : fs[w][i].path # <<>>

=============================================================================
