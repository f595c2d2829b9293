---------------------------- MODULE MCWorkspaceViews ----------------------------
(* Instances of WorkspaceViews for TLC. *)
EXTENDS WorkspaceViews, TLC

CONSTANTS w1, w2, w3, c1, c2

Names3 == [n \in {"top", "app", "core", "hidden", "hi"} |->
              CASE n = "core" -> 4 [] n = "hidden" -> 6 [] n = "hi" -> 2 [] OTHER -> 3]
InOrder == <<w1, w2, w3>>
Rows == <<c1, c2>>

Uri(path) == [uri |-> TRUE, path |-> path]
App == <<"top", "app">>
Core == <<"top", "core">>
Inner == <<"top", "app", "core">>
File(folder) == Plain(folder \o <<"hi">>)

\* w2 is another window of w1's folder, or a folder inside of it or beside it;
\* w3 may have lost its folder.
Windows == w1 :> {<<Uri(App)>>}
        @@ w2 :> {<<Uri(App)>>, <<Uri(Inner)>>, <<Uri(Core)>>}
        @@ w3 :> {<<>>, <<Uri(Inner), Uri(<<"top", "hidden">>)>>}
Registers == w1 :> {{}} @@ w2 :> {{}} @@ w3 :> {{c2}, {c1, c2}}
RowsOf ==
    c1 :> {[kind |-> "chunked", name |-> None, own |-> <<File(Core)>>],
           [kind |-> "draft", name |-> None, own |-> <<File(Inner)>>],
           [kind |-> "inline", name |-> "hidden", own |-> <<File(Inner), File(Core)>>]}
 @@ c2 :> {[kind |-> "chunked", name |-> None, own |-> <<>>],
           [kind |-> "inline", name |-> "hi", own |-> <<File(Inner), File(Core)>>],
           [kind |-> "broken", name |-> None, own |-> <<>>]}
Roots == c1 :> {<<>>, <<Plain(<<"top", "hi">>), Plain(App)>>} @@ c2 :> {<<>>}
Says ==
    c1 :> {[first |-> None, files |-> <<>>], [first |-> "hi", files |-> <<File(App)>>],
           [first |-> "hidden", files |-> <<>>]}
 @@ c2 :> {[first |-> "hi", files |-> <<>>]}

\* After a write or a failing read nothing is claimed of the pages that follow the
\* list, so they are not followed further; another list may still be asked for.
Claimed == still \/ ask.kind \in {"none", "list"}
=============================================================================
