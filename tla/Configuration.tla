----------------------------- MODULE Configuration -----------------------------
(***************************************************************************)
(* What a running browser has been told: the exclusion rules each worker   *)
(* process loads when it starts (app.py), and the workspace path, which    *)
(* POST /api/set-workspace (api/config_api.py) puts into the memory of the *)
(* process that answers it (utils/workspace_path.py).                      *)
(***************************************************************************)
EXTENDS ExclusionRules

CONSTANTS
    Workers,        \* processes the server may have
    Deployments,    \* ways it may have been started
    Files,          \* rules files there may be
    Starts,         \* SUBSET (Deployments \X Files), those it starts with
    Edits,          \* rules files that may be saved later
    Raw,            \* paths a user may send
    Storages,       \* directories
    RealPath,       \* [Raw -> Storages], links and tildes resolved
    Base,           \* WORKSPACE_PATH, --base-dir or what is detected
    Texts,          \* texts the rules are asked about
    Conversations,  \* [listed |-> title parts, content |-> text]
    MaxEdits,       \* bound: edits of the rules file
    None

VARIABLES
    deployment,
    rulesFile,      \* the file and, for the properties, what its author meant
    marked,         \* the directories with a workspace in them
    override,       \* [Workers -> path or None], _workspace_path_override
    pending,        \* [Workers -> path or None], validated and not yet stored
    reply,          \* [Workers -> ...], of the last set-workspace
    rules,          \* [Workers -> tokens], EXCLUSION_RULES
    loaded,         \* history: the file a worker loaded
    edits

vars == <<deployment, rulesFile, marked, override, pending, reply, rules, loaded, edits>>

Flags == {"", "yes", "no"}
Replies == {"none", "success", "invalid_path", "multi_worker"}

ASSUME ConfigurationAssumption ==
    /\ \A d \in Deployments :
          /\ d.workers \subseteq Workers /\ d.workers # {}
          /\ d.flag \in Flags /\ d.environ \in Seq(Nat) /\ d.args \in Seq(Nat)
    /\ RealPath \in [Raw -> Storages] /\ Base \in Storages /\ None \notin Storages
    /\ Starts \subseteq Deployments \X Files /\ Edits \subseteq Files
    /\ \A f \in Files :
          /\ f.readable \in BOOLEAN /\ f.lines \in Seq(Seq(Pieces))
          /\ \A i \in DOMAIN f.meant : f.meant[i].items \in Seq(Item)
    /\ \A c \in Conversations : c.listed \in Seq(Seq(Pieces)) /\ c.content \in Seq(Pieces)
    /\ Texts \subseteq Seq(Pieces)
    /\ MaxEdits \in Nat

ConfigTypeOK ==
    /\ deployment \in Deployments /\ rulesFile \in Files
    /\ marked \subseteq Storages /\ edits \in 0 .. MaxEdits
    /\ override \in [Workers -> Storages \cup {None}]
    /\ pending \in [Workers -> Storages \cup {None}]
    /\ reply \in [Workers -> Replies]
    /\ loaded \in [Workers -> Files]
    /\ rules \in [Workers -> SUBSET Seq([op : Keywords \cup {"term"}, value : Seq(Pieces)])]

-----------------------------------------------------------------------------

\* Mutant of MultiWorker: the first variable that is set decides.
MultiWorkerFirst(d) ==
    CASE d.flag = "yes" -> TRUE
      [] d.flag = "no"  -> FALSE
      [] OTHER -> d.environ # <<>> /\ Head(d.environ) > 1

\* is_multi_worker_process_deployment: the flag, then WEB_CONCURRENCY and
\* GUNICORN_WORKERS, then every --workers of GUNICORN_CMD_ARGS.
MultiWorker(d) ==
    CASE d.flag = "yes" -> TRUE
      [] d.flag = "no"  -> FALSE
      [] OTHER -> \E n \in ToSet(d.environ \o d.args) : n > 1

\* resolve_workspace_path
Resolve(w) == IF override[w] # None THEN override[w] ELSE Base

\* create_app: a worker starts, at first or after its process was replaced.
Restart(w) ==
    /\ w \in deployment.workers
    /\ rules' = [rules EXCEPT ![w] = LoadRules(rulesFile)]
    /\ loaded' = [loaded EXCEPT ![w] = rulesFile]
    /\ override' = [override EXCEPT ![w] = None]
    /\ pending' = [pending EXCEPT ![w] = None]
    /\ reply' = [reply EXCEPT ![w] = "none"]
    /\ UNCHANGED <<deployment, rulesFile, marked, edits>>

\* Mutant of Validate: the path is stored as it was sent.
ValidateRaw(w) ==
    /\ w \in deployment.workers /\ pending[w] = None
    /\ \E raw \in Raw :
         IF RealPath[raw] \in marked
           THEN /\ pending' = [pending EXCEPT ![w] = raw]
                /\ reply' = [reply EXCEPT ![w] = "none"]
           ELSE /\ reply' = [reply EXCEPT ![w] = "invalid_path"]
                /\ UNCHANGED pending
    /\ UNCHANGED <<deployment, rulesFile, marked, override, rules, loaded, edits>>

\* validate_workspace_path: the real path, when it holds a workspace.
Validate(w) ==
    /\ w \in deployment.workers /\ pending[w] = None
    /\ \E raw \in Raw :
         IF RealPath[raw] \in marked
           THEN /\ pending' = [pending EXCEPT ![w] = RealPath[raw]]
                /\ reply' = [reply EXCEPT ![w] = "none"]
           ELSE /\ reply' = [reply EXCEPT ![w] = "invalid_path"]
                /\ UNCHANGED pending
    /\ UNCHANGED <<deployment, rulesFile, marked, override, rules, loaded, edits>>

\* set_workspace, the rest of it: 409 or the override of this process.
Store(w) ==
    /\ pending[w] # None
    /\ pending' = [pending EXCEPT ![w] = None]
    /\ IF MultiWorker(deployment)
         THEN reply' = [reply EXCEPT ![w] = "multi_worker"] /\ UNCHANGED override
         ELSE /\ override' = [override EXCEPT ![w] = pending[w]]
              /\ reply' = [reply EXCEPT ![w] = "success"]
    /\ UNCHANGED <<deployment, rulesFile, marked, rules, loaded, edits>>

\* Cursor makes its first workspace in a directory, or a user clears it.
Mark(s) ==
    /\ marked' = IF s \in marked THEN marked \ {s} ELSE marked \cup {s}
    /\ UNCHANGED <<deployment, rulesFile, override, pending, reply, rules, loaded, edits>>

\* The user saves another rules file.
EditRules ==
    /\ edits < MaxEdits /\ edits' = edits + 1
    /\ \E f \in Edits : rulesFile' = f
    /\ UNCHANGED <<deployment, marked, override, pending, reply, rules, loaded>>

Init ==
    /\ \E start \in Starts : deployment = start[1] /\ rulesFile = start[2]
    /\ marked = {Base}
    /\ override = [w \in Workers |-> None] /\ pending = [w \in Workers |-> None]
    /\ reply = [w \in Workers |-> "none"]
    /\ rules = [w \in Workers |-> LoadRules(rulesFile)]
    /\ loaded = [w \in Workers |-> rulesFile]
    /\ edits = 0

Next ==
    \/ \E w \in Workers : Restart(w) \/ Validate(w) \/ Store(w)
    \/ \E s \in Storages : Mark(s)
    \/ EditRules

Spec == Init /\ [][Next]_vars

-----------------------------------------------------------------------------
(* Properties.                                                             *)

\* Where the server knows of its workers, they all read one storage, whichever
\* of them a set-workspace reached and whichever was replaced since; otherwise
\* two requests of one page would be answered from different storages.
WorkersAgree ==
    \A v, w \in deployment.workers : Resolve(v) = Resolve(w)

\* The rules of a worker mean what the head of exclusion_rules.py says of the file
\* it loaded, however its lines are spaced: on some line some term is in the text,
\* and with it all that no OR separates from it, phrases with their spaces and words
\* with what looks like an operator included.
RulesMeanWhatIsWritten ==
    \A w \in deployment.workers : WellWritten(loaded[w]) =>
        \A t \in Texts :
            Excluded(rules[w], t) <=>
                /\ loaded[w].readable
                /\ \E i \in DOMAIN loaded[w].meant : Means(loaded[w].meant[i].items, t)

\* What the title of a conversation hides from the lists its content does not
\* bring back in a search or an export, which ask about both.
HiddenStaysHidden ==
    \A w \in deployment.workers : \A c \in Conversations :
        Excluded(rules[w], SearchableText(c.listed))
            => Excluded(rules[w], SearchableText(Append(c.listed, c.content)))
=============================================================================
