------------------------------ MODULE ExportProofs ------------------------------
(* Theorems about incremental export, see Export. *)
EXTENDS Export, TLAPS

USE ExportAssumption

-----------------------------------------------------------------------------
(* With, the merge of what an export collected.                            *)

LEMMA NewerType == ASSUME NEW a \in Time, NEW b \in Time PROVE Newer(a, b) \in Time
BY DEF Newer

\* What With yields for one conversation: what was there, or the newer of that
\* and a version that was collected.
LEMMA WithCases ==
    ASSUME NEW f \in [Chats -> Time], NEW es \in SUBSET Entry, NEW c \in Chats
    PROVE  \/ With(f, es)[c] = f[c] /\ \A x \in es : x.chat # c
           \/ \E x \in es : x.chat = c /\ With(f, es)[c] = Newer(f[c], x.version)
<1> DEFINE vs == {x.version : x \in {y \in es : y.chat = c}}
<1>1. With(f, es)[c] = IF vs = {} THEN f[c] ELSE Newer(f[c], CHOOSE v \in vs : TRUE)
  BY DEF With
<1>2. CASE vs = {}
  <2>1. \A x \in es : x.chat # c
    BY <1>2
  <2> QED
    BY <1>1, <1>2, <2>1
<1>3. CASE vs # {}
  <2>1. PICK v \in vs : v = CHOOSE w \in vs : TRUE
    BY <1>3
  <2>2. PICK x \in es : x.chat = c /\ x.version = v
    BY <2>1
  <2> QED
    BY <1>1, <1>3, <2>1, <2>2
<1> QED
  BY <1>2, <1>3

LEMMA WithType ==
    ASSUME NEW f \in [Chats -> Time], NEW es \in SUBSET Entry
    PROVE  With(f, es) \in [Chats -> Time]
<1>1. ASSUME NEW c \in Chats PROVE With(f, es)[c] \in Time
  BY WithCases, NewerType DEF Entry
<1> QED
  BY <1>1 DEF With

\* Nothing gets older by a merge.
LEMMA WithGrows ==
    ASSUME NEW f \in [Chats -> Time], NEW es \in SUBSET Entry, NEW c \in Chats
    PROVE  With(f, es)[c] >= f[c]
<1>1. CASE With(f, es)[c] = f[c]
  BY <1>1 DEF Time
<1>2. ASSUME NEW x \in es, With(f, es)[c] = Newer(f[c], x.version)
      PROVE  With(f, es)[c] >= f[c]
  BY <1>2 DEF Newer, Entry, Time
<1> QED
  BY <1>1, <1>2, WithCases

\* What was collected is in the result.
LEMMA WithHolds ==
    ASSUME NEW f \in [Chats -> Time], NEW es \in SUBSET Entry, Single(es), NEW x \in es
    PROVE  With(f, es)[x.chat] >= x.version
<1>1. PICK y \in es : y.chat = x.chat /\ With(f, es)[x.chat] = Newer(f[x.chat], y.version)
  BY WithCases DEF Entry
<1>2. y = x
  BY <1>1 DEF Single
<1> QED
  BY <1>1, <1>2 DEF Newer, Entry, Time

\* A merge exceeds no bound that both parts keep.
LEMMA WithBounded ==
    ASSUME NEW f \in [Chats -> Time], NEW es \in SUBSET Entry, NEW g \in [Chats -> Time],
           \A c \in Chats : f[c] <= g[c], \A x \in es : x.version <= g[x.chat],
           NEW c \in Chats
    PROVE  With(f, es)[c] <= g[c]
<1>1. CASE With(f, es)[c] = f[c]
  BY <1>1
<1>2. ASSUME NEW x \in es, x.chat = c, With(f, es)[c] = Newer(f[c], x.version)
      PROVE  With(f, es)[c] <= g[c]
  BY <1>2 DEF Newer
<1> QED
  BY <1>1, <1>2, WithCases

-----------------------------------------------------------------------------
(* Types.                                                                  *)

\* Every export starts idle, with nothing collected.
LEMMA TypeInit == Init => TypeOK
BY DEF Init, TypeOK, Time, Nothing, Steps, NoMode, Manifests

\* A run that ends leaves its variables well typed.
LEMMA ForgetType ==
    ASSUME TypeOK, NEW e \in Exporters, Forget(e)
    PROVE  /\ pc' \in [Exporters -> Steps] /\ mode' \in [Exporters -> Modes]
           /\ last' \in [Exporters -> Time] /\ saving' \in [Exporters -> Time]
           /\ bubbles' \in [Exporters -> [Chats -> Time]]
           /\ held' \in [Exporters -> [Chats -> Time]]
           /\ entries' \in [Exporters -> SUBSET Entry]
           /\ todo' \in [Exporters -> SUBSET Chats]
<1>1. NoMode \in Modes /\ 0 \in Time /\ Nothing \in [Chats -> Time] /\ "idle" \in Steps
  BY DEF NoMode, Time, Nothing, Steps
<1> QED
  BY <1>1 DEF Forget, TypeOK

\* Collecting keeps the types.
LEMMA CollectingType ==
    ASSUME TypeOK, NEW e \in Exporters,
           \/ Begin(e) \/ ReadBubbles(e) \/ ReadRows(e)
           \/ \E c \in Sessions : StampSession(e, c) \/ ReadSession(e, c)
           \/ NothingFound(e) \/ Collected(e)
    PROVE  TypeOK'
<1> USE DEF TypeOK, disk
<1>1. CASE Begin(e)
  <2>1. PICK m \in Modes :
          /\ mode' = [mode EXCEPT ![e] = m]
          /\ last' = [last EXCEPT ![e] = IF m.since = "last" THEN LastExport ELSE 0]
          /\ pc' = [pc EXCEPT ![e] = IF m.composer THEN "bubbles" ELSE "sessions"]
    BY <1>1 DEF Begin
  <2>2. LastExport \in Time /\ 0 \in Time
    BY DEF LastExport, Time
  <2> QED
    BY <1>1, <2>1, <2>2 DEF Begin, Steps, Chats
<1>2. CASE ReadBubbles(e)
  <2>1. [c \in Chats |-> IF c \in Composers THEN updated[c] ELSE 0] \in [Chats -> Time]
    BY DEF Time
  <2> QED
    BY <1>2, <2>1 DEF ReadBubbles, Goto, Steps
<1>3. CASE ReadRows(e)
  <2>1. {[chat |-> c, version |-> bubbles[e][c]] : c \in {d \in Composers : Wanted(e, d)}}
          \in SUBSET Entry
    BY DEF Entry, Chats
  <2> QED
    BY <1>3, <2>1 DEF ReadRows, Goto, Steps
<1>4. ASSUME NEW c \in Sessions, StampSession(e, c) PROVE TypeOK'
  <2>1. entries[e] \cup {[chat |-> c, version |-> 0]} \in SUBSET Entry
    BY DEF Entry, Chats, Time
  <2>2. CASE Wanted(e, c)
    BY <1>4, <2>1, <2>2 DEF StampSession, Goto, Steps
  <2>3. CASE ~Wanted(e, c)
    <3>1. todo' = [todo EXCEPT ![e] = todo[e] \ {c}]
      BY <1>4, <2>3 DEF StampSession
    <3>2. todo' \in [Exporters -> SUBSET Chats]
      BY <3>1
    <3>3. UNCHANGED <<clock, updated, quiet, delivered, state, files, manifest, pc, entries,
                      mode, last, bubbles, held, saving, faults>>
      BY <1>4, <2>3 DEF StampSession
    <3> QED
      BY <3>2, <3>3
  <2> QED
    BY <2>2, <2>3
<1>5. ASSUME NEW c \in Sessions, ReadSession(e, c) PROVE TypeOK'
  <2>1. [chat |-> c, version |-> updated[c]] \in Entry
    BY DEF Entry, Chats
  <2>2. (entries[e] \ Of(entries[e], c)) \cup {[chat |-> c, version |-> updated[c]]} \in SUBSET Entry
    BY <2>1
  <2> QED
    BY <1>5, <2>2 DEF ReadSession, Goto, Steps
<1>6. CASE NothingFound(e)
  BY <1>6, ForgetType DEF NothingFound
<1>7. CASE Collected(e)
  <2>1. Names(entries[e]) \in SUBSET Chats
    BY DEF Names, Entry
  <2> QED
    BY <1>7, <2>1 DEF Collected, Steps
<1> QED
  BY <1>1, <1>2, <1>3, <1>4, <1>5, <1>6, <1>7

\* Writing keeps the types.
LEMMA WritingType ==
    ASSUME TypeOK, NEW e \in Exporters,
           \/ OpenZip(e) \/ CloseZip(e)
           \/ \E c \in Chats : WriteFile(e, c)
           \/ \E m \in Manifests, from \in Steps, to \in Steps :
                \/ LoadManifest(e, m, from, to) \/ TruncateManifest(e, m, from, to)
                \/ WriteManifest(e, m, from, to)
           \/ SaveTruncates(e) \/ SaveState(e) \/ Respond(e)
    PROVE  TypeOK'
<1> USE DEF TypeOK, disk, run, Goto
<1>1. CASE OpenZip(e)
  BY <1>1 DEF OpenZip, Steps
<1>2. CASE CloseZip(e)
  BY <1>2, WithType DEF CloseZip, Steps
<1>3. ASSUME NEW c \in Chats, WriteFile(e, c) PROVE TypeOK'
  <2>1. Of(entries[e], c) \in SUBSET Entry
    BY DEF Of
  <2> QED
    BY <1>3, <2>1, WithType DEF WriteFile
<1>4. ASSUME NEW m \in Manifests, NEW from \in Steps, NEW to \in Steps,
             LoadManifest(e, m, from, to)
      PROVE  TypeOK'
  BY <1>4, WithType DEF LoadManifest
<1>5. ASSUME NEW m \in Manifests, NEW from \in Steps, NEW to \in Steps,
             TruncateManifest(e, m, from, to)
      PROVE  TypeOK'
  <2>1. PICK flushed \in SUBSET Chats :
          manifest' = [manifest EXCEPT ![m] =
            [c \in Chats |-> IF c \in flushed THEN held[e][c] ELSE 0]]
    BY <1>5 DEF TruncateManifest
  <2>2. [c \in Chats |-> IF c \in flushed THEN held[e][c] ELSE 0] \in [Chats -> Time]
    BY DEF Time
  <2>3. manifest' \in [Manifests -> [Chats -> Time]]
    BY <2>1, <2>2
  <2> QED
    BY <1>5, <2>3 DEF TruncateManifest
<1>6. ASSUME NEW m \in Manifests, NEW from \in Steps, NEW to \in Steps,
             WriteManifest(e, m, from, to)
      PROVE  TypeOK'
  <2>1. PICK tail \in SUBSET {c \in Chats : manifest[m][c] # 0} :
          manifest' = [manifest EXCEPT ![m] =
            [c \in Chats |-> IF c \in tail THEN manifest[m][c] ELSE held[e][c]]]
    BY <1>6 DEF WriteManifest
  <2>2. [c \in Chats |-> IF c \in tail THEN manifest[m][c] ELSE held[e][c]] \in [Chats -> Time]
    OBVIOUS
  <2>3. manifest' \in [Manifests -> [Chats -> Time]]
    BY <2>1, <2>2
  <2> QED
    BY <1>6, <2>3 DEF WriteManifest
<1>7. CASE SaveTruncates(e)
  BY <1>7 DEF SaveTruncates, Steps
<1>8. CASE SaveState(e)
  <2>1. state' \in Time \cup {Torn}
    BY <1>8 DEF SaveState
  <2>2. CASE mode[e].out = "web"
    BY <1>8, <2>1, <2>2 DEF SaveState, Steps
  <2>3. CASE mode[e].out # "web"
    BY <1>8, <2>1, <2>3, ForgetType DEF SaveState
  <2> QED
    BY <2>2, <2>3
<1>9. CASE Respond(e)
  BY <1>9, ForgetType, WithType DEF Respond
<1> QED
  BY <1>1, <1>2, <1>3, <1>4, <1>5, <1>6, <1>7, <1>8, <1>9

LEMMA TypeStep == TypeOK /\ [Next]_vars => TypeOK'
<1> SUFFICES ASSUME TypeOK, [Next]_vars PROVE TypeOK'
  OBVIOUS
<1>1. ASSUME NEW e \in Exporters, Export(e) PROVE TypeOK'
  BY <1>1, CollectingType, WritingType DEF Export, Manifests, Steps
<1>2. ASSUME NEW e \in Exporters, Crash(e) PROVE TypeOK'
  BY <1>2, ForgetType DEF Crash, TypeOK, disk
<1>3. ASSUME NEW c \in Chats, Update(c) PROVE TypeOK'
  BY <1>3 DEF Update, TypeOK, disk, run, Time
<1>4. CASE UNCHANGED vars
  BY <1>4 DEF vars, disk, run, TypeOK
<1> QED
  BY <1>1, <1>2, <1>3, <1>4 DEF Next

\* The exports, their files and their state are well formed at every step.
THEOREM ExportTypeCorrect == Spec => []TypeOK
BY TypeInit, TypeStep, PTL DEF Spec

-----------------------------------------------------------------------------
(* An export collects each conversation once.                              *)

LEMMA NamesAdd ==
    ASSUME NEW es, NEW x
    PROVE  Names(es \cup {x}) = Names(es) \cup {x.chat}
BY DEF Names

LEMMA NamesReplace ==
    ASSUME NEW es, NEW x, x.chat \in Names(es)
    PROVE  Names((es \ Of(es, x.chat)) \cup {x}) = Names(es)
<1>1. Names((es \ Of(es, x.chat)) \cup {x}) = Names(es \ Of(es, x.chat)) \cup {x.chat}
  BY NamesAdd
<1>2. Names(es \ Of(es, x.chat)) \cup {x.chat} = Names(es)
  BY DEF Names, Of
<1> QED
  BY <1>1, <1>2

\* An export changes only its own variables.
LEMMA OthersKeep ==
    ASSUME TypeOK, NEW e \in Exporters, NEW d \in Exporters, e # d, Export(e) \/ Crash(e)
    PROVE  /\ pc'[d] = pc[d] /\ mode'[d] = mode[d] /\ last'[d] = last[d]
           /\ bubbles'[d] = bubbles[d] /\ entries'[d] = entries[d] /\ todo'[d] = todo[d]
           /\ held'[d] = held[d] /\ saving'[d] = saving[d]
BY DEF TypeOK, Export, Begin, ReadBubbles, ReadRows, StampSession, ReadSession,
  NothingFound, Collected, OpenZip, CloseZip, WriteFile, LoadManifest, TruncateManifest,
  WriteManifest, SaveTruncates, SaveState, Respond, Crash, Forget, Goto, run

LEMMA CollectsOnceStep == TypeOK /\ CollectsOnce /\ [Next]_vars => CollectsOnce'
<1> DEFINE Once(d) == /\ Single(entries[d])
                      /\ pc[d] \in Early => entries[d] = {}
                      /\ pc[d] \in Reading => todo[d] \subseteq Sessions
                      /\ pc[d] = "sessions" => todo[d] \cap Names(entries[d]) = {}
                      /\ pc[d] = "blobs" => \A c, x \in todo[d] \cap Names(entries[d]) : c = x
<1> SUFFICES ASSUME TypeOK, CollectsOnce, [Next]_vars, NEW d \in Exporters PROVE Once(d)'
  BY DEF CollectsOnce
<1>1. Once(d) /\ entries[d] \subseteq Entry /\ todo[d] \subseteq Chats
  BY DEF CollectsOnce, TypeOK
<1>2. pc \in [Exporters -> Steps] /\ entries \in [Exporters -> SUBSET Entry]
      /\ todo \in [Exporters -> SUBSET Chats]
  BY DEF TypeOK
<1>3. CASE UNCHANGED <<pc[d], entries[d], todo[d]>>
  BY <1>1, <1>3
<1>4. ASSUME Forget(d) PROVE Once(d)'
  BY <1>2, <1>4 DEF Forget, Single, Early, Reading, Names
<1>5. CASE Begin(d)
  <2>1. entries'[d] = {} /\ todo'[d] = Sessions
    BY <1>1, <1>2, <1>5 DEF Begin, Early
  <2> QED
    BY <1>2, <1>5, <2>1 DEF Begin, Single, Early, Reading, Names
<1>6. CASE ReadBubbles(d)
  <2>1. entries'[d] = entries[d] /\ todo'[d] = todo[d] /\ pc[d] = "bubbles" /\ pc'[d] = "rows"
    BY <1>2, <1>6 DEF ReadBubbles, Goto
  <2> QED
    BY <1>1, <2>1 DEF Early, Reading
<1>7. CASE ReadRows(d)
  <2>1. entries'[d] = {[chat |-> c, version |-> bubbles[d][c]] :
                         c \in {x \in Composers : Wanted(d, x)}}
    BY <1>2, <1>7 DEF ReadRows
  <2>2. todo'[d] = todo[d] /\ pc[d] = "rows" /\ pc'[d] = "sessions"
    BY <1>2, <1>7 DEF ReadRows, Goto
  <2>3. Single(entries[d])' /\ Names(entries[d])' \subseteq Composers
    BY <2>1 DEF Single, Names
  <2> QED
    BY <1>1, <2>2, <2>3, ExportAssumption DEF Early, Reading
<1>8. ASSUME NEW c \in Sessions, StampSession(d, c) PROVE Once(d)'
  <2>1. CASE Wanted(d, c)
    <3>1. /\ entries'[d] = entries[d] \cup {[chat |-> c, version |-> 0]}
          /\ todo'[d] = todo[d] /\ pc[d] = "sessions" /\ pc'[d] = "blobs" /\ c \in todo[d]
      BY <1>2, <1>8, <2>1 DEF StampSession, Goto
    <3>2. \A x \in entries[d] : x.chat # c
      BY <1>1, <3>1 DEF Names
    <3>3. Single(entries[d])'
      BY <1>1, <3>1, <3>2 DEF Single
    <3>4. Names(entries[d])' = Names(entries[d]) \cup {c}
      <4> DEFINE x == [chat |-> c, version |-> 0]
      <4>1. x.chat = c /\ entries'[d] = entries[d] \cup {x}
        BY <3>1
      <4> HIDE DEF x
      <4>2. Names(entries'[d]) = Names(entries[d]) \cup {c}
        BY <4>1, NamesAdd
      <4> QED
        BY <4>2 DEF Names
    <3> QED
      BY <1>1, <3>1, <3>3, <3>4 DEF Early, Reading
  <2>2. CASE ~Wanted(d, c)
    <3>1. todo'[d] = todo[d] \ {c} /\ UNCHANGED <<pc, entries>>
      BY <1>2, <1>8, <2>2 DEF StampSession
    <3>2. pc[d] = "sessions"
      BY <1>8, <2>2 DEF StampSession
    <3> QED
      BY <1>1, <3>1, <3>2
  <2> QED
    BY <2>1, <2>2
<1>9. ASSUME NEW c \in Sessions, ReadSession(d, c) PROVE Once(d)'
  <2>1. /\ entries'[d] = (entries[d] \ Of(entries[d], c)) \cup {[chat |-> c, version |-> updated[c]]}
        /\ todo'[d] = todo[d] \ {c}
        /\ pc[d] = "blobs" /\ pc'[d] = "sessions" /\ c \in todo[d] \cap Names(entries[d])
    BY <1>2, <1>9 DEF ReadSession, Goto
  <2>2. \A x \in entries[d] \ Of(entries[d], c) : x.chat # c
    BY DEF Of
  <2>3. Single(entries[d])'
    BY <1>1, <2>1, <2>2 DEF Single
  <2>4. Names(entries[d])' = Names(entries[d])
    <3> DEFINE x == [chat |-> c, version |-> updated[c]]
    <3>1. /\ x.chat \in Names(entries[d])
          /\ entries'[d] = (entries[d] \ Of(entries[d], x.chat)) \cup {x}
      BY <2>1
    <3> HIDE DEF x
    <3>2. Names(entries'[d]) = Names(entries[d])
      BY <3>1, NamesReplace
    <3> QED
      BY <3>2 DEF Names
  <2>5. todo'[d] \cap Names(entries[d])' = {}
    BY <1>1, <2>1, <2>4
  <2> QED
    BY <1>1, <2>1, <2>3, <2>5 DEF Early, Reading
<1>10. CASE Collected(d)
  <2>1. entries'[d] = entries[d] /\ pc'[d] \in {"save", "write"}
    BY <1>2, <1>10 DEF Collected
  <2> QED
    BY <1>1, <2>1 DEF Early, Reading
<1>11. CASE \/ OpenZip(d) \/ CloseZip(d) \/ SaveTruncates(d)
            \/ \E c \in Chats : WriteFile(d, c)
            \/ LoadManifest(d, "out", "write", "loaded")
            \/ TruncateManifest(d, "out", "loaded", "partial")
            \/ WriteManifest(d, "out", "partial", "listed")
            \/ LoadManifest(d, "global", "listed", "global_loaded")
            \/ TruncateManifest(d, "global", "global_loaded", "global_partial")
            \/ WriteManifest(d, "global", "global_partial", "save")
            \/ SaveState(d) /\ ~Forget(d)
  <2>1. entries' = entries /\ pc'[d] \notin Early \cup Reading
    BY <1>2, <1>11 DEF OpenZip, CloseZip, SaveTruncates, WriteFile, LoadManifest,
      TruncateManifest, WriteManifest, SaveState, Goto, run, Early, Reading
  <2> QED
    BY <1>1, <2>1 DEF Early, Reading
<1>12. CASE Export(d)
  BY <1>4, <1>5, <1>6, <1>7, <1>8, <1>9, <1>10, <1>11, <1>12
  DEF Export, NothingFound, Respond
<1>13. ASSUME NEW e \in Exporters, e # d, Export(e) \/ Crash(e)
       PROVE  UNCHANGED <<pc[d], entries[d], todo[d]>>
  BY <1>13, OthersKeep
<1>14. CASE (\E c \in Chats : Update(c)) \/ UNCHANGED vars
  BY <1>3, <1>14 DEF Update, vars, run
<1> QED
  BY <1>3, <1>4, <1>12, <1>13, <1>14 DEF Next, Crash

LEMMA CollectsOnceHolds == Spec => []CollectsOnce
<1>1. Init => CollectsOnce
  BY DEF Init, CollectsOnce, Single, Early, Reading, Names
<1> QED
  BY <1>1, CollectsOnceStep, ExportTypeCorrect, PTL DEF Spec

-----------------------------------------------------------------------------
(* Manifests name files that were written.                                 *)

\* No version leaves the files.
LEMMA FilesGrow ==
    ASSUME TypeOK, [Next]_vars, NEW c \in Chats
    PROVE  files'[c] >= files[c]
<1>1. files[c] \in Int
  BY DEF TypeOK, Time
<1>2. ASSUME NEW e \in Exporters, NEW d \in Chats, WriteFile(e, d) PROVE files'[c] >= files[c]
  <2>1. Of(entries[e], d) \in SUBSET Entry
    BY DEF Of, TypeOK
  <2> QED
    BY <1>2, <2>1, WithGrows DEF WriteFile, TypeOK
<1>3. CASE UNCHANGED files
  BY <1>1, <1>3
<1>4. ASSUME NEW e \in Exporters, Export(e) \/ Crash(e), \A d \in Chats : ~WriteFile(e, d)
      PROVE  UNCHANGED files
  BY <1>4 DEF Export, Begin, ReadBubbles, ReadRows, StampSession, ReadSession, NothingFound,
    Collected, OpenZip, CloseZip, LoadManifest, TruncateManifest, WriteManifest,
    SaveTruncates, SaveState, Respond, Crash, disk
<1>5. ASSUME NEW d \in Chats, Update(d) PROVE UNCHANGED files
  BY <1>5 DEF Update, disk
<1> QED
  BY <1>2, <1>3, <1>4, <1>5 DEF Next, vars, disk

\* What is written of a conversation is in the files.
LEMMA WriteFileWrites ==
    ASSUME TypeOK, CollectsOnce, NEW e \in Exporters, NEW c \in Chats, WriteFile(e, c),
           NEW x \in entries[e], x.chat = c
    PROVE  x.version <= files'[c] /\ x.version <= delivered'[c]
<1> DEFINE es == Of(entries[e], c)
<1>1. es \in SUBSET Entry /\ Single(es) /\ x \in es
  BY DEF Of, TypeOK, CollectsOnce, Single
<1>2. files' = With(files, es) /\ delivered' = With(delivered, es)
  BY DEF WriteFile
<1>3. With(files, es)[c] >= x.version /\ With(delivered, es)[c] >= x.version
  <2> HIDE DEF es
  <2> QED
    BY <1>1, WithHolds DEF TypeOK
<1>4. files'[c] \in Int /\ delivered'[c] \in Int /\ x.version \in Int
  <2> HIDE DEF es
  <2>1. files' \in [Chats -> Time] /\ delivered' \in [Chats -> Time]
    BY <1>1, <1>2, WithType DEF TypeOK
  <2> QED
    BY <1>1, <2>1 DEF Time, Entry
<1> QED
  BY <1>2, <1>3, <1>4

LEMMA FilesFirstStep ==
    TypeOK /\ TypeOK' /\ CollectsOnce /\ FilesFirst /\ [Next]_vars => FilesFirst'
<1> DEFINE Written(d) == pc[d] \in Late =>
             \A x \in entries[d] : x.chat \in todo[d] \/ x.version <= files[x.chat]
<1> SUFFICES ASSUME TypeOK, TypeOK', CollectsOnce, FilesFirst, [Next]_vars
             PROVE  /\ \A m \in Manifests, c \in Chats : manifest'[m][c] <= files'[c]
                    /\ \A d \in Exporters : \A c \in Chats : held'[d][c] <= files'[c]
                    /\ \A d \in Exporters : Written(d)'
  BY DEF FilesFirst, ManifestNamesFiles
<1>1. \A m \in Manifests, c \in Chats : manifest[m][c] <= files[c] /\ manifest[m][c] <= files'[c]
  BY FilesGrow DEF FilesFirst, ManifestNamesFiles, TypeOK, Time
<1>2. \A d \in Exporters : \A c \in Chats : held[d][c] <= files[c] /\ held[d][c] <= files'[c]
  BY FilesGrow DEF FilesFirst, TypeOK, Time
<1>3. \A c \in Chats : 0 <= files'[c]
  BY DEF TypeOK, Time
<1>4. ASSUME NEW m \in Manifests, NEW c \in Chats PROVE manifest'[m][c] <= files'[c]
  <2>1. CASE UNCHANGED manifest
    BY <1>1, <2>1
  <2>2. ASSUME NEW e \in Exporters, NEW n \in Manifests, NEW from, NEW to,
               TruncateManifest(e, n, from, to)
        PROVE  manifest'[m][c] <= files'[c]
    <3>1. PICK flushed \in SUBSET Chats :
            manifest' = [manifest EXCEPT ![n] =
              [x \in Chats |-> IF x \in flushed THEN held[e][x] ELSE 0]]
      BY <2>2 DEF TruncateManifest
    <3>2. manifest'[m][c] \in {manifest[m][c], held[e][c], 0}
      BY <3>1 DEF TypeOK
    <3> QED
      BY <1>1, <1>2, <1>3, <3>2
  <2>3. ASSUME NEW e \in Exporters, NEW n \in Manifests, NEW from, NEW to,
               WriteManifest(e, n, from, to)
        PROVE  manifest'[m][c] <= files'[c]
    <3>1. PICK tail \in SUBSET {x \in Chats : manifest[n][x] # 0} :
            manifest' = [manifest EXCEPT ![n] =
              [x \in Chats |-> IF x \in tail THEN manifest[n][x] ELSE held[e][x]]]
      BY <2>3 DEF WriteManifest
    <3>2. manifest'[m][c] \in {manifest[m][c], manifest[n][c], held[e][c]}
      BY <3>1 DEF TypeOK
    <3> QED
      BY <1>1, <1>2, <3>2
  <2>4. ASSUME NEW e \in Exporters, Export(e) \/ Crash(e), UNCHANGED manifest
        PROVE  manifest'[m][c] <= files'[c]
    BY <2>1, <2>4
  <2>5. ASSUME NEW e \in Exporters, Export(e) \/ Crash(e)
        PROVE  \/ UNCHANGED manifest
               \/ \E n \in Manifests : \E from, to \in Steps :
                    TruncateManifest(e, n, from, to) \/ WriteManifest(e, n, from, to)
    BY <2>5 DEF Export, Begin, ReadBubbles, ReadRows, StampSession, ReadSession, NothingFound,
      Collected, OpenZip, CloseZip, WriteFile, LoadManifest, Manifests, Steps,
      SaveTruncates, SaveState, Respond, Crash, disk
  <2> QED
    BY <2>1, <2>2, <2>3, <2>5 DEF Next, Update, vars, disk
<1>5. ASSUME NEW d \in Exporters, NEW c \in Chats PROVE held'[d][c] <= files'[c]
  <2>1. CASE held'[d] = held[d]
    BY <1>2, <2>1
  <2>2. CASE Forget(d)
    BY <1>3, <2>2 DEF Forget, Nothing, TypeOK
  <2>3. ASSUME NEW m \in Manifests, NEW from \in {"write", "listed"}, NEW to,
               LoadManifest(d, m, from, to)
        PROVE  held'[d][c] <= files'[c]
    <3>1. held'[d] = With(manifest[m], entries[d]) /\ files' = files
      BY <2>3 DEF LoadManifest, disk, TypeOK
    <3>2. pc[d] \in Late /\ todo[d] = {}
      BY <2>3 DEF LoadManifest, Goto, Late, Manifesting
    <3>3. \A x \in entries[d] : x.version <= files[x.chat]
      BY <3>2 DEF FilesFirst
    <3>4. With(manifest[m], entries[d])[c] <= files[c]
      BY <1>1, <3>3, WithBounded DEF TypeOK
    <3> QED
      BY <3>1, <3>4
  <2>4. ASSUME NEW e \in Exporters, Export(e) \/ Crash(e)
        PROVE  \/ held'[d] = held[d] \/ Forget(d)
               \/ LoadManifest(d, "out", "write", "loaded")
               \/ LoadManifest(d, "global", "listed", "global_loaded")
    BY <2>4 DEF Export, Begin, ReadBubbles, ReadRows, StampSession, ReadSession, NothingFound,
      Collected, OpenZip, CloseZip, WriteFile, LoadManifest, TruncateManifest, WriteManifest,
      SaveTruncates, SaveState, Respond, Crash, Forget, run, TypeOK
  <2> QED
    BY <2>1, <2>2, <2>3, <2>4 DEF Next, Update, vars, run, Manifests
<1>6. ASSUME NEW d \in Exporters PROVE Written(d)'
  <2>1. ASSUME UNCHANGED <<pc[d], entries[d], todo[d]>> PROVE Written(d)'
    <3>1. ASSUME NEW x \in entries[d], x.version <= files[x.chat] PROVE x.version <= files'[x.chat]
      BY <3>1, FilesGrow DEF TypeOK, Entry, Time
    <3> QED
      BY <2>1, <3>1 DEF FilesFirst
  <2>2. ASSUME pc'[d] \notin Late PROVE Written(d)'
    BY <2>2
  <2>3. ASSUME Collected(d) PROVE Written(d)'
    BY <2>3 DEF Collected, Names, TypeOK
  <2>4. ASSUME NEW c \in Chats, WriteFile(d, c) PROVE Written(d)'
    <3>1. entries' = entries /\ todo'[d] = todo[d] \ {c} /\ pc[d] \in Late
      BY <2>4 DEF WriteFile, TypeOK, Late
    <3>2. ASSUME NEW x \in entries[d], x.chat = c PROVE x.version <= files'[x.chat]
      BY <2>4, <3>2, WriteFileWrites
    <3>3. ASSUME NEW x \in entries[d], x.version <= files[x.chat] PROVE x.version <= files'[x.chat]
      BY <3>3, FilesGrow DEF TypeOK, Entry, Time
    <3> QED
      BY <3>1, <3>2, <3>3 DEF FilesFirst
  <2>5. ASSUME pc[d] \in Late, UNCHANGED <<entries, todo>> PROVE Written(d)'
    <3>1. ASSUME NEW x \in entries[d], x.version <= files[x.chat] PROVE x.version <= files'[x.chat]
      BY <3>1, FilesGrow DEF TypeOK, Entry, Time
    <3> QED
      BY <2>5, <3>1 DEF FilesFirst
  <2>6. CASE Begin(d) \/ ReadBubbles(d) \/ ReadRows(d)
             \/ (\E c \in Sessions : StampSession(d, c) \/ ReadSession(d, c))
    BY <2>2, <2>6 DEF Begin, ReadBubbles, ReadRows, StampSession, ReadSession, Goto, Late,
      Manifesting, TypeOK
  <2>7. CASE Forget(d)
    BY <2>2, <2>7 DEF Forget, Late, Manifesting, TypeOK
  <2>8. CASE \/ OpenZip(d) \/ CloseZip(d) \/ SaveTruncates(d)
             \/ LoadManifest(d, "out", "write", "loaded")
             \/ TruncateManifest(d, "out", "loaded", "partial")
             \/ WriteManifest(d, "out", "partial", "listed")
             \/ LoadManifest(d, "global", "listed", "global_loaded")
             \/ TruncateManifest(d, "global", "global_loaded", "global_partial")
             \/ WriteManifest(d, "global", "global_partial", "save")
             \/ SaveState(d) /\ ~Forget(d)
    <3>1. pc[d] \in Late /\ UNCHANGED <<entries, todo>>
      BY <2>8 DEF OpenZip, CloseZip, SaveTruncates, LoadManifest, TruncateManifest,
        WriteManifest, SaveState, Goto, run, Late, Manifesting
    <3> QED
      BY <2>5, <3>1
  <2>9. CASE Export(d) \/ Crash(d)
    BY <2>3, <2>4, <2>6, <2>7, <2>8, <2>9 DEF Export, NothingFound, Respond, Crash
  <2>10. ASSUME NEW e \in Exporters, e # d, Export(e) \/ Crash(e)
         PROVE  UNCHANGED <<pc[d], entries[d], todo[d]>>
    BY <2>10, OthersKeep
  <2>11. CASE (\E c \in Chats : Update(c)) \/ UNCHANGED vars
    BY <2>1, <2>11 DEF Update, vars, run
  <2> QED
    BY <2>1, <2>9, <2>10, <2>11 DEF Next
<1> QED
  BY <1>4, <1>5, <1>6

\* An entry of a manifest names a file that was written, however the exports
\* overlap and wherever they are killed.
THEOREM ManifestsName == Spec => []ManifestNamesFiles
<1>1. Init => FilesFirst
  BY DEF Init, FilesFirst, ManifestNamesFiles, Nothing, Late, Manifesting
<1>2. FilesFirst => ManifestNamesFiles
  BY DEF FilesFirst
<1> QED
  BY <1>1, <1>2, FilesFirstStep, ExportTypeCorrect, CollectsOnceHolds, PTL DEF Spec

-----------------------------------------------------------------------------
(* Changes that met no export stay due.                                    *)

\* Times that are saved or remembered are not ahead of the clock, and a quiet
\* conversation has been changed.
LEMMA TimesPastStep == TypeOK /\ TimesPast /\ [Next]_vars => TimesPast'
<1> SUFFICES ASSUME TypeOK, TimesPast, [Next]_vars PROVE TimesPast'
  OBVIOUS
<1> USE DEF TypeOK, Time
<1>1. CASE UNCHANGED <<clock, updated, quiet, state, last, saving>>
  BY <1>1 DEF TimesPast
<1>2. ASSUME NEW e \in Exporters, Forget(e), UNCHANGED <<clock, updated, quiet>>,
             state' \in {state, saving[e], Torn}
      PROVE  TimesPast'
  BY <1>2 DEF TimesPast, Forget
<1>3. ASSUME NEW e \in Exporters, Begin(e) PROVE TimesPast'
  <2>1. PICK m \in Modes : last' = [last EXCEPT ![e] = IF m.since = "last" THEN LastExport ELSE 0]
    BY <1>3 DEF Begin
  <2>2. LastExport \in Time /\ LastExport <= clock
    BY DEF LastExport, TimesPast
  <2>3. UNCHANGED <<clock, updated, quiet, state, saving>>
    BY <1>3 DEF Begin, disk
  <2> QED
    BY <2>1, <2>2, <2>3 DEF TimesPast
<1>4. ASSUME NEW e \in Exporters, SaveTruncates(e) PROVE TimesPast'
  BY <1>4 DEF SaveTruncates, TimesPast
<1>5. ASSUME NEW e \in Exporters, SaveState(e), ~Forget(e) PROVE TimesPast'
  BY <1>5 DEF SaveState, TimesPast, run
<1>6. ASSUME NEW e \in Exporters, Export(e) \/ Crash(e), ~Begin(e), ~SaveTruncates(e)
      PROVE  \/ UNCHANGED <<clock, updated, quiet, state, last, saving>>
             \/ Forget(e) /\ UNCHANGED <<clock, updated, quiet>> /\ state' \in {state, saving[e], Torn}
             \/ SaveState(e) /\ ~Forget(e)
  BY <1>6 DEF Export, ReadBubbles, ReadRows, StampSession, ReadSession, NothingFound,
    Collected, OpenZip, CloseZip, WriteFile, LoadManifest, TruncateManifest, WriteManifest,
    SaveState, Respond, Crash, disk, run
<1>7. ASSUME NEW c \in Chats, Update(c) PROVE TimesPast'
  BY <1>7 DEF Update, TimesPast, disk, run
<1> QED
  BY <1>1, <1>2, <1>3, <1>4, <1>5, <1>6, <1>7 DEF Next, vars, disk, run

LEMMA TimesPastHolds == Spec => []TimesPast
<1>1. Init => TimesPast
  BY DEF Init, TimesPast, Nothing, Time
<1> QED
  BY <1>1, TimesPastStep, ExportTypeCorrect, PTL DEF Spec

\* What the user has received is not taken back.
LEMMA DeliveredGrows ==
    ASSUME TypeOK, [Next]_vars, NEW c \in Chats
    PROVE  delivered'[c] >= delivered[c]
<1>1. delivered[c] \in Int
  BY DEF TypeOK, Time
<1>2. ASSUME NEW e \in Exporters, NEW es \in SUBSET entries[e], delivered' = With(delivered, es)
      PROVE  delivered'[c] >= delivered[c]
  BY <1>2, WithGrows DEF TypeOK
<1>3. CASE UNCHANGED delivered
  BY <1>1, <1>3
<1>4. ASSUME NEW e \in Exporters, Export(e) \/ Crash(e)
      PROVE  \/ UNCHANGED delivered
             \/ \E es \in SUBSET entries[e] : delivered' = With(delivered, es)
  BY <1>4 DEF Export, Begin, ReadBubbles, ReadRows, StampSession, ReadSession, NothingFound,
    Collected, OpenZip, CloseZip, WriteFile, LoadManifest, TruncateManifest, WriteManifest,
    SaveTruncates, SaveState, Respond, Crash, Of
<1>5. ASSUME NEW d \in Chats, Update(d) PROVE UNCHANGED delivered
  BY <1>5 DEF Update
<1> QED
  BY <1>2, <1>3, <1>4, <1>5 DEF Next, vars

\* An archive that is finished or sent holds what the export collected.
LEMMA ArchiveHolds ==
    ASSUME TypeOK, CollectsOnce, NEW e \in Exporters, CloseZip(e) \/ Respond(e),
           NEW c \in Chats, Has(e, c)
    PROVE  delivered'[c] >= updated[c]
<1>1. PICK x \in entries[e] : x.chat = c /\ x.version = updated[c]
  BY DEF Has
<1>2. delivered' = With(delivered, entries[e])
  BY DEF CloseZip, Respond
<1>3. entries[e] \in SUBSET Entry /\ Single(entries[e]) /\ delivered \in [Chats -> Time]
  BY DEF TypeOK, CollectsOnce
<1> QED
  BY <1>1, <1>2, <1>3, WithHolds

\* What needs nothing more is settled until the conversation changes again.
LEMMA SettledStays ==
    ASSUME TypeOK, CollectsOnce, [Next]_vars, NEW c \in Chats,
           updated'[c] = updated[c], Settled(c)
    PROVE  Settled(c)'
<1>1. CASE c \in Excluded
  BY <1>1 DEF Settled
<1>2. CASE delivered[c] >= updated[c]
  <2>1. delivered'[c] >= delivered[c] /\ delivered[c] \in Int /\ updated[c] \in Int
        /\ delivered'[c] \in Int
    BY DeliveredGrows, TypeStep DEF TypeOK, Time
  <2> QED
    BY <1>2, <2>1 DEF Settled
<1>3. ASSUME NEW e \in Exporters, pc[e] = "respond", Has(e, c) PROVE Settled(c)'
  <2>1. CASE Respond(e)
    BY <1>3, <2>1, ArchiveHolds DEF Settled
  <2>2. CASE UNCHANGED <<pc[e], entries[e]>>
    BY <1>3, <2>2 DEF Settled, Has
  <2>3. ASSUME Export(e) \/ Crash(e) PROVE Respond(e)
    BY <1>3, <2>3 DEF Export, Begin, ReadBubbles, ReadRows, StampSession, ReadSession,
      NothingFound, Collected, Collecting, OpenZip, CloseZip, WriteFile, LoadManifest,
      TruncateManifest, WriteManifest, SaveTruncates, SaveState, Crash, Goto
  <2>4. ASSUME NEW d \in Exporters, d # e, Export(d) \/ Crash(d)
        PROVE  UNCHANGED <<pc[e], entries[e]>>
    BY <2>4, OthersKeep
  <2>5. ASSUME NEW d \in Chats, Update(d) PROVE UNCHANGED <<pc[e], entries[e]>>
    BY <2>5 DEF Update, run
  <2> QED
    BY <2>1, <2>2, <2>3, <2>4, <2>5 DEF Next, vars, run
<1> QED
  BY <1>1, <1>2, <1>3 DEF Settled

\* A change that an export does not want is in none of its business, or is older
\* than the time it compares with.
LEMMA UnwantedIsSettled ==
    ASSUME TypeOK, TimesPast, QuietKept, NEW c \in quiet \ Undated, LookedAt(c),
           NEW e \in Exporters, ~Wanted(e, c)
    PROVE  Settled(c)
<1>1. c \in Chats /\ updated[c] \in Int /\ last[e] \in Int /\ updated[c] # 0
  BY DEF TypeOK, Time, TimesPast
<1>2. CASE c \in Excluded
  BY <1>2 DEF Settled
<1>3. CASE ~(Stamp(c) > last[e])
  BY <1>1, <1>3 DEF Stamp, QuietKept
<1> QED
  BY <1>1, <1>2, <1>3 DEF Wanted

\* While an export collects, it keeps or finds every quiet change.
LEMMA CollectingCovers ==
    ASSUME TypeOK, CollectsOnce, TimesPast, QuietKept, [Next]_vars,
           NEW c \in quiet \ Undated, LookedAt(c), NEW e \in Exporters,
           \/ Begin(e) \/ ReadBubbles(e) \/ ReadRows(e)
           \/ \E s \in Sessions : StampSession(e, s) \/ ReadSession(e, s)
           \/ NothingFound(e) \/ Collected(e)
    PROVE  Covered(e, c)'
<1> DEFINE Kept == Settled(c) \/ c \in todo[e] \/ Has(e, c)
<1>1. /\ c \in Chats /\ Covered(e, c)
      /\ Single(entries[e]) /\ (pc[e] \in Reading => todo[e] \subseteq Sessions)
      /\ pc[e] = "blobs" => \A x, y \in todo[e] \cap Names(entries[e]) : x = y
  BY DEF TypeOK, QuietKept, CollectsOnce
<1>2. /\ pc \in [Exporters -> Steps] /\ mode \in [Exporters -> Modes]
      /\ entries \in [Exporters -> SUBSET Entry] /\ todo \in [Exporters -> SUBSET Chats]
      /\ bubbles \in [Exporters -> [Chats -> Time]] /\ last \in [Exporters -> Time]
  BY DEF TypeOK
<1>3. UNCHANGED updated
  BY DEF Begin, ReadBubbles, ReadRows, StampSession, ReadSession, NothingFound, Collected
<1>4. Settled(c) => Settled(c)'
  BY <1>1, <1>3, SettledStays
<1>5. CASE Begin(e)
  <2>1. PICK m \in Modes : pc' = [pc EXCEPT ![e] = IF m.composer THEN "bubbles" ELSE "sessions"]
    BY <1>5 DEF Begin
  <2>2. todo'[e] = Sessions
    BY <1>2, <1>5 DEF Begin
  <2>3. c \in Composers => m.composer
    BY <2>1 DEF LookedAt
  <2>4. c \in Composers \/ c \in Sessions
    BY <1>1 DEF Chats
  <2> QED
    BY <1>2, <2>1, <2>2, <2>3, <2>4 DEF Covered, Manifesting
<1>6. CASE ReadBubbles(e)
  <2>1. pc[e] = "bubbles" /\ pc'[e] = "rows" /\ todo'[e] = todo[e]
    BY <1>2, <1>6 DEF ReadBubbles, Goto
  <2>2. c \in Composers => bubbles'[e][c] = updated'[c]
    BY <1>1, <1>2, <1>6 DEF ReadBubbles
  <2> QED
    BY <1>1, <2>1, <2>2 DEF Covered, Manifesting
<1>7. CASE ReadRows(e)
  <2>1. pc[e] = "rows" /\ pc'[e] = "sessions" /\ todo'[e] = todo[e]
    BY <1>2, <1>7 DEF ReadRows, Goto
  <2>2. CASE c \in Sessions
    BY <1>1, <2>1, <2>2 DEF Covered, Manifesting
  <2>3. CASE ~Wanted(e, c)
    BY <1>4, <2>1, <2>3, UnwantedIsSettled DEF Covered, Manifesting
  <2>4. CASE c \in Composers /\ Wanted(e, c)
    <3>1. [chat |-> c, version |-> bubbles[e][c]] \in entries'[e] /\ bubbles[e][c] = updated'[c]
      BY <1>1, <1>2, <1>3, <1>7, <2>1, <2>4 DEF ReadRows, Covered
    <3>2. Has(e, c)'
      BY <3>1 DEF Has
    <3> QED
      BY <2>1, <3>2 DEF Covered, Manifesting
  <2> QED
    BY <1>1, <2>2, <2>3, <2>4 DEF Chats
<1>8. ASSUME NEW s \in Sessions, StampSession(e, s) PROVE Covered(e, c)'
  <2>1. pc[e] = "sessions" /\ pc'[e] \in {"sessions", "blobs"} /\ Kept
    BY <1>1, <1>2, <1>8 DEF StampSession, Goto, Covered
  <2>2. CASE Has(e, c)
    <3>1. entries[e] \subseteq entries'[e]
      BY <1>2, <1>8 DEF StampSession
    <3>2. Has(e, c)'
      BY <1>3, <2>2, <3>1 DEF Has
    <3> QED
      BY <2>1, <3>2 DEF Covered, Manifesting
  <2>3. CASE Settled(c)
    BY <1>4, <2>1, <2>3 DEF Covered, Manifesting
  <2>4. CASE c \in todo[e] /\ c \in todo'[e]
    BY <2>1, <2>4 DEF Covered, Manifesting
  <2>5. CASE c \in todo[e] /\ c \notin todo'[e]
    <3>1. ~Wanted(e, c)
      BY <1>2, <1>8, <2>5 DEF StampSession
    <3> QED
      BY <1>4, <2>1, <3>1, UnwantedIsSettled DEF Covered, Manifesting
  <2> QED
    BY <2>1, <2>2, <2>3, <2>4, <2>5
<1>9. ASSUME NEW s \in Sessions, ReadSession(e, s) PROVE Covered(e, c)'
  <2>1. /\ pc[e] = "blobs" /\ pc'[e] = "sessions" /\ todo'[e] = todo[e] \ {s} /\ Kept
        /\ entries'[e] = (entries[e] \ Of(entries[e], s)) \cup {[chat |-> s, version |-> updated[s]]}
    BY <1>1, <1>2, <1>9 DEF ReadSession, Goto, Covered
  <2>2. CASE s = c
    <3>1. [chat |-> c, version |-> updated'[c]] \in entries'[e]
      BY <1>3, <2>1, <2>2
    <3>2. Has(e, c)'
      BY <3>1 DEF Has
    <3> QED
      BY <2>1, <3>2 DEF Covered, Manifesting
  <2>3. CASE s # c
    <3>1. Has(e, c) => Has(e, c)'
      BY <1>3, <2>1, <2>3 DEF Has, Of
    <3> QED
      BY <1>4, <2>1, <2>3, <3>1 DEF Covered, Manifesting
  <2> QED
    BY <2>2, <2>3
<1>10. CASE NothingFound(e)
  BY <1>2, <1>10 DEF NothingFound, Forget, Covered, Manifesting
<1>11. CASE Collected(e)
  <2>1. /\ pc[e] = "sessions" /\ pc'[e] = IF mode[e].out = "web" THEN "save" ELSE "write"
        /\ todo'[e] = Names(entries[e]) /\ mode' = mode /\ entries' = entries
        /\ mode[e].out # "web" => todo[e] = {}
    BY <1>2, <1>11 DEF Collected, Collecting
  <2>2. c \in todo[e] => c \in Sessions /\ mode[e].out # "web"
    BY <1>1, <1>2, <2>1, ExportAssumption DEF LookedAt, Reading
  <2>3. Settled(c) \/ Has(e, c)
    BY <1>1, <2>1, <2>2 DEF Covered
  <2>4. CASE Settled(c)
    BY <1>4, <2>1, <2>4 DEF Covered, Manifesting
  <2>5. CASE Has(e, c)
    <3>1. Has(e, c)' /\ c \in Names(entries[e])
      BY <1>3, <2>1, <2>5 DEF Has, Names
    <3> QED
      BY <2>1, <3>1 DEF Covered, Manifesting
  <2> QED
    BY <2>3, <2>4, <2>5
<1> QED
  BY <1>5, <1>6, <1>7, <1>8, <1>9, <1>10, <1>11

\* While an export writes, it brings out every quiet change before it saves a time.
LEMMA WritingCovers ==
    ASSUME TypeOK, CollectsOnce, TimesPast, QuietKept, [Next]_vars,
           NEW c \in quiet \ Undated, LookedAt(c), NEW e \in Exporters,
           \/ OpenZip(e) \/ CloseZip(e)
           \/ \E d \in Chats : WriteFile(e, d)
           \/ LoadManifest(e, "out", "write", "loaded")
           \/ TruncateManifest(e, "out", "loaded", "partial")
           \/ WriteManifest(e, "out", "partial", "listed")
           \/ LoadManifest(e, "global", "listed", "global_loaded")
           \/ TruncateManifest(e, "global", "global_loaded", "global_partial")
           \/ WriteManifest(e, "global", "global_partial", "save")
           \/ SaveTruncates(e) \/ SaveState(e) \/ Respond(e) \/ Crash(e)
    PROVE  Covered(e, c)'
<1>1. c \in Chats /\ Covered(e, c)
  BY DEF TypeOK, QuietKept
<1>2. /\ pc \in [Exporters -> Steps] /\ mode \in [Exporters -> Modes]
      /\ entries \in [Exporters -> SUBSET Entry] /\ todo \in [Exporters -> SUBSET Chats]
  BY DEF TypeOK
<1>3. UNCHANGED updated
  BY DEF OpenZip, CloseZip, WriteFile, LoadManifest, TruncateManifest, WriteManifest,
    SaveTruncates, SaveState, Respond, Crash
<1>4. Settled(c) => Settled(c)'
  BY <1>1, <1>3, SettledStays
<1>5. UNCHANGED entries => (Has(e, c) <=> Has(e, c)')
  BY <1>3 DEF Has
<1>6. CASE OpenZip(e)
  BY <1>1, <1>2, <1>4, <1>5, <1>6 DEF OpenZip, Goto, run, Covered, Manifesting
<1>7. CASE CloseZip(e)
  <2>1. Has(e, c) => Settled(c)'
    BY <1>1, <1>3, <1>7, ArchiveHolds DEF Settled
  <2> QED
    BY <1>1, <1>2, <1>4, <1>7, <2>1 DEF CloseZip, Goto, run, Covered, Manifesting
<1>8. ASSUME NEW d \in Chats, WriteFile(e, d) PROVE Covered(e, c)'
  <2>1. pc[e] = "write" /\ pc'[e] = "write" /\ todo'[e] = todo[e] \ {d} /\ UNCHANGED entries
    BY <1>2, <1>8 DEF WriteFile
  <2>2. CASE d = c /\ Has(e, c)
    <3>1. PICK x \in entries[e] : x.chat = c /\ x.version = updated[c]
      BY <2>2 DEF Has
    <3>2. updated[c] <= delivered'[c]
      BY <1>8, <2>2, <3>1, WriteFileWrites
    <3>3. Settled(c)'
      <4>1. updated[c] \in Int /\ delivered'[c] \in Int
        BY <1>1, TypeStep DEF TypeOK, Time
      <4> QED
        BY <1>3, <3>2, <4>1 DEF Settled
    <3> QED
      BY <2>1, <3>3 DEF Covered, Manifesting
  <2>3. CASE ~(d = c /\ Has(e, c))
    BY <1>1, <1>4, <1>5, <2>1, <2>3 DEF Covered, Manifesting
  <2> QED
    BY <2>2, <2>3
<1>9. CASE \/ LoadManifest(e, "out", "write", "loaded")
           \/ TruncateManifest(e, "out", "loaded", "partial")
           \/ WriteManifest(e, "out", "partial", "listed")
           \/ LoadManifest(e, "global", "listed", "global_loaded")
           \/ TruncateManifest(e, "global", "global_loaded", "global_partial")
           \/ WriteManifest(e, "global", "global_partial", "save")
  <2>1. pc[e] \in Manifesting \/ (pc[e] = "write" /\ todo[e] = {})
    BY <1>9 DEF LoadManifest, TruncateManifest, WriteManifest, Goto, Manifesting
  <2>2. pc'[e] \in Manifesting \cup {"save"}
    BY <1>2, <1>9 DEF LoadManifest, TruncateManifest, WriteManifest, Goto, Manifesting
  <2>3. Settled(c)'
    BY <1>1, <1>4, <2>1 DEF Covered
  <2> QED
    BY <2>2, <2>3 DEF Covered, Manifesting
<1>10. CASE SaveTruncates(e)
  BY <1>1, <1>2, <1>4, <1>5, <1>10 DEF SaveTruncates, Goto, Covered, Manifesting
<1>11. CASE SaveState(e) \/ Respond(e) \/ Crash(e)
  <2>1. pc'[e] \in {"respond", "idle"}
    BY <1>2, <1>11 DEF SaveState, Respond, Crash, Forget
  <2> QED
    BY <2>1 DEF Covered, Manifesting
<1> QED
  BY <1>6, <1>7, <1>8, <1>9, <1>10, <1>11

LEMMA QuietKeptStep ==
    TypeOK /\ CollectsOnce /\ TimesPast /\ QuietKept /\ [Next]_vars => QuietKept'
<1> DEFINE Kept(x) == /\ state # Torn /\ state >= updated[x] => Settled(x)
                      /\ \A e \in Exporters : last[e] >= updated[x] => Settled(x)
                      /\ \A e \in Exporters : Covered(e, x)
<1> SUFFICES ASSUME TypeOK, CollectsOnce, TimesPast, QuietKept, [Next]_vars,
                    NEW c \in (quiet \ Undated)', LookedAt(c)
             PROVE  Kept(c)'
  BY DEF QuietKept, LookedAt
<1>1. CASE Update(c)
  <2>1. c \in Chats /\ \A e \in Exporters : pc'[e] = "idle"
    BY <1>1, TypeStep DEF Update, TypeOK
  <2>2. updated'[c] = clock + 1 /\ UNCHANGED <<state, last>>
    BY <1>1, <2>1 DEF Update, TypeOK, disk, run
  <2>3. /\ ~(state' # Torn /\ state' >= updated'[c])
        /\ \A e \in Exporters : ~(last'[e] >= updated'[c])
    BY <2>2 DEF TimesPast, TypeOK, Time
  <2> QED
    BY <2>1, <2>3 DEF Covered, Manifesting
<1>2. ASSUME NEW d \in Chats, Update(d), d # c
      PROVE  Kept(c)'
  <2>1. c \in quiet \ Undated /\ updated'[c] = updated[c]
    BY <1>2 DEF Update, TypeOK
  <2>2. UNCHANGED <<state, delivered, pc, mode, last, bubbles, entries, todo>>
    BY <1>2 DEF Update, disk, run
  <2>3. (Settled(c) <=> Settled(c)') /\ \A e \in Exporters : Has(e, c) <=> Has(e, c)'
    BY <2>1, <2>2 DEF Settled, Has
  <2>4. ASSUME NEW e \in Exporters PROVE Covered(e, c)'
    BY <2>1, <2>2, <2>3 DEF QuietKept, Covered
  <2> QED
    BY <2>1, <2>2, <2>3, <2>4 DEF QuietKept
<1>3. ASSUME UNCHANGED vars
      PROVE  Kept(c)'
  <2>1. c \in quiet \ Undated /\ UNCHANGED <<updated, state, delivered, pc, mode, last, bubbles, entries, todo>>
    BY <1>3 DEF vars, disk, run
  <2>2. (Settled(c) <=> Settled(c)') /\ \A e \in Exporters : Has(e, c) <=> Has(e, c)'
    BY <2>1 DEF Settled, Has
  <2> QED
    BY <2>1, <2>2 DEF QuietKept, Covered
<1>4. ASSUME NEW e \in Exporters, Export(e) \/ Crash(e)
      PROVE  Kept(c)'
  <2>1. UNCHANGED <<updated, quiet>>
    BY <1>4 DEF Export, Begin, ReadBubbles, ReadRows, StampSession, ReadSession, NothingFound,
      Collected, OpenZip, CloseZip, WriteFile, LoadManifest, TruncateManifest, WriteManifest,
      SaveTruncates, SaveState, Respond, Crash
  <2>2. c \in quiet \ Undated /\ c \in Chats
    BY <2>1 DEF TypeOK
  <2>3. Settled(c) => Settled(c)'
    BY <2>1, <2>2, SettledStays
  <2>4. state' # Torn /\ state' >= updated'[c] => Settled(c)'
    <3>1. CASE state' = state
      BY <2>1, <2>2, <2>3, <3>1 DEF QuietKept
    <3>2. CASE SaveState(e) /\ state' = saving[e]
      <4>1. Settled(c) \/ (mode[e].out = "web" /\ Has(e, c))
        BY <2>2, <3>2 DEF SaveState, QuietKept, Covered
      <4>2. CASE mode[e].out = "web" /\ Has(e, c)
        <5>1. pc'[e] = "respond" /\ UNCHANGED entries
          BY <3>2, <4>2 DEF SaveState, run, TypeOK
        <5>2. Has(e, c)'
          BY <2>1, <4>2, <5>1 DEF Has
        <5> QED
          BY <5>1, <5>2 DEF Settled
      <4> QED
        BY <2>3, <4>1, <4>2
    <3>3. state' \in {state, Torn} \/ (SaveState(e) /\ state' = saving[e])
      BY <1>4 DEF Export, Begin, ReadBubbles, ReadRows, StampSession, ReadSession, NothingFound,
        Collected, OpenZip, CloseZip, WriteFile, LoadManifest, TruncateManifest, WriteManifest,
        SaveTruncates, SaveState, Respond, Crash, disk
    <3> QED
      BY <3>1, <3>2, <3>3
  <2>5. ASSUME NEW d \in Exporters, last'[d] >= updated'[c] PROVE Settled(c)'
    <3>1. CASE last'[d] = last[d]
      BY <2>1, <2>2, <2>3, <2>5, <3>1 DEF QuietKept
    <3>2. CASE last'[d] = 0
      <4>1. updated'[c] > 0 /\ updated'[c] \in Int
        BY <2>1, <2>2 DEF TimesPast, TypeOK, Time
      <4> QED
        BY <2>5, <3>2, <4>1
    <3>3. CASE state # Torn /\ last'[d] = state
      BY <2>1, <2>2, <2>3, <2>5, <3>3 DEF QuietKept
    <3>4. ASSUME Begin(d) PROVE last'[d] = 0 \/ (state # Torn /\ last'[d] = state)
      BY <3>4 DEF Begin, LastExport, TypeOK
    <3>5. ASSUME e = d PROVE Begin(d) \/ last'[d] = last[d] \/ last'[d] = 0
      BY <1>4, <3>5 DEF Export, ReadBubbles, ReadRows, StampSession, ReadSession, NothingFound,
        Collected, OpenZip, CloseZip, WriteFile, LoadManifest, TruncateManifest, WriteManifest,
        SaveTruncates, SaveState, Respond, Crash, Forget, run, TypeOK
    <3> QED
      BY <1>4, <3>1, <3>2, <3>3, <3>4, <3>5, OthersKeep
  <2>6. ASSUME NEW d \in Exporters, d # e PROVE Covered(d, c)'
    <3>1. UNCHANGED <<updated, pc[d], mode[d], bubbles[d], entries[d], todo[d]>>
      BY <1>4, <2>1, <2>6, OthersKeep
    <3>2. Has(d, c) <=> Has(d, c)'
      BY <3>1 DEF Has
    <3>3. Covered(d, c)
      BY <2>2 DEF QuietKept
    <3> QED
      BY <2>3, <3>1, <3>2, <3>3 DEF Covered
  <2>7. Covered(e, c)'
    BY <1>4, <2>2, CollectingCovers, WritingCovers DEF Export
  <2> QED
    BY <2>4, <2>5, <2>6, <2>7
<1> QED
  BY <1>1, <1>2, <1>3, <1>4 DEF Next

LEMMA QuietKeptHolds == Spec => []QuietKept
<1>1. Init => QuietKept
  BY DEF Init, QuietKept
<1> QED
  BY <1>1, QuietKeptStep, ExportTypeCorrect, CollectsOnceHolds, TimesPastHolds, PTL DEF Spec

\* The invariant says that a pending quiet change is later than the saved time.
LEMMA KeptIsDue ==
    ASSUME TypeOK, TimesPast, QuietKept, NEW c \in Chats \ Undated, LookedAt(c),
           c \in quiet, Pending(c)
    PROVE  Due(c) \/ Sending(c)
<1>1. /\ updated[c] \in Int /\ updated[c] > 0 /\ delivered[c] \in Int
      /\ state # Torn => state \in Int
  BY DEF TypeOK, TimesPast, Time
<1>2. CASE Settled(c)
  BY <1>1, <1>2 DEF Settled, Pending, Sending, Has, Names
<1>3. CASE ~Settled(c)
  BY <1>1, <1>3 DEF QuietKept, Due, LastExport, Stamp
<1> QED
  BY <1>2, <1>3

\* A conversation that every kind of export looks at, and that was changed while
\* none was running, is exported or stays due until it is: the saved time never
\* passes over it, however many exports overlap or are killed.
THEOREM QuietChangesKept ==
    ASSUME NEW c \in Chats \ Undated, LookedAt(c)
    PROVE  Spec => [](c \in quiet /\ Pending(c) => Due(c) \/ Sending(c))
<1>1. TypeOK /\ TimesPast /\ QuietKept => (c \in quiet /\ Pending(c) => Due(c) \/ Sending(c))
  BY KeptIsDue
<1> QED
  BY <1>1, QuietKeptHolds, ExportTypeCorrect, TimesPastHolds, PTL

\* So, when every kind of export looks at every conversation, all of them stay due.
THEOREM QuietChangesDue ==
    ASSUME \A c \in Chats : LookedAt(c)
    PROVE  Spec => []QuietChangesStayDue
<1>1. TypeOK /\ TimesPast /\ QuietKept => QuietChangesStayDue
  BY KeptIsDue DEF QuietChangesStayDue
<1> QED
  BY <1>1, QuietKeptHolds, ExportTypeCorrect, TimesPastHolds, PTL
===============================================================================
