----------------------------- MODULE ExclusionRules -----------------------------
(***************************************************************************)
(* utils/exclusion_rules.py: how a line of the rules file becomes tokens   *)
(* and when tokens match a text.                                           *)
(*                                                                         *)
(* A line or text is a sequence of pieces: the letters AND and OR, other   *)
(* letters, and the characters that are none.  Case is left out: the code  *)
(* compares lower case everywhere.                                         *)
(***************************************************************************)
EXTENDS Integers, Sequences, SequencesExt, FiniteSetsExt

CONSTANTS
    Letters,    \* pieces of words other than AND and OR
    Marks       \* punctuation

Keywords == {"and", "or"}
WordPieces == Keywords \cup Letters
Pieces == WordPieces \cup Marks \cup {"space", "quote", "hash", "newline"}

ASSUME PieceAssumption ==
    /\ Letters \cap Marks = {}
    /\ (Letters \cup Marks) \cap (Keywords \cup {"space", "quote", "hash", "newline"}) = {}

Strip(s) ==
    LET solid == {i \in DOMAIN s : s[i] # "space"}
    IN  IF solid = {} THEN <<>> ELSE SubSeq(s, Min(solid), Max(solid))

Operator(k) == [op |-> k, value |-> <<>>]
Term(value) == [op |-> "term", value |-> value]

\* Mutant of Keyword: no word boundary.
KeywordPrefix(line, i) == line[i] \in Keywords

\* \bAND\b or \bOR\b: no letter follows.
Keyword(line, i) ==
    line[i] \in Keywords /\ (i = Len(line) \/ line[i + 1] \notin WordPieces)

\* Where the word that begins at i ends.
WordEnd(line, i) == Min({j \in i .. Len(line) : line[j] = "space"} \cup {Len(line) + 1})

\* tokenize_rule: a phrase ends at the next quote, an open one is the rest of
\* the line, a word ends at a space only.
Tokens(raw) ==
    LET line == Strip(raw)
        Closing(i) == {j \in (i + 1) .. Len(line) : line[j] = "quote"}
        from[i \in 1 .. Len(line) + 1] ==
            IF i > Len(line) THEN <<>>
            ELSE IF line[i] = "space" THEN from[i + 1]
            ELSE IF Keyword(line, i) THEN <<Operator(line[i])>> \o from[i + 1]
            ELSE IF line[i] # "quote"
              THEN <<Term(SubSeq(line, i, WordEnd(line, i) - 1))>> \o from[WordEnd(line, i)]
            ELSE IF Closing(i) = {}
              THEN <<Term(Strip(SubSeq(line, i + 1, Len(line))))>>
            ELSE LET j == Min(Closing(i))
                 IN  <<Term(SubSeq(line, i + 1, j - 1))>> \o from[j + 1]
    IN  from[1]

\* value in text
Occurs(value, text) ==
    \E i \in 0 .. Len(text) - Len(value) : SubSeq(text, i + 1, i + Len(value)) = value

\* _term_matches: an empty term matches nothing.
TermMatches(t, text) == t.value # <<>> /\ Occurs(t.value, text)

\* Mutant of Clauses: OR is skipped as AND is.
ClausesJoined(tokens) == {{t \in ToSet(tokens) : t.op = "term"}}

\* The terms between two ORs; AND is skipped.
Clauses(tokens) ==
    LET ors == {0, Len(tokens) + 1} \cup {i \in DOMAIN tokens : tokens[i].op = "or"}
        Between(i, j) == {t \in ToSet(SubSeq(tokens, i + 1, j - 1)) : t.op = "term"}
    IN  {Between(i, Min({j \in ors : i < j})) : i \in ors \ {Len(tokens) + 1}}

\* _rule_matches: all terms of one clause, and a clause has terms.
RuleMatches(tokens, text) ==
    \E c \in Clauses(tokens) : c # {} /\ \A t \in c : TermMatches(t, text)

\* load_rules: no rule at all when the file is missing or not UTF-8.
LoadRules(file) ==
    LET Written(l) == Strip(l) # <<>> /\ Strip(l)[1] # "hash"
    IN  IF file.readable THEN {Tokens(l) : l \in {k \in ToSet(file.lines) : Written(k)}} \ {<<>>}
                         ELSE {}

\* is_excluded_by_rules
Excluded(rules, text) == text # <<>> /\ \E r \in rules : RuleMatches(r, text)

JoinLines(text, part) ==
    IF text = <<>> \/ part = <<>> THEN text \o part ELSE (text \o <<"newline">>) \o part

\* Mutant of SearchableText: no more than a snippet.
SearchableTextCut(parts) ==
    LET whole[i \in 0 .. Len(parts)] == IF i = 0 THEN <<>> ELSE JoinLines(whole[i - 1], parts[i])
        text == whole[Len(parts)]
    IN  SubSeq(text, Max({1, Len(text) - 3}), Len(text))

\* build_searchable_text: the parts that are not empty, one to a line.
SearchableText(parts) ==
    LET joined[i \in 0 .. Len(parts)] == IF i = 0 THEN <<>> ELSE JoinLines(joined[i - 1], parts[i])
    IN  joined[Len(parts)]

-----------------------------------------------------------------------------
(* What the head of the file promises to an author.  A rule is written as  *)
(* items with spaces between them: AND, OR, a word, or a phrase in quotes. *)

\* A word that can be told from an operator, from a phrase and from a comment.
IsWord(v) ==
    /\ v # <<>> /\ v[1] \notin {"quote", "hash"} /\ "space" \notin ToSet(v)
    /\ v[1] \in Keywords => Len(v) > 1 /\ v[2] \in WordPieces

Item == [kind : Keywords] \cup [kind : {"word", "phrase"}, value : Seq(Pieces)]
IsTerm(item) == item.kind \in {"word", "phrase"}

\* A word is one, and a phrase has no quote in it.
CanBeWritten(item) ==
    /\ item.kind = "word" => IsWord(item.value)
    /\ item.kind = "phrase" => "quote" \notin ToSet(item.value)

Spelled(item) ==
    CASE item.kind \in Keywords -> <<item.kind>>
      [] item.kind = "word"     -> item.value
      [] item.kind = "phrase"   -> (<<"quote">> \o item.value) \o <<"quote">>

\* The items fill the line, with nothing but spaces between them: i begins at at[i].
WrittenAs(line, items, at) ==
    LET n == Len(items)
        Begin(i) == IF i = n + 1 THEN Len(line) + 1 ELSE at[i]
        End(i) == at[i] + Len(Spelled(items[i]))
    IN  /\ n > 0 /\ DOMAIN at = 1 .. n /\ at[1] = 1
        /\ \A i \in 1 .. n :
              /\ CanBeWritten(items[i]) /\ at[i] \in DOMAIN line
              /\ End(i) - 1 \in DOMAIN line
              /\ \A k \in 1 .. Len(Spelled(items[i])) :
                    line[at[i] + k - 1] = Spelled(items[i])[k]
              /\ IF i = n THEN End(i) = Begin(i + 1) ELSE End(i) < Begin(i + 1)
              /\ \A k \in End(i) .. Begin(i + 1) - 1 : line[k] = "space"

\* What a file says: for each line the items and where they are, and no item for a
\* line that is empty or begins with #.
WellWritten(file) ==
    /\ DOMAIN file.meant = DOMAIN file.lines
    /\ \A i \in DOMAIN file.lines :
         LET line == Strip(file.lines[i])  rule == file.meant[i] IN
         IF line = <<>> \/ line[1] = "hash" THEN rule.items = <<>>
                                            ELSE WrittenAs(line, rule.items, rule.at)

\* Some term is in the text, and with it all that no OR separates from it.
Means(items, text) ==
    LET Apart(i, j) == \E k \in DOMAIN items :
                          items[k].kind = "or" /\ ((i < k /\ k < j) \/ (j < k /\ k < i))
    IN  \E i \in DOMAIN items :
            /\ IsTerm(items[i])
            /\ \A j \in DOMAIN items :
                  IsTerm(items[j]) /\ ~Apart(i, j) =>
                      items[j].value # <<>> /\ Occurs(items[j].value, text)
=============================================================================
