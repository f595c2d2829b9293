---------------------------- MODULE MCConfiguration ----------------------------
(* Instances of Configuration for TLC. *)
EXTENDS Configuration, TLC

CONSTANTS p1, p2, home, other

Short(S, n) == UNION {[1 .. k -> S] : k \in 0 .. n}

\* Words as x, android, sand, and/or with a mark; phrases, also of an operator.
Word(v) == [kind |-> "word", value |-> v]
Phrase(v) == [kind |-> "phrase", value |-> v]
Op(k) == [kind |-> k]
Words == {Word(v) : v \in {<<"x">>, <<"and", "x">>, <<"x", "and">>, <<"dash", "or">>, <<"x", "quote">>}}
Phrases == {Phrase(v) : v \in {<<>>, <<"and">>, <<"x", "space", "or">>, <<"space", "x">>}}
Terms == Words \cup Phrases

\* The items as a line, with so many spaces between them.
Layout(items, gap) ==
    LET size(i) == Len(Spelled(items[i]))
        at[i \in 1 .. Len(items)] == IF i = 1 THEN 1 ELSE at[i - 1] + size(i - 1) + gap
        item(p) == {i \in 1 .. Len(items) : p \in at[i] .. at[i] + size(i) - 1}
    IN  [items |-> items, at |-> at,
         line |-> [p \in 1 .. at[Len(items)] + size(Len(items)) - 1 |->
                      IF item(p) = {} THEN "space"
                      ELSE LET i == Min(item(p)) IN Spelled(items[i])[p - at[i] + 1]]]
Nothing == [items |-> <<>>, at |-> <<>>]

\* One line between a comment and an empty line.
Written(items, gap) ==
    LET l == Layout(items, gap)
    IN  [readable |-> TRUE, meant |-> <<Nothing, l, Nothing>>,
         lines |-> <<<<"space", "hash", "x">>, l.line \o <<"space">>, <<"space">>>>]
OneClause == {Written(<<s, t>>, 1) : s \in Terms, t \in Terms}
                 \cup {Written(<<s, Op("and"), t>>, 1) : s \in Terms, t \in Terms}
TwoClauses ==
    {Written(<<s, t, Op("or"), u>>, 2) :
        s \in Terms, t \in {Word(<<"x">>), Phrase(<<"and">>)}, u \in Phrases}
RuleFiles == OneClause \cup TwoClauses

\* A second line with operators too many, a file that is not UTF-8, and a line that
\* is not written as the head of the file says.
X == Word(<<"x">>)
And == Phrase(<<"and">>)
FirstLine == Layout(<<X, And>>, 1)
SecondLine == Layout(<<Op("or"), And, Op("or"), Op("or"), X, Op("and"), X, Op("and")>>, 1)
Later ==
    {[readable |-> TRUE, meant |-> <<FirstLine, SecondLine>>, lines |-> <<FirstLine.line, SecondLine.line>>],
     [readable |-> FALSE, meant |-> <<FirstLine>>, lines |-> <<FirstLine.line>>],
     [readable |-> TRUE, meant |-> <<Nothing>>, lines |-> <<<<"quote", "x", "space", "x", "space">>>>]}

AllFiles == RuleFiles \cup Later

\* How the server may be started so that it knows of its workers.
KnownDeployments ==
    {d \in [workers : {{p1}, {p1, p2}}, flag : Flags, environ : {<<>>, <<1>>, <<1, 2>>},
            args : {<<>>, <<2>>}] :
        Cardinality(d.workers) > 1 =>
            d.flag = "yes" \/ (d.flag = "" /\ 2 \in ToSet(d.environ) \cup ToSet(d.args))}

\* One process and any line, or any deployment and the files saved later.
Alone == [workers |-> {p1}, flag |-> "", environ |-> <<>>, args |-> <<>>]
AllStarts == ({Alone} \X RuleFiles) \cup (KnownDeployments \X Later)

Said == Short({"and", "or", "x", "space", "dash"}, 2)
            \cup {<<"x">> \o t : t \in [1 .. 2 -> {"and", "or", "space"}]}
Told == [listed : {<<<<"x">>, <<"and">>>>, <<<<>>, <<"x", "space">>>>},
         content : {<<>>, <<"dash", "dash", "dash">>}]
Sent == home :> home @@ other :> other @@ "link" :> other
=============================================================================
