------------------------------ MODULE MCTranscript ------------------------------
(* Instances of Transcript for TLC. *)
EXTENDS Transcript

\* A question after an answer, two questions for one answer, and an answer before
\* any question.
SomeRoles == {<<"user", "ai", "user">>, <<"user", "user", "ai">>, <<"ai", "user", "ai">>}
=============================================================================
