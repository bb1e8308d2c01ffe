------------------------------- MODULE MCTrivia -------------------------------
(* A small instance of Trivia: quizzes of two questions with two options     *)
(* each, from replies with malformed questions among them.                   *)
EXTENDS Trivia, TLC

Asked(text, options, correct) ==
  [text |-> text, options |-> options, correct |-> correct]

A == <<"a", "A">>
B == <<"b", "b">>
LowerA == <<"a", "a">>

Good1 == Asked("q1", <<A, B>>, 1)
Good2 == Asked("q2", <<B, A>>, 2)
Doubled == Asked("q3", <<LowerA, A>>, 2)
Unfilled == Asked("q4", <<A, EmptyOption>>, 1)
Astray == Asked("q5", <<A, B>>, 3)
Short == Asked("q6", <<A>>, 1)
Silent == Asked("", <<A, B>>, 1)

MCReplies == {<<Doubled, Good1, Good2, Good1>>, <<Unfilled, Astray, Short, Silent>>}
MCOrders == {<<2, 1>>}
MCEmpty == <<"", "">>

Symmetry == Permutations(Pages)
=============================================================================
