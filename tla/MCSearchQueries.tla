-------------------------- MODULE MCSearchQueries --------------------------
(* Constants of SearchQueries for TLC.                                      *)
EXTENDS SearchQueries, TLC

Doc(title, alt, words) == [title |-> title, alt |-> alt, words |-> words]

\* A comic with both tokens in its text only, one with a token in its title
\* and alt text, and one that matches only through its alt text.
Docs ==
  {Doc(<< >>, << >>, <<"linux", "cpu">>),
   Doc(<<"cpu">>, <<"cpu">>, << >>),
   Doc(<<"nerd">>, <<"linux">>, <<"nerd">>)}
TwoTokens == {<<"cpu">>, <<"linux", "cpu">>, <<"nerd", "linux">>}
=============================================================================
