------------------------------- MODULE MCShell -------------------------------
(* Instances of Shell for TLC: every kind of line up to the last token.      *)
EXTENDS Shell

MCWords == {"file", "&", ">", "<", "home", "prog", "arg", "typo", "quit", "cd", "sub", "a", "b", "c", "d", "e"}

MCCommands ==
  {t \in [argv : {<< >>, <<"prog">>, <<"prog", "arg">>, <<"typo">>},
          redir : {"none", ">", "<"}, bg : BOOLEAN] : TRUE}
  \cup {[argv |-> a, redir |-> "none", bg |-> FALSE] :
          a \in {<<"quit">>, <<"cd", "sub">>, <<"prog", "a", "b", "c", "d">>,
                <<"prog", "a", "b", "c", "d", "e">>}}
=============================================================================
