----------------------------- MODULE MCKVMessage -----------------------------
(* Instances of KVMessage for TLC: operands with every character that the    *)
(* parsers look for, and texts that no program of the repository sends.      *)
EXTENDS KVMessage

MCKeys == {<< >>, <<"a">>, <<"a", "=">>, <<"?", "a">>, <<"a", "&">>, <<" ", "a">>}
MCVals == {<< >>, <<"b">>, <<"=", "b">>, <<"&", "val", "=", "b">>}
MCBodies == {<<"b">>, <<"b", "\n", "\n">>}
MCSymbols == Words \cup {"a", "b", "P", "PATCH", "other"}
MCForeign ==
  {m \o <<" ", "/">> \o p \o q \o <<"\n">> :
     m \in {<< >>, <<"GET">>, <<"PUT">>, <<"DELETE">>, <<"POST">>, <<"P">>, <<"PATCH">>},
     p \in {<< >>, <<"register">>, <<"commit">>, <<"other">>},
     q \in {<< >>, <<"?", "key", "=", "a">>, <<"?", "val", "=", "b">>,
            <<"?", "=", "a", "&", "val", "=">>, <<"?", "other", "=", "a">>,
            <<"?", "key", "&", "val", "=", "b">>}}
=============================================================================
