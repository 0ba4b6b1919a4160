------------------------------ MODULE MCHistory ------------------------------
(* GetMessages for one conversation with a username, one of whose messages *)
(* is a service message.                                                   *)
EXTENDS History, TLC
CONSTANTS news, username

OneName  == {news}
TwoNames == {news, username}
Aliased  == [r \in TwoNames |-> news]
Joins    == {<<news, 2>>}
=============================================================================
