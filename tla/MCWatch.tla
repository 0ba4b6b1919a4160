------------------------------- MODULE MCWatch -------------------------------
(* Watch over the log of two channels, one of which has a username too.    *)
EXTENDS Watch, TLC
CONSTANTS news, chat, username

TwoChats == {news, chat}
Apart    == [r \in TwoChats |-> r]
OneName  == {news}
TwoNames == {news, username}
Aliased  == [r \in TwoNames |-> news]
=============================================================================
