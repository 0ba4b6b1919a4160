------------------------------ MODULE MCDialogs ------------------------------
(* Dialogs with a user, a legacy chat and a channel that have one number.  *)
EXTENDS Dialogs

Wds  == {"user", "chat", "channel", "Channel", "7", "007"}
Low  == [w \in Wds |-> IF w = "Channel" THEN "channel" ELSE w]
Val  == [n \in {"7", "007"} |-> 7]
Dec  == [i \in {7} |-> "7"]
Ps   == Kinds \X Ids

(* Up to two dialogs with different peers, and up to two objects, also of  *)
(* peers that have no dialog.                                              *)
Items   == {[peer |-> p, unread |-> c[1], top |-> c[2]] :
              p \in Peers, c \in {<<0, 0>>, <<0, 1>>, <<1, 1>>}}
Pairs   == {<<<<"user", 7>>, <<"channel", 7>>>>, <<<<"channel", 7>>, <<"chat", 7>>>>,
            <<<<"chat", 7>>, <<"user", 7>>>>}
Lists   == {<<>>} \cup {<<d>> : d \in Items}
           \cup {<<d, e>> : d \in Items, e \in Items}
Proper  == {s \in Lists : Len(s) = 2 => <<s[1].peer, s[2].peer>> \in Pairs}
Objects == {<<>>} \cup {<<p>> : p \in Peers} \cup {<<p, q>> : p, q \in Peers}
Some    == {[dialogs |-> s, objects |-> o] :
              s \in Proper, o \in {s \in Objects : Len(s) = 2 => s[1] # s[2]}}

Flags(u, d, g, c) == [unread |-> u, direct |-> d, groups |-> g, channels |-> c]
Choices == {Flags(FALSE, FALSE, FALSE, FALSE), Flags(TRUE, FALSE, TRUE, FALSE),
            Flags(FALSE, FALSE, TRUE, TRUE)}

(* All sequences of up to two tokens, and longer ones around a colon and a *)
(* name.                                                                   *)
NoTwoWords(s) == \A i \in 2..Len(s) : s[i - 1] \in Words => s[i] \notin Words
Opt(t)   == {<<>>, <<t>>}
Short    == UNION {[1..n -> Tokens] : n \in 0..2}
PairLike == {a \o u \o <<k>> \o b \o <<Colon>> \o b \o <<n>> \o a :
               a, b \in Opt(Space), u \in Opt(Link), k, n \in Words}
NameLike == {a \o u \o b \o <<w>> \o c \o a :
               a \in Opt(Space), u \in Opt(Link), b \in Opt(At), c \in Opt(Slash), w \in Words}
Spelled  == {s \in Short \cup PairLike \cup NameLike : NoTwoWords(s)}
=============================================================================
