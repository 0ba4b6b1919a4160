----------------------------- MODULE MCLiveLog -----------------------------
(* LiveLog on one channel that is always referred to canonically.          *)
EXTENDS LiveLog, TLC
CONSTANT channel

OneName  == {channel}
OneChat  == [r \in OneName |-> channel]
Symmetry == Permutations(Workers)
=============================================================================
