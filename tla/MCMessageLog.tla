---------------------------- MODULE MCMessageLog ----------------------------
(* MessageLog on one channel that is always referred to canonically.       *)
EXTENDS MessageLog, TLC
CONSTANT channel

OneName  == {channel}
OneChat  == [r \in OneName |-> channel]
Symmetry == Permutations(Workers)
=============================================================================
