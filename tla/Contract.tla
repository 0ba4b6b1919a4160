------------------------------- MODULE Contract -------------------------------
(***************************************************************************)
(* What an agent may rely on when it asks the client to change something   *)
(* at Telegram: a wish is performed at most once, however often the agent  *)
(* repeats what was refused; a refused wish has not been performed, one    *)
(* that is reported as done has been, and only in doubt the agent does not *)
(* know.  On a dry-run nothing is performed and done is said at once.      *)
(***************************************************************************)
EXTENDS Naturals

CONSTANT Callers  \* agents, each with one wish at a time

VARIABLES
  dry,   \* the client is on dry-run
  word,  \* what an agent was told of its wish
  done   \* how often its wish was performed

contractVars == <<dry, word, done>>

Init ==
  /\ dry \in BOOLEAN
  /\ word = [p \in Callers |-> "none"]
  /\ done = [p \in Callers |-> 0]

FirstWords == {"refused"} \cup (IF dry THEN {"done"} ELSE {"pending"})

Ask(p) ==
  /\ word[p] # "pending"
  /\ \E w \in FirstWords : word' = [word EXCEPT ![p] = w]
  /\ done' = [done EXCEPT ![p] = 0]
  /\ UNCHANGED dry

Repeat(p) ==
  /\ word[p] = "refused"
  /\ \E w \in FirstWords : word' = [word EXCEPT ![p] = w]
  /\ UNCHANGED <<dry, done>>

Perform(p) ==
  /\ word[p] = "pending" /\ done[p] = 0
  /\ done' = [done EXCEPT ![p] = 1]
  /\ UNCHANGED <<dry, word>>

Answer(p) ==
  /\ word[p] = "pending"
  /\ \E w \in {"doubt"} \cup (IF done[p] = 0 THEN {"refused"} ELSE {"done"}) :
       word' = [word EXCEPT ![p] = w]
  /\ UNCHANGED <<dry, done>>

(* The agent turns to something that changes nothing at Telegram.          *)
Leave(p) ==
  /\ word[p] # "pending"
  /\ word' = [word EXCEPT ![p] = "none"]
  /\ done' = [done EXCEPT ![p] = 0]
  /\ UNCHANGED dry

Next == \E p \in Callers : Ask(p) \/ Repeat(p) \/ Perform(p) \/ Answer(p) \/ Leave(p)

Spec == Init /\ [][Next]_contractVars
=============================================================================
