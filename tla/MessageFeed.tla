----------------------------- MODULE MessageFeed -----------------------------
(***************************************************************************)
(* What Watch promises to an agent that polls it with the cursor of its    *)
(* last result (the comment above Watch in watch.go): a gap-free feed.     *)
(* Every message that enters the log and that the agent wants is delivered *)
(* to it exactly once, and in the order in which the messages entered.     *)
(***************************************************************************)
EXTENDS Naturals

CONSTANTS
  Key,    \* messages
  Feeds,  \* agents
  Wanted  \* the messages each agent asks for

VARIABLES
  order,    \* the place of a message in the log, 0 while it is not there
  received  \* how often an agent has received a message

feedVars == <<order, received>>

Init ==
  /\ order = [k \in Key |-> 0]
  /\ received = [f \in Feeds |-> [k \in Key |-> 0]]

(* A message enters the log behind all that are there.                     *)
Arrive(k) ==
  /\ order[k] = 0
  /\ order' = [order EXCEPT ![k] = order'[k]]
  /\ \A j \in Key : order'[k] > order[j]
  /\ UNCHANGED received

Pending(f) == {k \in Wanted[f] : order[k] # 0 /\ received[f][k] = 0}

(* An agent receives some of the messages it has not received, none of     *)
(* which may overtake another.                                             *)
Deliver(f) ==
  /\ \E batch \in SUBSET Pending(f) :
       /\ batch # {}
       /\ \A k \in batch, j \in Pending(f) : order[j] < order[k] => j \in batch
       /\ received' = [received EXCEPT ![f] =
                         [k \in Key |-> IF k \in batch THEN 1 ELSE @[k]]]
  /\ UNCHANGED order

Next == (\E k \in Key : Arrive(k)) \/ (\E f \in Feeds : Deliver(f))

Spec == Init /\ [][Next]_feedVars

(* An agent that keeps polling eventually receives what is pending.        *)
FairSpec == Spec /\ \A f \in Feeds : WF_feedVars(Deliver(f))
=============================================================================
