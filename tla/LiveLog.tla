------------------------------- MODULE LiveLog -------------------------------
(***************************************************************************)
(* The message log with its writers and the agents that watch it, together: *)
(* the goroutines of MessageLog, whose statements may fail and which a     *)
(* crash takes away, and polls of Watch between any two of their           *)
(* statements.  They share nothing but the table messages.  An agent and   *)
(* its cursor outlive a crash, as an agent is another process.             *)
(***************************************************************************)
EXTENDS MessageLog

CONSTANTS
  AllPeers,      \* the empty PeerID, no filter
  Feeds,         \* the filters that are polled
  Limits,        \* values of params.Limit
  DefaultLimit,  \* 50 in the code
  MaxLimit       \* 500 in the code

ASSUME PollsAssumption ==
  /\ AllPeers \notin Refs /\ Feeds \subseteq Refs \cup {AllPeers}
  /\ Limits \subseteq Int
  /\ DefaultLimit \in Nat \ {0}
  /\ MaxLimit \in Nat \ {0}

VARIABLES
  cursor,   \* the cursor of an agent
  received  \* how often an agent has received a message

Reader == INSTANCE Watch

agentVars == <<cursor, received>>
liveVars  == <<logVars, agentVars>>

LiveInit ==
  /\ Init
  /\ cursor = [f \in Feeds |-> 0]
  /\ received = [f \in Feeds |-> [k \in Key |-> 0]]

Write == Next /\ UNCHANGED agentVars

Read(f) == Reader!PollStep(f) /\ UNCHANGED <<unread, lastAt, job, skewed, missed>>

LiveNext == Write \/ \E f \in Feeds : Read(f)

LiveSpec == LiveInit /\ [][LiveNext]_liveVars

(* What a live update or a fetch has put into the log reaches every agent  *)
(* that wants it at most once and in the order of the log, with no gap,    *)
(* whichever statements of the writers fail and wherever the process stops. *)
EndToEndFeed == Reader!FeedSpec
=============================================================================
