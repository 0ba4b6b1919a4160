-------------------------------- MODULE Watch --------------------------------
(***************************************************************************)
(* Client.Watch over the table messages, and the agents that poll it.  An  *)
(* agent passes the same PeerID in every call and the cursor of the last   *)
(* result as SinceRowID; a restart of the process does not lose the        *)
(* cursor, which the agent keeps.  Two agents with one filter would see    *)
(* the same, so an agent is known by its filter.                           *)
(***************************************************************************)
EXTENDS MessageTable

CONSTANTS
  AllPeers,      \* the empty PeerID, no filter
  Feeds,         \* the filters that are polled
  Limits,        \* values of params.Limit
  DefaultLimit,  \* 50 in the code
  MaxLimit       \* 500 in the code

ASSUME FeedsAssumption == AllPeers \notin Refs /\ Feeds \subseteq Refs \cup {AllPeers}
ASSUME LimitsAssumption ==
  /\ Limits \subseteq Int
  /\ DefaultLimit \in Nat \ {0}
  /\ MaxLimit \in Nat \ {0}

VARIABLES
  cursor,   \* the cursor of an agent
  received  \* how often an agent has received a message

watchVars == <<lastRowId, rowOf, isRead, cursor, received>>

TypeOK ==
  /\ TableTypeOK
  /\ cursor \in [Feeds -> Nat]
  /\ received \in [Feeds -> [Key -> Nat]]

Init ==
  /\ TableInit
  /\ cursor = [f \in Feeds |-> 0]
  /\ received = [f \in Feeds |-> [k \in Key |-> 0]]

Wanted == [f \in Feeds |-> {k \in Key : f = AllPeers \/ k[1] = f}]

(* Mutation: the newest row of the table is left for the next call.        *)
MutLeavesNewest(f) == {k \in Wanted[f] : rowOf[k] > cursor[f] /\ rowOf[k] < lastRowId}

(* WHERE rowid > ? AND peer_id = ?                                         *)
Newer(f) == {k \in Wanted[f] : rowOf[k] > cursor[f]}

(* The clamp of the limit.                                                 *)
Effective(limit) ==
  IF limit <= 0 THEN DefaultLimit ELSE IF limit > MaxLimit THEN MaxLimit ELSE limit

(* Mutation: ORDER BY rowid DESC.                                          *)
MutNewestFirst(f, n) ==
  {k \in Newer(f) : Cardinality({j \in Newer(f) : rowOf[j] > rowOf[k]}) < n}

(* ORDER BY rowid ASC LIMIT ?                                              *)
Page(f, n) ==
  {k \in Newer(f) : Cardinality({j \in Newer(f) : rowOf[j] < rowOf[k]}) < n}

(* Watch returns a page that is not empty.  (An empty one returns the      *)
(* cursor it was called with.  A scan that fails half-way returns a prefix *)
(* of the page with its cursor: the same as a smaller limit.)              *)
Poll(f, limit) ==
  LET page == Page(f, Effective(limit)) IN
  \E last \in page :
    /\ \A k \in page : rowOf[k] <= rowOf[last]
    /\ cursor' = [cursor EXCEPT ![f] = rowOf[last]]
    /\ received' = [received EXCEPT ![f] =
                      [k \in Key |-> IF k \in page THEN @[k] + 1 ELSE @[k]]]
    /\ UNCHANGED tableVars

PollStep(f) == \E limit \in Limits : Poll(f, limit)

Next ==
  \/ TableNext /\ UNCHANGED <<cursor, received>>
  \/ \E f \in Feeds : PollStep(f)

Spec == Init /\ [][Next]_watchVars

(* "Watch never blocks; agents poll on a cadence they choose": every agent *)
(* keeps polling.  Nothing else is fair.                                   *)
FairSpec == Spec /\ \A f \in Feeds : WF_watchVars(PollStep(f))

-----------------------------------------------------------------------------
(* Properties.                                                             *)

(* What an agent has received is what lies at or before its cursor, each   *)
(* message once: upserts that refresh rows, rows of other peers, a limit   *)
(* smaller than the backlog and restarts leave neither gaps nor repeats.   *)
CursorTellsAll ==
  \A f \in Feeds : \A k \in Wanted[f] :
    received[f][k] = IF rowOf[k] \in 1..cursor[f] THEN 1 ELSE 0

(* Watch implements the feed it promises: each message once, in the order  *)
(* of the log, and eventually, as long as the agent polls.                 *)
Feed == INSTANCE MessageFeed WITH order <- rowOf
FeedFairSpec == Feed!FairSpec

(* The safety part alone.                                                  *)
FeedSpec == Feed!Spec
=============================================================================
