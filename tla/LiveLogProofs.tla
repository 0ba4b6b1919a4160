---------------------------- MODULE LiveLogProofs ----------------------------
(***************************************************************************)
(* The writers and the watching agents together.  Each side keeps what it  *)
(* was shown to keep alone, because all that one sees of the other is the  *)
(* table messages, and the writers change it as MessageTable says: the     *)
(* guarantees of MessageLog and Watch carry over, and the feed is exact    *)
(* from the workers' statements to the agents.                             *)
(***************************************************************************)
EXTENDS LiveLog, MessageLogProofs

(* The theorems of Watch, for the agents of LiveLog.                       *)
Watching == INSTANCE WatchProofs

(* A poll changes nothing the writers know of.                             *)
LEMMA ReadsLeaveLog == ASSUME NEW f \in Feeds, Read(f) PROVE UNCHANGED logVars
BY DEF Read, Reader!PollStep, Reader!Poll, Reader!tableVars, logVars

(* The writers of LiveLog are those of MessageLog.                         *)
LEMMA WritersAreUndisturbed == LiveSpec => Spec
<1>1. LiveInit => Init
  BY DEF LiveInit
<1>2. [LiveNext]_liveVars => [Next]_logVars
  BY ReadsLeaveLog DEF LiveNext, Write, liveVars
<1> QED
  BY <1>1, <1>2, PTL DEF LiveSpec, Spec

(* What MessageLog promises holds with agents that read in between.        *)
THEOREM LogKeepsPromises ==
  LiveSpec => /\ [](TypeOK /\ UnreadRowIsCounted /\ LastAtCoversRows)
              /\ ImplementsTable
BY WritersAreUndisturbed, TypeCorrect, NoHiddenUnread, NoOlderLastAt, LogImplementsTable, PTL

(* The assumptions of Watch hold of the agents of LiveLog.                 *)
LEMMA SameFiniteness == ASSUME NEW S PROVE Watching!IsFiniteSet(S) <=> IsFiniteSet(S)
BY DEF Watching!IsFiniteSet, IsFiniteSet

LEMMA FeedsAreExact == Watching!Spec => Watching!FeedSpec
<1>1. Watching!IsFiniteSet(Refs) /\ Watching!IsFiniteSet(MsgIds)
  BY SameFiniteness, RefsAssumption, MsgIdsAssumption
<1> HIDE DEF Watching!Spec, Watching!FeedSpec
<1> QED
  BY <1>1, Watching!WatchImplementsFeed, RefsAssumption, MsgIdsAssumption, PollsAssumption

(* Watching and Reader are two names of one module.                        *)
LEMMA SameKeys == Reader!Key = Key /\ Watching!Key = Key
BY DEF Reader!Key, Watching!Key, Key

LEMMA SameCardinality == \A S : Reader!Cardinality(S) = Watching!Cardinality(S)
BY DEF Reader!Cardinality, Watching!Cardinality

LEMMA SamePages ==
  ASSUME NEW f \in Feeds, NEW n PROVE Reader!Page(f, n) = Watching!Page(f, n)
<1>1. Reader!Wanted = Watching!Wanted
  BY SameKeys DEF Reader!Wanted, Watching!Wanted
<1>2. Reader!Newer(f) = Watching!Newer(f)
  BY <1>1 DEF Reader!Newer, Watching!Newer
<1> QED
  BY <1>2, SameCardinality DEF Reader!Page, Watching!Page

(* To the agents, the writers are the table of MessageTable.               *)
LEMMA AgentsSeeTheTable ==
  [LiveNext]_liveVars /\ [TableNext]_tableVars => [Watching!Next]_(Watching!watchVars)
<1> SUFFICES ASSUME [LiveNext]_liveVars, [TableNext]_tableVars
             PROVE  Watching!Next \/ UNCHANGED <<lastRowId, rowOf, isRead, cursor, received>>
  BY DEF Watching!watchVars
<1>1. TableNext => Watching!TableNext
  BY DEF TableNext, Watching!TableNext, Logs, Watching!Logs, ReadRows, Watching!ReadRows,
         UpsertRow, Watching!UpsertRow, Key, Watching!Key
<1>2. CASE Write \/ UNCHANGED liveVars
  <2>1. UNCHANGED <<cursor, received>>
    BY <1>2 DEF Write, liveVars, agentVars
  <2> QED
    BY <1>1, <2>1 DEF Watching!Next, tableVars
<1>3. ASSUME NEW f \in Feeds, Read(f) PROVE Watching!PollStep(f)
  <2>1. \A n : Reader!Page(f, n) = Watching!Page(f, n)
    BY SamePages
  <2>2. \A limit : Reader!Effective(limit) = Watching!Effective(limit)
    BY DEF Reader!Effective, Watching!Effective
  <2>3. ASSUME NEW limit \in Limits, Reader!Poll(f, limit) PROVE Watching!Poll(f, limit)
    <3> DEFINE page == Reader!Page(f, Reader!Effective(limit))
    <3>1. page = Watching!Page(f, Watching!Effective(limit))
      BY <2>1, <2>2
    <3> HIDE DEF page
    <3> QED
      BY <2>3, <3>1, SameKeys DEF page, Reader!Poll, Watching!Poll, Reader!tableVars, Watching!tableVars
  <2> QED
    BY <1>3, <2>3 DEF Read, Reader!PollStep, Watching!PollStep
<1> QED
  BY <1>2, <1>3 DEF LiveNext, Watching!Next

LEMMA AgentsWatch == LiveSpec => Watching!Spec
<1>1. LiveInit => Watching!Init
  BY DEF LiveInit, Init, TableInit, Watching!Init, Watching!TableInit, Key, Watching!Key
<1>2. LiveSpec => [][TableNext]_tableVars
  BY LogKeepsPromises, PTL DEF ImplementsTable, TableSpec
<1> QED
  BY <1>1, <1>2, AgentsSeeTheTable, PTL DEF LiveSpec, Watching!Spec

(* The feed is exactly-once and in order, from the statements of any       *)
(* number of concurrent, failing and crashing writers to any number of     *)
(* agents.                                                                 *)
THEOREM EndToEnd == LiveSpec => EndToEndFeed
<1>1. Watching!Feed!Init => Reader!Feed!Init
  BY SameKeys DEF Watching!Feed!Init, Reader!Feed!Init
<1>2. [Watching!Feed!Next]_(Watching!Feed!feedVars) => [Reader!Feed!Next]_(Reader!Feed!feedVars)
  <2>1. ASSUME NEW k \in Key, Watching!Feed!Arrive(k) PROVE Reader!Feed!Arrive(k)
    BY <2>1, SameKeys DEF Watching!Feed!Arrive, Reader!Feed!Arrive
  <2>2. ASSUME NEW f \in Feeds, Watching!Feed!Deliver(f) PROVE Reader!Feed!Deliver(f)
    <3>1. Watching!Feed!Pending(f) = Reader!Feed!Pending(f)
      BY SameKeys DEF Watching!Feed!Pending, Reader!Feed!Pending, Reader!Wanted, Watching!Wanted
    <3>2. PICK batch \in SUBSET Watching!Feed!Pending(f) :
            /\ batch # {}
            /\ \A k \in batch, j \in Watching!Feed!Pending(f) : rowOf[j] < rowOf[k] => j \in batch
            /\ received' = [received EXCEPT ![f] =
                              [k \in Key |-> IF k \in batch THEN 1 ELSE received[f][k]]]
            /\ UNCHANGED rowOf
      BY <2>2, SameKeys DEF Watching!Feed!Deliver
    <3> QED
      BY <3>1, <3>2, SameKeys DEF Reader!Feed!Deliver
  <2> QED
    BY <2>1, <2>2, SameKeys
       DEF Watching!Feed!Next, Reader!Feed!Next, Watching!Feed!feedVars, Reader!Feed!feedVars
<1>3. Watching!FeedSpec => EndToEndFeed
  BY <1>1, <1>2, PTL DEF Watching!FeedSpec, EndToEndFeed, Reader!FeedSpec, Watching!Feed!Spec, Reader!Feed!Spec
<1> QED
  BY <1>3, AgentsWatch, FeedsAreExact, PTL
=============================================================================
