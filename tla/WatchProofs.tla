----------------------------- MODULE WatchProofs -----------------------------
(***************************************************************************)
(* Watch for any number of peers, messages and agents, and any limits.     *)
(* The feed is exact because rows are numbered in the order in which they  *)
(* appear: a new row lies behind every cursor, so what a cursor has passed *)
(* is settled; and a page has no holes, so the cursor passes nothing that  *)
(* the page does not contain.                                              *)
(***************************************************************************)
EXTENDS Watch, FiniteSetTheorems, WellFoundedInduction, TLAPS

(* Rows are numbered from the sequence, each with a number of its own.     *)
RowsAreNumbered ==
  /\ \A k \in Key : rowOf[k] <= lastRowId
  /\ \A j, k \in Key : rowOf[j] = rowOf[k] /\ rowOf[k] # 0 => j = k

(* No agent is ahead of the log.                                           *)
CursorsInLog == \A f \in Feeds : cursor[f] <= lastRowId

IInv == TypeOK /\ RowsAreNumbered /\ CursorsInLog /\ CursorTellsAll

-----------------------------------------------------------------------------
(* The table.                                                              *)

(* There are finitely many rows to count.                                  *)
LEMMA KeyIsFinite == IsFiniteSet(Key)
BY RefsAssumption, MsgIdsAssumption, FS_Product DEF Key

(* A filter selects rows.                                                  *)
LEMMA WantedAreKeys == ASSUME NEW f \in Feeds PROVE Wanted[f] \in SUBSET Key
BY DEF Wanted

(* An upsert leaves the rows alone or adds one behind all others.          *)
LEMMA UpsertRows ==
  ASSUME TableTypeOK, NEW k \in Key, NEW read \in BOOLEAN, UpsertRow(k, read)
  PROVE  \/ UNCHANGED <<lastRowId, rowOf>>
         \/ /\ rowOf[k] = 0
            /\ lastRowId' = lastRowId + 1
            /\ rowOf' = [rowOf EXCEPT ![k] = lastRowId + 1]
BY DEF UpsertRow

(* The statements on the table keep its types, the numbering of its rows   *)
(* and the place of every row.                                             *)
LEMMA TableStep ==
  ASSUME TableTypeOK, RowsAreNumbered, TableNext
  PROVE  /\ TableTypeOK'
         /\ RowsAreNumbered'
         /\ lastRowId <= lastRowId'
         /\ \A k \in Key : /\ rowOf[k] # 0 => rowOf'[k] = rowOf[k]
                           /\ rowOf[k] = 0 => rowOf'[k] = 0 \/ rowOf'[k] > lastRowId
         /\ \A k \in Key : isRead[k] => isRead'[k]
<1> USE DEF TableTypeOK, RowsAreNumbered
<1>1. ASSUME NEW r \in Refs, ReadRows(r)
      PROVE  /\ UNCHANGED <<lastRowId, rowOf>>
             /\ isRead' \in [Key -> BOOLEAN]
             /\ \A k \in Key : isRead[k] => isRead'[k]
  BY <1>1 DEF ReadRows
<1>2. ASSUME NEW r \in Refs, NEW m \in MsgIds, NEW read \in BOOLEAN, UpsertRow(<<r, m>>, read)
      PROVE  /\ isRead' \in [Key -> BOOLEAN]
             /\ \A k \in Key : isRead[k] => isRead'[k]
             /\ \/ UNCHANGED <<lastRowId, rowOf>>
                \/ /\ rowOf[<<r, m>>] = 0
                   /\ lastRowId' = lastRowId + 1
                   /\ rowOf' = [rowOf EXCEPT ![<<r, m>>] = lastRowId + 1]
  <2>1. <<r, m>> \in Key
    BY DEF Key
  <2>2. isRead' = [isRead EXCEPT ![<<r, m>>] = isRead[<<r, m>>] \/ read]
    BY <1>2, <2>1 DEF UpsertRow
  <2> QED
    BY <1>2, <2>1, <2>2, UpsertRows
<1>3. isRead' \in [Key -> BOOLEAN] /\ \A k \in Key : isRead[k] => isRead'[k]
  BY <1>1, <1>2 DEF TableNext, Logs
<1>4. \A r \in Refs, m \in MsgIds : <<r, m>> \in Key
  BY DEF Key
<1>5. \/ UNCHANGED <<lastRowId, rowOf>>
      \/ \E k \in Key : /\ rowOf[k] = 0
                        /\ lastRowId' = lastRowId + 1
                        /\ rowOf' = [rowOf EXCEPT ![k] = lastRowId + 1]
  <2>1. CASE \E r \in Refs : ReadRows(r)
    BY <1>1, <2>1
  <2>2. CASE \E r \in Refs, m \in MsgIds, read \in BOOLEAN : UpsertRow(<<r, m>>, read)
    BY <1>2, <1>4, <2>2
  <2> QED
    BY <2>1, <2>2 DEF TableNext, Logs
<1>6. CASE UNCHANGED <<lastRowId, rowOf>>
  BY <1>3, <1>6
<1>7. ASSUME NEW k \in Key, rowOf[k] = 0, lastRowId' = lastRowId + 1,
             rowOf' = [rowOf EXCEPT ![k] = lastRowId + 1]
      PROVE  /\ lastRowId' \in Nat /\ rowOf' \in [Key -> Nat]
             /\ RowsAreNumbered'
             /\ lastRowId <= lastRowId'
             /\ \A j \in Key : /\ rowOf[j] # 0 => rowOf'[j] = rowOf[j]
                               /\ rowOf[j] = 0 => rowOf'[j] = 0 \/ rowOf'[j] > lastRowId
  BY <1>7
<1> QED
  BY <1>3, <1>5, <1>6, <1>7

-----------------------------------------------------------------------------
(* Pages.                                                                  *)

(* A page takes everything up to its last row: there are no holes in it.   *)
LEMMA PageHasNoHoles ==
  ASSUME TypeOK, NEW f \in Feeds, NEW n \in Int,
         NEW last \in Page(f, n), NEW k \in Newer(f), rowOf[k] <= rowOf[last]
  PROVE  k \in Page(f, n)
<1> DEFINE Before(j) == {i \in Newer(f) : rowOf[i] < rowOf[j]}
<1>1. \A j \in Newer(f) : j \in Key /\ rowOf[j] \in Nat
  BY WantedAreKeys DEF Newer, TypeOK, TableTypeOK
<1>2. last \in Newer(f) /\ Cardinality(Before(last)) < n
  BY DEF Page
<1>3. Before(k) \in SUBSET Before(last)
  BY <1>1, <1>2
<1>4. IsFiniteSet(Before(last))
  <2>1. Before(last) \in SUBSET Key
    BY <1>1
  <2> QED
    BY <2>1, KeyIsFinite, FS_Subset
<1>5. /\ Cardinality(Before(k)) \in Nat
      /\ Cardinality(Before(last)) \in Nat
      /\ Cardinality(Before(k)) <= Cardinality(Before(last))
  BY <1>3, <1>4, FS_Subset, FS_CardinalityType
<1>6. Cardinality(Before(k)) < n
  BY <1>2, <1>5
<1> QED
  BY <1>6 DEF Page

(* The clamp of the limit returns a number.                                *)
LEMMA EffectiveIsInt == ASSUME NEW limit \in Limits PROVE Effective(limit) \in Int
BY LimitsAssumption DEF Effective

(* What Watch hands out, and where the cursor ends up.                     *)
LEMMA PollFacts ==
  ASSUME IInv, NEW f \in Feeds, PollStep(f)
  PROVE  \E page \in SUBSET Newer(f) : \E last \in page :
           /\ \A k \in Newer(f) : k \in page <=> rowOf[k] <= rowOf[last]
           /\ cursor' = [cursor EXCEPT ![f] = rowOf[last]]
           /\ received' = [received EXCEPT ![f] =
                [k \in Key |-> IF k \in page THEN received[f][k] + 1 ELSE received[f][k]]]
           /\ UNCHANGED tableVars
<1>1. PICK limit \in Limits : Poll(f, limit)
  BY DEF PollStep
<1> DEFINE page == Page(f, Effective(limit))
<1>2. PICK last \in page :
        /\ \A k \in page : rowOf[k] <= rowOf[last]
        /\ cursor' = [cursor EXCEPT ![f] = rowOf[last]]
        /\ received' = [received EXCEPT ![f] =
             [k \in Key |-> IF k \in page THEN received[f][k] + 1 ELSE received[f][k]]]
        /\ UNCHANGED tableVars
  BY <1>1 DEF Poll, IInv, TypeOK
<1>3. page \in SUBSET Newer(f)
  BY DEF Page
<1>4. \A k \in Newer(f) : rowOf[k] <= rowOf[last] => k \in page
  BY <1>2, EffectiveIsInt, PageHasNoHoles DEF IInv
<1> QED
  BY <1>2, <1>3, <1>4

-----------------------------------------------------------------------------
(* The invariant.                                                          *)

(* The invariant holds of the empty log.                                   *)
LEMMA InitIInv == Init => IInv
<1> SUFFICES ASSUME Init PROVE IInv
  OBVIOUS
<1> USE DEF Init, TableInit, TypeOK, TableTypeOK
<1>1. TypeOK
  OBVIOUS
<1>2. RowsAreNumbered /\ CursorsInLog
  BY DEF RowsAreNumbered, CursorsInLog
<1>3. CursorTellsAll
  BY WantedAreKeys DEF CursorTellsAll
<1> QED
  BY <1>1, <1>2, <1>3 DEF IInv

(* A statement on the table settles nothing that a cursor has passed.      *)
LEMMA TableStepKeepsIInv ==
  ASSUME IInv, TableNext, UNCHANGED <<cursor, received>>
  PROVE  IInv'
<1> USE DEF IInv, TypeOK
<1>1. TypeOK' /\ RowsAreNumbered'
  BY TableStep
<1>2. lastRowId \in Nat /\ lastRowId' \in Nat /\ lastRowId <= lastRowId'
  BY <1>1, TableStep DEF TableTypeOK
<1>3. CursorsInLog'
  BY <1>2 DEF CursorsInLog
<1>4. CursorTellsAll'
  <2> SUFFICES ASSUME NEW f \in Feeds, NEW k \in Wanted[f]
               PROVE  received[f][k] = IF rowOf'[k] \in 1..cursor[f] THEN 1 ELSE 0
    BY DEF CursorTellsAll, Wanted
  <2>1. k \in Key
    BY WantedAreKeys
  <2>2. rowOf[k] \in Nat /\ rowOf'[k] \in Nat /\ cursor[f] \in Nat /\ cursor[f] <= lastRowId
    BY <1>1, <2>1 DEF TableTypeOK, CursorsInLog
  <2>3. rowOf'[k] \in 1..cursor[f] <=> rowOf[k] \in 1..cursor[f]
    BY <1>2, <2>1, <2>2, TableStep
  <2> QED
    BY <2>3 DEF CursorTellsAll
<1> QED
  BY <1>1, <1>3, <1>4

(* A poll settles exactly what the cursor passes.                          *)
LEMMA PollKeepsIInv ==
  ASSUME IInv, NEW f \in Feeds, PollStep(f)
  PROVE  IInv'
<1> USE DEF IInv, TypeOK
<1>1. PICK page \in SUBSET Newer(f), last \in Newer(f) :
        /\ last \in page
        /\ \A k \in Newer(f) : k \in page <=> rowOf[k] <= rowOf[last]
        /\ cursor' = [cursor EXCEPT ![f] = rowOf[last]]
        /\ received' = [received EXCEPT ![f] =
             [k \in Key |-> IF k \in page THEN received[f][k] + 1 ELSE received[f][k]]]
        /\ UNCHANGED tableVars
  BY PollFacts
<1>2. /\ last \in Key /\ rowOf[last] \in Nat
      /\ rowOf[last] > cursor[f] /\ rowOf[last] <= lastRowId
  BY <1>1, WantedAreKeys DEF Newer, RowsAreNumbered, TableTypeOK
<1>3. TypeOK' /\ RowsAreNumbered'
  BY <1>1, <1>2 DEF tableVars, TableTypeOK, RowsAreNumbered
<1>4. CursorsInLog'
  BY <1>1, <1>2 DEF CursorsInLog, tableVars
<1>5. CursorTellsAll'
  <2> SUFFICES ASSUME NEW g \in Feeds, NEW k \in Wanted[g]
               PROVE  received'[g][k] = IF rowOf[k] \in 1..cursor'[g] THEN 1 ELSE 0
    BY <1>1 DEF CursorTellsAll, Wanted, tableVars
  <2>1. k \in Key /\ rowOf[k] \in Nat /\ cursor[g] \in Nat
    BY WantedAreKeys DEF TableTypeOK
  <2>2. received[g][k] = IF rowOf[k] \in 1..cursor[g] THEN 1 ELSE 0
    BY DEF CursorTellsAll
  <2>3. CASE g # f
    BY <1>1, <2>2, <2>3
  <2>4. CASE g = f
    <3>1. cursor'[f] = rowOf[last]
      BY <1>1
    <3>2. received'[f][k] = IF k \in page THEN received[f][k] + 1 ELSE received[f][k]
      BY <1>1, <2>1
    <3>3. k \in Newer(f) <=> rowOf[k] > cursor[f]
      BY <2>4 DEF Newer
    <3>4. CASE rowOf[k] > cursor[f]
      BY <1>1, <1>2, <2>1, <2>2, <2>4, <3>1, <3>2, <3>3, <3>4
    <3>5. CASE rowOf[k] <= cursor[f]
      BY <1>1, <1>2, <2>1, <2>2, <2>4, <3>1, <3>2, <3>3, <3>5
    <3> QED
      BY <2>1, <2>4, <3>4, <3>5
  <2> QED
    BY <2>3, <2>4
<1> QED
  BY <1>3, <1>4, <1>5

(* The invariant holds throughout.                                         *)
THEOREM Invariant == Spec => []IInv
<1>1. IInv /\ [Next]_watchVars => IInv'
  <2> SUFFICES ASSUME IInv, [Next]_watchVars PROVE IInv'
    OBVIOUS
  <2>1. CASE UNCHANGED watchVars
    BY <2>1 DEF watchVars, IInv, TypeOK, TableTypeOK, RowsAreNumbered, CursorsInLog,
                CursorTellsAll, Wanted
  <2> QED
    BY <2>1, TableStepKeepsIInv, PollKeepsIInv DEF Next
<1> QED
  BY <1>1, InitIInv, PTL DEF Spec

(* Type correctness of the table, the cursors and the receipts.            *)
THEOREM TypeCorrect == Spec => []TypeOK
BY Invariant, PTL DEF IInv

(* What an agent has received is what its cursor has passed, once each.    *)
THEOREM CursorIsExact == Spec => []CursorTellsAll
BY Invariant, PTL DEF IInv

(* Read stays read and a row keeps its place, whatever the workers do.     *)
THEOREM ReadIsFinal == Spec => ReadAndPlaceAreFinal
<1>1. IInv /\ [Next]_watchVars
      => [\A k \in Key : /\ isRead[k] => isRead'[k]
                         /\ rowOf[k] # 0 => rowOf'[k] = rowOf[k]]_tableVars
  <2> SUFFICES ASSUME IInv, [Next]_watchVars, ~UNCHANGED tableVars, NEW k \in Key
               PROVE  (isRead[k] => isRead'[k]) /\ (rowOf[k] # 0 => rowOf'[k] = rowOf[k])
    OBVIOUS
  <2>1. CASE TableNext
    BY <2>1, TableStep DEF IInv, TypeOK
  <2>2. ASSUME NEW f \in Feeds, PollStep(f) PROVE FALSE
    BY <2>2, PollFacts
  <2>3. ~UNCHANGED watchVars
    BY DEF watchVars, tableVars
  <2> QED
    BY <2>1, <2>2, <2>3 DEF Next
<1> QED
  BY <1>1, Invariant, PTL DEF Spec, ReadAndPlaceAreFinal

-----------------------------------------------------------------------------
(* The refinement.                                                         *)

(* What is pending for an agent is what its next poll would ask for.       *)
LEMMA PendingIsNewer == ASSUME IInv, NEW f \in Feeds PROVE Feed!Pending(f) = Newer(f)
<1>1. \A k \in Wanted[f] : rowOf[k] \in Nat /\ cursor[f] \in Nat
  BY WantedAreKeys DEF IInv, TypeOK, TableTypeOK
<1>2. \A k \in Wanted[f] : rowOf[k] # 0 /\ received[f][k] = 0 <=> rowOf[k] > cursor[f]
  BY <1>1 DEF IInv, CursorTellsAll
<1> QED
  BY <1>2 DEF Feed!Pending, Newer

(* An upsert of a new row is an arrival, a poll a delivery, and everything *)
(* else a stutter.                                                         *)
THEOREM WatchImplementsFeed == Spec => FeedSpec
<1>1. Init => Feed!Init
  BY DEF Init, TableInit, Feed!Init
<1>2. IInv /\ [Next]_watchVars => [Feed!Next]_Feed!feedVars
  <2> SUFFICES ASSUME IInv, [Next]_watchVars PROVE Feed!Next \/ UNCHANGED <<rowOf, received>>
    BY DEF Feed!feedVars
  <2>1. CASE TableNext /\ UNCHANGED <<cursor, received>>
    <3>1. ASSUME NEW r \in Refs, ReadRows(r) PROVE UNCHANGED <<rowOf, received>>
      BY <2>1, <3>1 DEF ReadRows
    <3>2. ASSUME NEW r \in Refs, NEW m \in MsgIds, NEW read \in BOOLEAN,
                 UpsertRow(<<r, m>>, read)
          PROVE  Feed!Next \/ UNCHANGED <<rowOf, received>>
      <4>1. <<r, m>> \in Key
        BY DEF Key
      <4>2. CASE UNCHANGED <<lastRowId, rowOf>>
        BY <2>1, <4>2
      <4>3. CASE /\ rowOf[<<r, m>>] = 0
                 /\ rowOf' = [rowOf EXCEPT ![<<r, m>>] = lastRowId + 1]
        <5>1. rowOf'[<<r, m>>] = lastRowId + 1
          BY <4>1, <4>3 DEF IInv, TypeOK, TableTypeOK
        <5>2. \A j \in Key : rowOf'[<<r, m>>] > rowOf[j]
          BY <5>1 DEF IInv, TypeOK, TableTypeOK, RowsAreNumbered
        <5>3. Feed!Arrive(<<r, m>>)
          BY <2>1, <4>3, <5>1, <5>2 DEF Feed!Arrive
        <5> QED
          BY <4>1, <5>3 DEF Feed!Next
      <4> QED
        BY <3>2, <4>1, <4>2, <4>3, UpsertRows DEF IInv, TypeOK
    <3> QED
      BY <2>1, <3>1, <3>2 DEF TableNext, Logs
  <2>2. ASSUME NEW f \in Feeds, PollStep(f) PROVE Feed!Next
    <3>1. PICK page \in SUBSET Newer(f), last \in Newer(f) :
            /\ last \in page
            /\ \A k \in Newer(f) : k \in page <=> rowOf[k] <= rowOf[last]
            /\ received' = [received EXCEPT ![f] =
                 [k \in Key |-> IF k \in page THEN received[f][k] + 1 ELSE received[f][k]]]
            /\ UNCHANGED tableVars
      BY <2>2, PollFacts
    <3>2. \A k \in Newer(f) : k \in Key /\ rowOf[k] \in Nat /\ received[f][k] = 0
      BY WantedAreKeys, PendingIsNewer DEF IInv, TypeOK, TableTypeOK, Newer, Feed!Pending
    <3>3. \A k \in page, j \in Newer(f) : rowOf[j] < rowOf[k] => j \in page
      BY <3>1, <3>2
    <3>4. received' = [received EXCEPT ![f] =
            [k \in Key |-> IF k \in page THEN 1 ELSE received[f][k]]]
      <4>1. \A k \in page : received[f][k] + 1 = 1
        BY <3>1, <3>2
      <4> QED
        BY <3>1, <4>1
    <3>5. Feed!Pending(f) = Newer(f)
      BY PendingIsNewer
    <3>6. page \in SUBSET Feed!Pending(f) /\ page # {} /\ UNCHANGED rowOf
      BY <3>1, <3>5 DEF tableVars
    <3>7. \A k \in page, j \in Feed!Pending(f) : rowOf[j] < rowOf[k] => j \in page
      BY <3>3, <3>5
    <3>8. Feed!Deliver(f)
      BY <3>4, <3>6, <3>7 DEF Feed!Deliver
    <3> QED
      BY <3>8 DEF Feed!Next
  <2>3. CASE UNCHANGED watchVars
    BY <2>3 DEF watchVars
  <2> QED
    BY <2>1, <2>2, <2>3 DEF Next
<1> QED
  BY <1>1, <1>2, Invariant, PTL DEF Spec, FeedSpec, Feed!Spec

-----------------------------------------------------------------------------
(* What the liveness of the feed rests on: a backlog can be polled, with   *)
(* any limit, and every poll takes some of it.                             *)

(* Rows that are weighed by a number have a lightest one.                  *)
LEMMA HasLeast ==
  ASSUME NEW S \in SUBSET Key, S # {}, NEW g \in [Key -> Int]
  PROVE  \E lo \in S : \A k \in S : g[lo] <= g[k]
<1> DEFINE Lighter(k) == {j \in S : g[j] < g[k]}
           Heads      == {Lighter(k) : k \in S}
<1>1. IsFiniteSet(S)
  BY KeyIsFinite, FS_Subset
<1>2. Heads \subseteq FiniteSubsetsOf(S) /\ Heads # {}
  <2>1. \A k \in S : Lighter(k) \in SUBSET S /\ IsFiniteSet(Lighter(k))
    BY <1>1, FS_Subset
  <2> QED
    BY <2>1 DEF FiniteSubsetsOf
<1>3. PICK head \in Heads : \A other \in Heads :
        ~(<<other, head>> \in StrictSubsetOrdering(S))
  BY <1>2, FS_StrictSubsetOrderingWellFounded, WFMin
<1>4. PICK lo \in S : head = Lighter(lo)
  OBVIOUS
<1>5. ASSUME NEW k \in S, g[k] < g[lo] PROVE FALSE
  <2>1. \A j \in S : g[j] \in Int
    OBVIOUS
  <2>2. Lighter(k) \subseteq Lighter(lo) /\ k \in Lighter(lo) /\ k \notin Lighter(k)
    BY <1>5, <2>1
  <2>3. <<Lighter(k), Lighter(lo)>> \in StrictSubsetOrdering(S)
    BY <2>2 DEF StrictSubsetOrdering
  <2> QED
    BY <1>3, <1>4, <2>3
<1> QED
  BY <1>5

(* Watch has a page with a last row, whatever the limit, where there is    *)
(* something newer than the cursor.                                        *)
PollIsPossible(f, limit) ==
  LET page == Page(f, Effective(limit)) IN
  \E last \in page : \A k \in page : rowOf[k] <= rowOf[last]

(* A limit of zero, a negative one and one above the maximum never make    *)
(* Watch answer with nothing while there is something to be had.           *)
THEOREM BacklogIsServed ==
  Spec => [](\A f \in Feeds, limit \in Limits : Newer(f) # {} => PollIsPossible(f, limit))
<1>1. ASSUME IInv, NEW f \in Feeds, NEW limit \in Limits, Newer(f) # {}
      PROVE  PollIsPossible(f, limit)
  <2> DEFINE n == Effective(limit)
             page == Page(f, n)
  <2>1. n \in Nat \ {0}
    BY LimitsAssumption DEF Effective
  <2>2. Newer(f) \in SUBSET Key /\ page \in SUBSET Key /\ rowOf \in [Key -> Nat]
    BY <1>1, WantedAreKeys DEF Newer, Page, IInv, TypeOK, TableTypeOK
  <2>3. PICK first \in Newer(f) : \A k \in Newer(f) : rowOf[first] <= rowOf[k]
    BY <1>1, <2>2, HasLeast
  <2>4. {j \in Newer(f) : rowOf[j] < rowOf[first]} = {}
    BY <2>2, <2>3
  <2>5. first \in page
    BY <2>1, <2>4, FS_EmptySet DEF Page
  <2>6. \E last \in page : \A k \in page : rowOf[k] <= rowOf[last]
    <3> DEFINE g == [k \in Key |-> -rowOf[k]]
    <3>1. g \in [Key -> Int]
      BY <2>2
    <3> HIDE DEF page
    <3>2. PICK last \in page : \A k \in page : g[last] <= g[k]
      <4> HIDE DEF g
      <4> QED
        BY <2>2, <2>5, <3>1, HasLeast
    <3>3. \A k \in page : g[k] = -rowOf[k] /\ rowOf[k] \in Nat
      BY <2>2
    <3>4. \A k \in page : rowOf[k] <= rowOf[last]
      <4> HIDE DEF g
      <4> QED
        BY <3>2, <3>3
    <3> QED
      BY <3>4
  <2> QED
    BY <2>6 DEF PollIsPossible
<1>2. IInv => \A f \in Feeds, limit \in Limits : Newer(f) # {} => PollIsPossible(f, limit)
  BY <1>1
<1> QED
  BY <1>2, Invariant, PTL

(* Every page moves the cursor forward, and not beyond the log.            *)
THEOREM CursorAdvances ==
  Spec => [][\A f \in Feeds : PollStep(f) => cursor[f] < cursor'[f] /\ cursor'[f] <= lastRowId]_watchVars
<1>1. ASSUME IInv, NEW f \in Feeds, PollStep(f)
      PROVE  cursor[f] < cursor'[f] /\ cursor'[f] <= lastRowId
  <2>1. PICK last \in Newer(f) : cursor' = [cursor EXCEPT ![f] = rowOf[last]]
    BY <1>1, PollFacts
  <2>2. last \in Key /\ rowOf[last] > cursor[f] /\ rowOf[last] <= lastRowId
    BY <1>1, WantedAreKeys DEF Newer, IInv, RowsAreNumbered
  <2> QED
    BY <1>1, <2>1, <2>2 DEF IInv, TypeOK
<1>2. IInv /\ [Next]_watchVars =>
        [\A f \in Feeds : PollStep(f) => cursor[f] < cursor'[f] /\ cursor'[f] <= lastRowId]_watchVars
  BY <1>1
<1> QED
  BY <1>2, Invariant, PTL DEF Spec
=============================================================================
