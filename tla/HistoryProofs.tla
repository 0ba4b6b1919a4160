---------------------------- MODULE HistoryProofs ----------------------------
(***************************************************************************)
(* Walks through the history, for any number of agents, messages and       *)
(* references, any limits and any value of MinID.  Two facts carry them: a *)
(* page has no holes, so nothing between two offsets is passed over; and   *)
(* what there was to be had when the walk began never goes away, neither   *)
(* at Telegram nor in the log.                                             *)
(***************************************************************************)
EXTENDS History, FiniteSetTheorems, WellFoundedInduction, TLAPS

(* An agent has received what it has passed, and nothing twice.            *)
ReceivedIsPassed(a) ==
  /\ again[a] = {}
  /\ \A m \in got[a] : Passed(a, m)
  /\ \A m \in walk[a].had : m \in got[a] <=> Passed(a, m)

(* What there was to be had is still there.                                *)
HadIsThere(a) ==
  \A m \in walk[a].had :
    IF walk[a].remote THEN m \in Plain(ChatOf[walk[a].ref]) /\ m > walk[a].floor
                      ELSE m \in Logged(walk[a].ref)

IsEnd(a) ==
  \/ Left(a) = {}
  \/ walk[a].remote /\ \E s \in MsgIds : Hides(a, s)

IsLogged(a, m) == m \in Logged(walk[a].ref) \/ <<walk[a].ref, m>> \in lost

(* The page that is being converted continues the walk.                    *)
PageContinues(a) ==
  /\ walk[a].remote
  /\ rest[a] \subseteq page[a]
  /\ \A p \in page[a] : ~Passed(a, p)
  /\ \A p \in page[a], m \in Left(a) : p <= m => m \in page[a]
  /\ page[a] = {} => IsEnd(a)
  /\ \A m \in page[a] \ rest[a] : IsLogged(a, m)

WalkOK(a) ==
  /\ ReceivedIsPassed(a)
  /\ HadIsThere(a)
  /\ walk[a].remote => \A m \in got[a] : IsLogged(a, m)
  /\ pc[a] = "convert" => PageContinues(a)
  /\ pc[a] = "ended" => IsEnd(a)

IInv == TypeOK /\ \A a \in Agents : Walking(a) => WalkOK(a)

-----------------------------------------------------------------------------
(* Pages.                                                                  *)

(* The clamp returns a limit of at least one.                              *)
LEMMA EffectiveIsPositive ==
  ASSUME NEW limit \in Limits PROVE Effective(limit) \in Nat \ {0}
BY LimitsAssumption DEF Effective

(* A page takes everything from its oldest message on.                     *)
LEMMA NewestHasNoHoles ==
  ASSUME NEW ids \in SUBSET MsgIds, NEW n \in Int,
         NEW oldest \in Newest(ids, n), NEW m \in ids, oldest <= m
  PROVE  m \in Newest(ids, n)
<1> DEFINE Above(j) == {i \in ids : i > j}
<1>1. \A j \in ids : j \in Nat
  BY MsgIdsAssumption
<1>2. oldest \in ids /\ Cardinality(Above(oldest)) < n
  BY DEF Newest
<1>3. Above(m) \in SUBSET Above(oldest)
  BY <1>1, <1>2
<1>4. IsFiniteSet(Above(oldest))
  <2>1. Above(oldest) \in SUBSET MsgIds
    OBVIOUS
  <2> QED
    BY <2>1, MsgIdsAssumption, FS_Subset
<1>5. /\ Cardinality(Above(m)) \in Nat
      /\ Cardinality(Above(oldest)) \in Nat
      /\ Cardinality(Above(m)) <= Cardinality(Above(oldest))
  BY <1>3, <1>4, FS_Subset, FS_CardinalityType
<1>6. Cardinality(Above(m)) < n
  BY <1>2, <1>5
<1> QED
  BY <1>6 DEF Newest

(* A set of messages that is not empty has a newest one, and a page of it  *)
(* begins with that one.                                                   *)
LEMMA NewestHasTheNewest ==
  ASSUME NEW ids \in SUBSET MsgIds, ids # {}, NEW n \in Nat \ {0}
  PROVE  \E m \in Newest(ids, n) : \A j \in ids : j <= m
<1> DEFINE Above(j) == {i \in ids : i > j}
           Tails    == {Above(j) : j \in ids}
<1>1. IsFiniteSet(ids) /\ \A j \in ids : j \in Nat
  BY MsgIdsAssumption, FS_Subset
<1>2. Tails \subseteq FiniteSubsetsOf(ids) /\ Tails # {}
  <2>1. \A j \in ids : Above(j) \in SUBSET ids /\ IsFiniteSet(Above(j))
    BY <1>1, FS_Subset
  <2> QED
    BY <2>1 DEF FiniteSubsetsOf
<1>3. PICK tail \in Tails : \A other \in Tails :
        ~(<<other, tail>> \in StrictSubsetOrdering(ids))
  BY <1>2, FS_StrictSubsetOrderingWellFounded, WFMin
<1>4. PICK m \in ids : tail = Above(m)
  OBVIOUS
<1>5. ASSUME NEW j \in ids, j > m PROVE FALSE
  <2>1. Above(j) \subseteq Above(m) /\ j \in Above(m) /\ j \notin Above(j)
    BY <1>1, <1>5
  <2>2. <<Above(j), Above(m)>> \in StrictSubsetOrdering(ids)
    BY <2>1 DEF StrictSubsetOrdering
  <2> QED
    BY <1>3, <1>4, <2>2
<1>6. Above(m) = {} /\ \A j \in ids : j <= m
  BY <1>1, <1>5
<1>7. Cardinality(Above(m)) < n
  BY <1>6, FS_EmptySet
<1> QED
  BY <1>6, <1>7 DEF Newest

(* What is left below the offset lies below every page.                    *)
LEMMA BelowOffset ==
  ASSUME TypeOK, NEW a \in Agents, NEW ids \in SUBSET MsgIds, NEW m \in MsgIds
  PROVE  m \in Below(ids, offset[a]) <=> m \in ids /\ ~Passed(a, m)
<1>1. offset[a] \in MsgIds \cup {0}
  BY DEF TypeOK
<1>2. \A i \in MsgIds \cup {0} : i \in Nat
  BY MsgIdsAssumption
<1>3. m \in Nat /\ offset[a] \in Nat
  BY <1>1, <1>2
<1> QED
  BY <1>3 DEF Below, Passed

-----------------------------------------------------------------------------
(* What happens meanwhile takes nothing away.                              *)

Grows ==
  /\ \A c \in Canonical : sent[c] \subseteq sent'[c]
  /\ \A k \in Key : rowOf[k] # 0 => rowOf'[k] # 0
  /\ \A k \in lost : k \in lost' \/ rowOf'[k] # 0

(* A successful write puts a row where it should be and removes none.      *)
LEMMA WriteFacts ==
  ASSUME TypeOK, NEW r \in Refs, NEW m \in MsgIds, NEW read \in BOOLEAN, Write(r, m, read)
  PROVE  /\ TableTypeOK'
         /\ lost' \in SUBSET Key
         /\ rowOf'[<<r, m>>] # 0
         /\ \A k \in Key : rowOf[k] # 0 => rowOf'[k] # 0
         /\ \A k \in lost : k \in lost' \/ rowOf'[k] # 0
<1> USE DEF TypeOK, TableTypeOK
<1>1. <<r, m>> \in Key
  BY DEF Key
<1>2. /\ isRead' = [isRead EXCEPT ![<<r, m>>] = @ \/ read]
      /\ \/ rowOf[<<r, m>>] # 0 /\ UNCHANGED <<lastRowId, rowOf>>
         \/ /\ lastRowId' = lastRowId + 1
            /\ rowOf' = [rowOf EXCEPT ![<<r, m>>] = lastRowId + 1]
      /\ lost' = lost \ {<<r, m>>}
  BY DEF Write, UpsertRow
<1>3. isRead' \in [Key -> BOOLEAN]
  BY <1>1, <1>2
<1>4. rowOf' \in [Key -> Nat] /\ lastRowId' \in Nat /\ rowOf'[<<r, m>>] # 0
  BY <1>1, <1>2
<1>5. \A k \in Key : rowOf[k] # 0 => rowOf'[k] # 0
  BY <1>1, <1>2
<1>6. lost' \in SUBSET Key /\ \A k \in lost : k \in lost' \/ rowOf'[k] # 0
  BY <1>2, <1>4
<1> QED
  BY <1>3, <1>4, <1>5, <1>6

(* A walk that stands still stays in order.                                *)
LEMMA GrowthKeepsWalk ==
  ASSUME TypeOK, Grows, NEW a \in Agents, Walking(a), WalkOK(a),
         pc'[a] = pc[a], walk'[a] = walk[a], offset'[a] = offset[a], got'[a] = got[a],
         again'[a] = again[a], page'[a] = page[a], rest'[a] = rest[a]
  PROVE  WalkOK(a)'
<1>1. walk[a].ref \in Refs /\ ChatOf[walk[a].ref] \in Canonical /\ walk[a].had \in SUBSET MsgIds
  BY RefsAssumption DEF TypeOK, Walks
<1>2. \A m \in MsgIds : Passed(a, m)' <=> Passed(a, m)
  BY DEF Passed
<1>3. Left(a)' = Left(a)
  BY <1>1, <1>2 DEF Left
<1>4. Logged(walk[a].ref) \subseteq Logged(walk[a].ref)'
  BY <1>1 DEF Logged, Grows, Key
<1>5. Plain(ChatOf[walk[a].ref]) \subseteq Plain(ChatOf[walk[a].ref])'
  BY <1>1 DEF Plain, Grows
<1>6. \A m \in MsgIds : IsLogged(a, m) => IsLogged(a, m)'
  BY <1>1, <1>4 DEF IsLogged, Grows, Logged
<1>7. IsEnd(a) => IsEnd(a)'
  <2>1. \A s \in MsgIds : Hides(a, s) => Hides(a, s)'
    BY <1>1, <1>3 DEF Hides, Below, Grows
  <2> QED
    BY <1>3, <2>1 DEF IsEnd
<1>8. ReceivedIsPassed(a)'
  BY <1>1, <1>2 DEF WalkOK, ReceivedIsPassed, Passed
<1>9. HadIsThere(a)'
  BY <1>4, <1>5 DEF WalkOK, HadIsThere
<1>10. got[a] \in SUBSET MsgIds /\ page[a] \in SUBSET MsgIds
  BY DEF TypeOK
<1>11. walk'[a].remote => \A m \in got'[a] : IsLogged(a, m)'
  BY <1>6, <1>10 DEF WalkOK
<1>12. pc'[a] = "convert" => PageContinues(a)'
  BY <1>2, <1>3, <1>6, <1>7, <1>10 DEF WalkOK, PageContinues
<1>13. pc'[a] = "ended" => IsEnd(a)'
  BY <1>7 DEF WalkOK
<1> QED
  BY <1>8, <1>9, <1>11, <1>12, <1>13 DEF WalkOK

(* Posts, live updates and other fetches keep the invariant.               *)
LEMMA MeanwhileKeepsIInv == ASSUME IInv, Meanwhile PROVE IInv'
<1> USE DEF IInv
<1>1. UNCHANGED agentVars
  BY DEF Meanwhile, Post, LiveUpdate, OtherFetch
<1>2. Grows /\ TypeOK'
  <2>1. ASSUME NEW c \in Canonical, NEW m \in MsgIds, Post(c, m) PROVE Grows /\ TypeOK'
    BY <1>1, <2>1 DEF Post, Grows, TypeOK, TableTypeOK, tableVars, agentVars
  <2>2. ASSUME NEW r \in Refs, NEW m \in MsgIds, NEW read \in BOOLEAN, Write(r, m, read),
               UNCHANGED sent
        PROVE  Grows /\ TypeOK'
    BY <1>1, <2>2, WriteFacts DEF Grows, TypeOK, agentVars
  <2> QED
    BY <2>1, <2>2, RefsAssumption DEF Meanwhile, LiveUpdate, OtherFetch
<1>3. ASSUME NEW a \in Agents, Walking(a)' PROVE WalkOK(a)'
  <2>1. Walking(a) /\ WalkOK(a)
    BY <1>1, <1>3 DEF Walking, agentVars
  <2> QED
    BY <1>1, <1>2, <2>1, GrowthKeepsWalk DEF agentVars
<1> QED
  BY <1>2, <1>3

-----------------------------------------------------------------------------
(* The steps of an agent.                                                  *)

(* What a page must be to be returned.                                     *)
Continues(a, messages) ==
  /\ \A p \in messages : ~Passed(a, p)
  /\ \A p \in messages, m \in Left(a) : p <= m => m \in messages
  /\ messages = {} => IsEnd(a)
  /\ walk[a].remote => \A m \in messages : IsLogged(a, m)

(* A page that continues the walk settles what it contains.                *)
LEMMA ReturnKeepsWalk ==
  ASSUME TypeOK, NEW a \in Agents, Walking(a), WalkOK(a),
         NEW messages \in SUBSET MsgIds, Continues(a, messages),
         Return(a, messages), UNCHANGED <<tableVars, sent, walk, lost>>
  PROVE  WalkOK(a)' /\ pc'[a] \in {"paging", "ended"} /\ offset' \in [Agents -> MsgIds \cup {0}]
<1>1. walk[a].had \in SUBSET MsgIds /\ got[a] \in SUBSET MsgIds /\ offset[a] \in MsgIds \cup {0}
  BY DEF TypeOK, Walks
<1>2. \A i \in MsgIds \cup {0} : i \in Nat
  BY MsgIdsAssumption
<1>3. /\ got'[a] = got[a] \cup messages
      /\ again'[a] = again[a] \cup (got[a] \cap messages)
  BY DEF Return, TypeOK
<1>4. again'[a] = {}
  BY <1>3 DEF WalkOK, ReceivedIsPassed, Continues
<1>5. \A m \in MsgIds : IsLogged(a, m)' <=> IsLogged(a, m)
  BY DEF IsLogged, Logged, tableVars
<1>6. walk'[a].remote => \A m \in got'[a] : IsLogged(a, m)'
  BY <1>1, <1>3, <1>5 DEF WalkOK, Continues
<1>7. HadIsThere(a)'
  BY DEF WalkOK, HadIsThere, Plain, Logged, tableVars
<1>8. CASE messages = {}
  <2>1. pc'[a] = "ended" /\ offset'[a] = offset[a] /\ offset' = offset
    BY <1>8 DEF Return, TypeOK
  <2>2. \A m \in MsgIds : Passed(a, m)' <=> Passed(a, m)
    BY <2>1 DEF Passed
  <2>3. ReceivedIsPassed(a)'
    BY <1>1, <1>3, <1>4, <1>8, <2>2 DEF WalkOK, ReceivedIsPassed
  <2>4. Left(a)' = Left(a)
    BY <1>1, <2>2 DEF Left
  <2>5. \A m \in MsgIds : Hides(a, m) => Hides(a, m)'
    BY <2>1, <2>4 DEF Hides, Below
  <2>6. IsEnd(a)'
    BY <1>8, <2>4, <2>5 DEF Continues, IsEnd
  <2> QED
    BY <1>6, <1>7, <2>1, <2>3, <2>6 DEF WalkOK, TypeOK
<1>9. CASE messages # {}
  <2>1. PICK oldest \in messages :
          /\ \A m \in messages : oldest <= m
          /\ pc' = [pc EXCEPT ![a] = "paging"]
          /\ offset' = [offset EXCEPT ![a] = oldest]
    BY <1>9 DEF Return
  <2>2. /\ pc'[a] = "paging" /\ offset'[a] = oldest
        /\ oldest \in Nat \ {0} /\ oldest \in MsgIds
        /\ offset' \in [Agents -> MsgIds \cup {0}]
    BY <2>1, MsgIdsAssumption DEF TypeOK
  <2>3. \A m \in MsgIds : Passed(a, m)' <=> m >= oldest
    BY <2>2 DEF Passed
  <2>4. \A m \in MsgIds : Passed(a, m) => m >= oldest
    <3>1. ~Passed(a, oldest)
      BY DEF Continues
    <3>2. offset[a] \in Nat /\ \A m \in MsgIds : m \in Nat
      BY <1>1, <1>2
    <3> QED
      BY <2>2, <3>1, <3>2 DEF Passed
  <2>5. \A m \in got'[a] : m \in MsgIds /\ Passed(a, m)'
    BY <1>1, <1>3, <2>1, <2>3, <2>4, <1>2, <2>2 DEF WalkOK, ReceivedIsPassed
  <2>6. ASSUME NEW m \in walk[a].had, m >= oldest PROVE m \in got'[a]
    <3>1. CASE Passed(a, m)
      BY <1>3, <3>1 DEF WalkOK, ReceivedIsPassed
    <3>2. CASE ~Passed(a, m)
      BY <1>1, <1>2, <1>3, <2>1, <2>6, <3>2 DEF Left, Continues
    <3> QED
      BY <3>1, <3>2
  <2>7. ReceivedIsPassed(a)'
    BY <1>1, <1>4, <2>3, <2>5, <2>6 DEF ReceivedIsPassed
  <2> QED
    BY <1>6, <1>7, <2>2, <2>7 DEF WalkOK
<1> QED
  BY <1>8, <1>9

(* A page of the local log: what is left of what was there when the walk   *)
(* began still is, so an empty page leaves nothing.                        *)
LEMMA LocalPageContinues ==
  ASSUME TypeOK, NEW a \in Agents, Walking(a), WalkOK(a), ~walk[a].remote,
         NEW n \in Nat \ {0}
  PROVE  Continues(a, Newest(Below(Logged(walk[a].ref), offset[a]), n))
<1> DEFINE ids == Below(Logged(walk[a].ref), offset[a])
           messages == Newest(ids, n)
<1>1. ids \in SUBSET MsgIds /\ messages \in SUBSET ids
  BY DEF Below, Logged, Newest
<1>2. \A m \in MsgIds : m \in ids <=> m \in Logged(walk[a].ref) /\ ~Passed(a, m)
  BY BelowOffset DEF Logged
<1>3. \A m \in Left(a) : m \in ids
  <2>1. Left(a) \in SUBSET MsgIds
    BY DEF Left, TypeOK, Walks
  <2> QED
    BY <1>2, <2>1 DEF Left, WalkOK, HadIsThere
<1>4. \A p \in messages, m \in Left(a) : p <= m => m \in messages
  BY <1>1, <1>3, NewestHasNoHoles
<1>5. messages = {} => Left(a) = {}
  BY <1>1, <1>3, NewestHasTheNewest
<1>6. \A p \in messages : ~Passed(a, p)
  BY <1>1, <1>2
<1> HIDE DEF messages
<1>7. Continues(a, messages)
  BY <1>4, <1>5, <1>6 DEF Continues, IsEnd
<1> QED
  BY <1>7 DEF messages

(* An answer of Telegram: if nothing plain is on it although something is  *)
(* left, then its newest message is a service message.                     *)
LEMMA AnswerContinues ==
  ASSUME TypeOK, NEW a \in Agents, Walking(a), WalkOK(a), walk[a].remote,
         NEW n \in Nat \ {0}
  PROVE  /\ Answer(a, n) \in SUBSET MsgIds
         /\ \A p \in Answer(a, n) : ~Passed(a, p)
         /\ \A p \in Answer(a, n), m \in Left(a) : p <= m => m \in Answer(a, n)
         /\ Answer(a, n) = {} => IsEnd(a)
<1> DEFINE c   == ChatOf[walk[a].ref]
           ids == Below(sent[c], offset[a])
<1>1. /\ c \in Canonical /\ sent[c] \in SUBSET MsgIds
      /\ walk[a].floor \in Nat /\ Left(a) \in SUBSET MsgIds
  BY RefsAssumption, LimitsAssumption DEF TypeOK, Walks, Left
<1>2. ids \in SUBSET MsgIds /\ Newest(ids, n) \in SUBSET ids
  BY <1>1 DEF Below, Newest
<1>3. \A m \in MsgIds : m \in ids <=> m \in sent[c] /\ ~Passed(a, m)
  BY <1>1, BelowOffset
<1>4. \A m \in Left(a) : m \in ids /\ m \in Plain(c) /\ m > walk[a].floor
  BY <1>1, <1>3 DEF Left, WalkOK, HadIsThere, Plain
<1>5. \A m : m \in Answer(a, n) <=> m \in Newest(ids, n) /\ m > walk[a].floor /\ m \in Plain(c)
  BY DEF Answer
<1>6. \A p \in Answer(a, n), m \in Left(a) : p <= m => m \in Answer(a, n)
  BY <1>2, <1>4, <1>5, NewestHasNoHoles
<1>7. ASSUME Answer(a, n) = {}, Left(a) # {} PROVE \E s \in MsgIds : Hides(a, s)
  <2>1. PICK s \in Newest(ids, n) : \A j \in ids : j <= s
    BY <1>2, <1>4, <1>7, NewestHasTheNewest
  <2>2. \A m \in Left(a) : m <= s /\ m \in Nat /\ s \in Nat /\ m > walk[a].floor
    BY <1>1, <1>2, <1>4, <2>1, MsgIdsAssumption
  <2>3. s > walk[a].floor
    BY <1>1, <1>7, <2>2
  <2>4. <<c, s>> \in Service
    BY <1>1, <1>2, <1>3, <1>5, <1>7, <2>3 DEF Plain
  <2>5. \A m \in Left(a) : m < s
    BY <1>4, <2>2, <2>4 DEF Plain
  <2> QED
    BY <1>2, <2>4, <2>5 DEF Hides
<1>8. Answer(a, n) = {} => IsEnd(a)
  BY <1>7 DEF IsEnd
<1>9. \A p \in Answer(a, n) : p \in MsgIds /\ ~Passed(a, p)
  <2> HIDE DEF ids
  <2> QED
    BY <1>2, <1>3, <1>5
<1> QED
  BY <1>6, <1>8, <1>9

-----------------------------------------------------------------------------
(* The invariant.                                                          *)

(* The invariant holds before the first walk.                              *)
LEMMA InitIInv == Init => IInv
<1> SUFFICES ASSUME Init PROVE IInv
  OBVIOUS
<1>1. walk \in [Agents -> Walks]
  <2>1. [ref : Refs, remote : {FALSE}, floor : Floors, had : {{}}] \subseteq Walks
    BY DEF Walks
  <2> QED
    BY <2>1 DEF Init
<1>2. TypeOK
  BY <1>1 DEF Init, TableInit, TypeOK, TableTypeOK
<1> QED
  BY <1>2 DEF Init, IInv, Walking

(* A new walk has passed nothing.                                          *)
LEMMA BeginKeepsIInv ==
  ASSUME IInv, NEW a \in Agents, NEW r \in Refs, NEW remote \in BOOLEAN, NEW floor \in Floors,
         Begin(a, r, remote, floor)
  PROVE  TypeOK' /\ WalkOK(a)'
<1> DEFINE had == {m \in Available(r, remote) : m > floor}
<1>1. had \in SUBSET MsgIds
  BY RefsAssumption DEF Available, Plain, Logged, IInv, TypeOK
<1>2. [ref |-> r, remote |-> remote, floor |-> floor, had |-> had] \in Walks
  BY <1>1 DEF Walks
<1>3. TypeOK'
  BY <1>2 DEF Begin, IInv, TypeOK, TableTypeOK, tableVars
<1>4. /\ pc'[a] = "paging" /\ offset'[a] = 0 /\ got'[a] = {} /\ again'[a] = {}
      /\ walk'[a] = [ref |-> r, remote |-> remote, floor |-> floor, had |-> had]
      /\ UNCHANGED <<tableVars, sent>>
  BY DEF Begin, IInv, TypeOK
<1>5. \A m : ~Passed(a, m)'
  BY <1>4 DEF Passed
<1>6. HadIsThere(a)'
  BY <1>4 DEF HadIsThere, Available, Plain, Logged, tableVars
<1> QED
  BY <1>3, <1>4, <1>5, <1>6 DEF WalkOK, ReceivedIsPassed

(* A local page.                                                           *)
LEMMA ReadLocalKeepsIInv ==
  ASSUME IInv, NEW a \in Agents, NEW limit \in Limits, ReadLocal(a, limit)
  PROVE  TypeOK' /\ WalkOK(a)'
<1> DEFINE messages == Newest(Below(Logged(walk[a].ref), offset[a]), Effective(limit))
<1>1. Walking(a) /\ WalkOK(a) /\ ~walk[a].remote
  BY DEF ReadLocal, IInv, Walking
<1>2. messages \in SUBSET MsgIds
  BY DEF Newest, Below, Logged
<1>3. Continues(a, messages)
  BY <1>1, LocalPageContinues, EffectiveIsPositive DEF IInv
<1>4. Return(a, messages) /\ UNCHANGED <<tableVars, sent, walk, page, rest, lost>>
  BY DEF ReadLocal
<1> HIDE DEF messages
<1>5. WalkOK(a)' /\ offset' \in [Agents -> MsgIds \cup {0}]
  BY <1>1, <1>2, <1>3, <1>4, ReturnKeepsWalk DEF IInv
<1>6. TypeOK'
  BY <1>2, <1>4, <1>5 DEF Return, IInv, TypeOK, TableTypeOK, tableVars
<1> QED
  BY <1>5, <1>6

(* A page of Telegram's is ready to be converted.                          *)
LEMMA AskRemoteKeepsIInv ==
  ASSUME IInv, NEW a \in Agents, NEW limit \in Limits, AskRemote(a, limit)
  PROVE  TypeOK' /\ WalkOK(a)'
<1> DEFINE messages == Answer(a, Effective(limit))
<1>1. Walking(a) /\ WalkOK(a) /\ walk[a].remote
  BY DEF AskRemote, IInv, Walking
<1>2. /\ messages \in SUBSET MsgIds
      /\ \A p \in messages : ~Passed(a, p)
      /\ \A p \in messages, m \in Left(a) : p <= m => m \in messages
      /\ messages = {} => IsEnd(a)
  BY <1>1, AnswerContinues, EffectiveIsPositive DEF IInv
<1>3. /\ pc' = [pc EXCEPT ![a] = "convert"]
      /\ page' = [page EXCEPT ![a] = messages]
      /\ rest' = [rest EXCEPT ![a] = messages]
      /\ UNCHANGED <<tableVars, sent, walk, offset, got, again, lost>>
  BY DEF AskRemote, IInv, TypeOK
<1> HIDE DEF messages
<1>4. TypeOK'
  BY <1>2, <1>3 DEF IInv, TypeOK, TableTypeOK, tableVars
<1>5. pc'[a] = "convert" /\ page'[a] = messages /\ rest'[a] = messages
  BY <1>3 DEF IInv, TypeOK
<1>6. /\ \A m : Passed(a, m)' <=> Passed(a, m)
      /\ Left(a)' = Left(a)
      /\ IsEnd(a)' <=> IsEnd(a)
      /\ \A m : IsLogged(a, m)' <=> IsLogged(a, m)
  BY <1>3 DEF Passed, Left, IsEnd, Hides, IsLogged, Logged, tableVars
<1>7. PageContinues(a)'
  BY <1>1, <1>2, <1>3, <1>5, <1>6 DEF PageContinues
<1>8. ReceivedIsPassed(a)' /\ HadIsThere(a)'
  BY <1>1, <1>3, <1>6 DEF WalkOK, ReceivedIsPassed, HadIsThere, Plain, Logged, tableVars
<1> QED
  BY <1>1, <1>3, <1>4, <1>5, <1>6, <1>7, <1>8 DEF WalkOK

(* One message more is logged, or its write has failed.                    *)
LEMMA ConvertKeepsIInv ==
  ASSUME IInv, NEW a \in Agents, NEW m \in MsgIds, ConvertMessage(a, m) \/ ConvertFails(a, m)
  PROVE  TypeOK' /\ Grows /\ WalkOK(a)'
<1> DEFINE r == walk[a].ref
<1>1. Walking(a) /\ WalkOK(a) /\ PageContinues(a) /\ pc[a] = "convert"
  BY DEF ConvertMessage, ConvertFails, Converting, IInv, Walking, WalkOK
<1>2. /\ r \in Refs /\ <<r, m>> \in Key
      /\ walk[a].had \in SUBSET MsgIds /\ got[a] \in SUBSET MsgIds /\ page[a] \in SUBSET MsgIds
      /\ ChatOf[r] \in Canonical
  BY RefsAssumption DEF IInv, TypeOK, Walks, Key
<1>3. /\ rest' = [rest EXCEPT ![a] = rest[a] \ {m}]
      /\ UNCHANGED <<sent, pc, walk, offset, got, again, page>>
  BY DEF ConvertMessage, ConvertFails, Converting
<1>4. /\ TableTypeOK' /\ lost' \in SUBSET Key
      /\ \A k \in Key : rowOf[k] # 0 => rowOf'[k] # 0
      /\ \A k \in lost : k \in lost' \/ rowOf'[k] # 0
      /\ rowOf'[<<r, m>>] # 0 \/ <<r, m>> \in lost'
  <2>1. CASE Write(r, m, TRUE)
    BY <1>2, <2>1, WriteFacts DEF IInv
  <2>2. CASE ConvertFails(a, m)
    BY <1>2, <2>2 DEF ConvertFails, IInv, TypeOK, TableTypeOK, tableVars, Logged
  <2> QED
    BY <2>1, <2>2 DEF ConvertMessage
<1>5. TypeOK'
  BY <1>3, <1>4 DEF IInv, TypeOK
<1>6. Grows
  BY <1>3, <1>4 DEF Grows
<1>7. \A i \in MsgIds : IsLogged(a, i) => IsLogged(a, i)'
  BY <1>2, <1>3, <1>4 DEF IsLogged, Logged, Key
<1>8. IsLogged(a, m)'
  BY <1>3, <1>4 DEF IsLogged, Logged
<1>9. rest'[a] = rest[a] \ {m}
  BY <1>3 DEF IInv, TypeOK
<1>10. /\ \A i : Passed(a, i)' <=> Passed(a, i)
       /\ Left(a)' = Left(a)
       /\ IsEnd(a)' <=> IsEnd(a)
  BY <1>3 DEF Passed, Left, IsEnd, Hides
<1>11. PageContinues(a)'
  BY <1>1, <1>2, <1>3, <1>7, <1>8, <1>9, <1>10 DEF PageContinues
<1>12. Logged(r) \subseteq Logged(r)' /\ Plain(ChatOf[r])' = Plain(ChatOf[r])
  BY <1>2, <1>3, <1>4 DEF Logged, Plain, Key
<1>13. HadIsThere(a)'
  BY <1>1, <1>3, <1>12 DEF WalkOK, HadIsThere
<1>14. ReceivedIsPassed(a)'
  BY <1>1, <1>3, <1>10 DEF WalkOK, ReceivedIsPassed
<1>15. walk'[a].remote => \A i \in got'[a] : IsLogged(a, i)'
  BY <1>1, <1>2, <1>3, <1>7 DEF WalkOK
<1> QED
  BY <1>1, <1>3, <1>5, <1>6, <1>11, <1>13, <1>14, <1>15 DEF WalkOK

(* The page is returned once all of it has been converted.                 *)
LEMMA ReturnRemoteKeepsIInv ==
  ASSUME IInv, NEW a \in Agents, ReturnRemote(a)
  PROVE  TypeOK' /\ WalkOK(a)'
<1>1. /\ Walking(a) /\ WalkOK(a) /\ PageContinues(a) /\ rest[a] = {}
      /\ page[a] \in SUBSET MsgIds
  BY DEF ReturnRemote, IInv, Walking, WalkOK, TypeOK
<1>2. Continues(a, page[a])
  BY <1>1 DEF PageContinues, Continues
<1>3. /\ Return(a, page[a])
      /\ page' = [page EXCEPT ![a] = {}]
      /\ UNCHANGED <<tableVars, sent, walk, rest, lost>>
  BY DEF ReturnRemote
<1>4. WalkOK(a)' /\ offset' \in [Agents -> MsgIds \cup {0}]
  BY <1>1, <1>2, <1>3, ReturnKeepsWalk DEF IInv
<1>5. TypeOK'
  BY <1>1, <1>3, <1>4 DEF Return, IInv, TypeOK, TableTypeOK, tableVars
<1> QED
  BY <1>4, <1>5

(* A walk that is given up leaves nothing to ask for.                      *)
LEMMA AbandonKeepsIInv ==
  ASSUME IInv, NEW a \in Agents, Abandon(a)
  PROVE  TypeOK' /\ ~Walking(a)'
<1>1. pc'[a] = "idle"
  BY DEF Abandon, IInv, TypeOK
<1>2. walk' \in [Agents -> Walks]
  BY DEF Abandon, IInv, TypeOK, Walks
<1>3. TypeOK'
  BY <1>2 DEF Abandon, IInv, TypeOK, TableTypeOK, tableVars
<1> QED
  BY <1>1, <1>3 DEF Walking

Step(a) ==
  \/ \E r \in Refs, remote \in BOOLEAN, floor \in Floors : Begin(a, r, remote, floor)
  \/ Call(a)
  \/ Abandon(a)

(* A step of one agent leaves the walks of the others where they are.      *)
LEMMA StepLeavesOthers ==
  ASSUME IInv, NEW a \in Agents, Step(a), NEW b \in Agents, b # a
  PROVE  /\ pc'[b] = pc[b] /\ walk'[b] = walk[b] /\ offset'[b] = offset[b] /\ got'[b] = got[b]
         /\ again'[b] = again[b] /\ page'[b] = page[b] /\ rest'[b] = rest[b]
<1> USE DEF IInv, TypeOK
<1>1. CASE \E r \in Refs, remote \in BOOLEAN, floor \in Floors : Begin(a, r, remote, floor)
  BY <1>1 DEF Begin
<1>2. CASE \E limit \in Limits : ReadLocal(a, limit)
  BY <1>2 DEF ReadLocal, Return
<1>3. CASE \E limit \in Limits : AskRemote(a, limit)
  BY <1>3 DEF AskRemote
<1>4. CASE \E m \in MsgIds : ConvertMessage(a, m) \/ ConvertFails(a, m)
  BY <1>4 DEF ConvertMessage, ConvertFails, Converting
<1>5. CASE ReturnRemote(a)
  BY <1>5 DEF ReturnRemote, Return
<1>6. CASE Abandon(a)
  BY <1>6 DEF Abandon
<1> QED
  BY <1>1, <1>2, <1>3, <1>4, <1>5, <1>6 DEF Step, Call

(* A step of one agent is no concern of the others, but for what it logs.  *)
LEMMA StepKeepsOthers ==
  ASSUME IInv, NEW a \in Agents, Step(a), NEW b \in Agents, b # a, Grows, Walking(b)'
  PROVE  WalkOK(b)'
<1>1. Walking(b)
  BY StepLeavesOthers DEF Walking
<1> QED
  BY <1>1, StepLeavesOthers, GrowthKeepsWalk DEF IInv

(* A step of an agent keeps its own walk in order, and the others'.        *)
LEMMA StepKeepsIInv == ASSUME IInv, NEW a \in Agents, Step(a) PROVE IInv'
<1>1. TypeOK' /\ (Walking(a)' => WalkOK(a)')
  BY BeginKeepsIInv, ReadLocalKeepsIInv, AskRemoteKeepsIInv, ConvertKeepsIInv,
     ReturnRemoteKeepsIInv, AbandonKeepsIInv DEF Step, Call
<1>2. Grows
  <2>1. CASE \E m \in MsgIds : ConvertMessage(a, m) \/ ConvertFails(a, m)
    BY <2>1, ConvertKeepsIInv
  <2>2. CASE UNCHANGED <<tableVars, sent, lost>>
    BY <2>2 DEF Grows, tableVars
  <2> QED
    BY <2>1, <2>2 DEF Step, Call, Begin, ReadLocal, AskRemote, ReturnRemote, Abandon
<1> QED
  BY <1>1, <1>2, StepKeepsOthers DEF IInv

-----------------------------------------------------------------------------
(* The theorems.                                                           *)

(* The invariant holds throughout.                                         *)
THEOREM Invariant == Spec => []IInv
<1>1. IInv /\ [Next]_historyVars => IInv'
  <2> SUFFICES ASSUME IInv, [Next]_historyVars PROVE IInv'
    OBVIOUS
  <2>1. CASE UNCHANGED historyVars
    <3>1. TypeOK' /\ Grows
      BY <2>1 DEF historyVars, tableVars, agentVars, IInv, TypeOK, TableTypeOK, Grows
    <3>2. ASSUME NEW a \in Agents, Walking(a)' PROVE WalkOK(a)'
      <4>1. Walking(a) /\ WalkOK(a)
        BY <2>1, <3>2 DEF historyVars, agentVars, Walking, IInv
      <4> QED
        BY <2>1, <3>1, <4>1, GrowthKeepsWalk DEF historyVars, agentVars, IInv
    <3> QED
      BY <3>1, <3>2 DEF IInv
  <2> QED
    BY <2>1, MeanwhileKeepsIInv, StepKeepsIInv DEF Next, Step
<1> QED
  BY <1>1, InitIInv, PTL DEF Spec

(* Type correctness of the table, the conversations and the walks.         *)
THEOREM TypeCorrect == Spec => []TypeOK
BY Invariant, PTL DEF IInv

(* Pages meet without gap and overlap.                                     *)
THEOREM PagesMeet == Spec => []WalkHasNoHoles
<1>1. IInv => WalkHasNoHoles
  BY DEF IInv, WalkOK, ReceivedIsPassed, WalkHasNoHoles
<1> QED
  BY <1>1, Invariant, PTL

(* An empty page is the end, but for service messages of Telegram's.       *)
THEOREM EndIsComplete == Spec => []EmptyPageIsTheEnd
<1>1. IInv => EmptyPageIsTheEnd
  BY DEF IInv, WalkOK, IsEnd, EmptyPageIsTheEnd, Walking
<1> QED
  BY <1>1, Invariant, PTL

(* What was fetched is in the log under the reference it was fetched by.   *)
THEOREM FetchedStays == Spec => []FetchedIsLogged
<1>1. IInv => FetchedIsLogged
  BY DEF IInv, WalkOK, IsLogged, FetchedIsLogged
<1> QED
  BY <1>1, Invariant, PTL

-----------------------------------------------------------------------------
(* What the end of a walk rests on: a call that is under way can go on,    *)
(* whatever the limit, and each of its steps brings the walk closer to its *)
(* end, from where nothing but giving up throws it back.                   *)

(* Messages that are not none have an oldest one.                          *)
LEMMA HasOldest ==
  ASSUME NEW ids \in SUBSET MsgIds, ids # {}
  PROVE  \E oldest \in ids : \A m \in ids : oldest <= m
<1> DEFINE Under(j) == {i \in ids : i < j}
           Heads    == {Under(j) : j \in ids}
<1>1. IsFiniteSet(ids) /\ \A j \in ids : j \in Nat
  BY MsgIdsAssumption, FS_Subset
<1>2. Heads \subseteq FiniteSubsetsOf(ids) /\ Heads # {}
  <2>1. \A j \in ids : Under(j) \in SUBSET ids /\ IsFiniteSet(Under(j))
    BY <1>1, FS_Subset
  <2> QED
    BY <2>1 DEF FiniteSubsetsOf
<1>3. PICK head \in Heads : \A other \in Heads :
        ~(<<other, head>> \in StrictSubsetOrdering(ids))
  BY <1>2, FS_StrictSubsetOrderingWellFounded, WFMin
<1>4. PICK oldest \in ids : head = Under(oldest)
  OBVIOUS
<1>5. ASSUME NEW j \in ids, j < oldest PROVE FALSE
  <2>1. Under(j) \subseteq Under(oldest) /\ j \in Under(oldest) /\ j \notin Under(j)
    BY <1>1, <1>5
  <2>2. <<Under(j), Under(oldest)>> \in StrictSubsetOrdering(ids)
    BY <2>1 DEF StrictSubsetOrdering
  <2> QED
    BY <1>3, <1>4, <2>2
<1> QED
  BY <1>1, <1>5

(* A page says where the next one begins, unless it is the last.           *)
Returnable(messages) ==
  messages = {} \/ \E oldest \in messages : \A m \in messages : oldest <= m

(* A local call finds a page that can be returned; a remote one a page to  *)
(* convert, then a message of it to log, and in the end the page to return. *)
CallGoesOn(a, limit) ==
  \/ /\ pc[a] = "paging" /\ ~walk[a].remote
     /\ Returnable(Newest(Below(Logged(walk[a].ref), offset[a]), Effective(limit)))
  \/ pc[a] = "paging" /\ walk[a].remote
  \/ pc[a] = "convert" /\ rest[a] # {} /\ rest[a] \subseteq MsgIds
  \/ pc[a] = "convert" /\ rest[a] = {} /\ Returnable(page[a])

(* The safety part of the liveness of walks: no call is stuck.             *)
THEOREM CallsGoOn ==
  Spec => [](\A a \in Agents, limit \in Limits :
               pc[a] \in {"paging", "convert"} => CallGoesOn(a, limit))
<1>1. \A ids \in SUBSET MsgIds : Returnable(ids)
  BY HasOldest DEF Returnable
<1>2. \A a \in Agents : \A n :
        Newest(Below(Logged(walk[a].ref), offset[a]), n) \in SUBSET MsgIds
  BY DEF Newest, Below, Logged
<1>3. IInv => \A a \in Agents : page[a] \in SUBSET MsgIds /\ rest[a] \in SUBSET MsgIds
  BY DEF IInv, TypeOK
<1>4. IInv => \A a \in Agents, limit \in Limits :
                pc[a] \in {"paging", "convert"} => CallGoesOn(a, limit)
  BY <1>1, <1>2, <1>3 DEF CallGoesOn
<1> QED
  BY <1>4, Invariant, PTL

(* The walk ends, its offset falls, or the page that is converted shrinks. *)
Closer(a) ==
  \/ pc'[a] = "ended"
  \/ /\ pc'[a] = "paging" /\ offset'[a] \in MsgIds
     /\ offset[a] = 0 \/ offset'[a] < offset[a]
  \/ /\ pc'[a] = "convert" /\ offset'[a] = offset[a]
     /\ pc[a] = "paging" \/ (rest'[a] \subseteq rest[a] /\ rest'[a] # rest[a])

Rests(a) == pc'[a] = pc[a] /\ offset'[a] = offset[a] /\ rest'[a] = rest[a]

(* A page that is returned brings the walk closer to its end.              *)
LEMMA ReturnIsCloser ==
  ASSUME TypeOK, NEW a \in Agents, NEW messages \in SUBSET MsgIds, Return(a, messages),
         \A m \in messages : ~Passed(a, m)
  PROVE  Closer(a)
<1>1. CASE messages = {}
  BY <1>1 DEF Return, Closer, TypeOK
<1>2. CASE messages # {}
  <2>1. PICK oldest \in messages :
          pc' = [pc EXCEPT ![a] = "paging"] /\ offset' = [offset EXCEPT ![a] = oldest]
    BY <1>2 DEF Return
  <2>2. pc'[a] = "paging" /\ offset'[a] = oldest
    BY <2>1 DEF TypeOK
  <2>3. oldest \in Nat /\ offset[a] \in Nat
    <3>1. \A i \in MsgIds \cup {0} : i \in Nat
      BY MsgIdsAssumption
    <3>2. offset[a] \in MsgIds \cup {0}
      BY DEF TypeOK
    <3> QED
      BY <3>1, <3>2
  <2>4. offset[a] = 0 \/ oldest < offset[a]
    BY <2>3 DEF Passed
  <2> QED
    BY <2>2, <2>4 DEF Closer
<1> QED
  BY <1>1, <1>2

(* So does every step of a call.                                           *)
LEMMA CallIsCloser == ASSUME IInv, NEW a \in Agents, Call(a) PROVE Closer(a)
<1>1. ASSUME NEW limit \in Limits, ReadLocal(a, limit) PROVE Closer(a)
  <2> DEFINE ids == Logged(walk[a].ref)
             messages == Newest(Below(ids, offset[a]), Effective(limit))
  <2>1. ids \in SUBSET MsgIds /\ messages \in SUBSET Below(ids, offset[a])
    BY DEF Logged, Newest
  <2>2. \A m \in messages : m \in MsgIds /\ ~Passed(a, m)
    <3>1. \A m \in Below(ids, offset[a]) : m \in ids
      BY DEF Below
    <3> QED
      BY <2>1, <3>1, BelowOffset DEF IInv
  <2>3. Return(a, messages)
    BY <1>1 DEF ReadLocal
  <2> HIDE DEF messages
  <2> QED
    BY <2>2, <2>3, ReturnIsCloser DEF IInv
<1>2. ASSUME NEW limit \in Limits, AskRemote(a, limit) PROVE Closer(a)
  BY <1>2 DEF AskRemote, Closer, IInv, TypeOK
<1>3. ASSUME NEW m \in MsgIds, ConvertMessage(a, m) \/ ConvertFails(a, m) PROVE Closer(a)
  <2>1. Converting(a, m)
    BY <1>3 DEF ConvertMessage, ConvertFails
  <2>2. pc'[a] = "convert" /\ offset'[a] = offset[a] /\ m \in rest[a] /\ rest'[a] = rest[a] \ {m}
    BY <2>1 DEF Converting, IInv, TypeOK
  <2> QED
    BY <2>2 DEF Closer
<1>4. ASSUME ReturnRemote(a) PROVE Closer(a)
  <2>1. PageContinues(a) /\ page[a] \in SUBSET MsgIds /\ Return(a, page[a])
    BY <1>4 DEF ReturnRemote, IInv, Walking, WalkOK, TypeOK
  <2>2. \A m \in page[a] : ~Passed(a, m)
    BY <2>1 DEF PageContinues
  <2> QED
    BY <2>1, <2>2, ReturnIsCloser DEF IInv
<1> QED
  BY <1>1, <1>2, <1>3, <1>4 DEF Call

(* Every step of a call brings the walk closer to its end, and nothing     *)
(* that others do throws it back: the offset falls from page to page, and  *)
(* a page shrinks while it is converted.  Only finitely many steps lead    *)
(* from a page to the end of the walk.                                     *)
THEOREM WalkAdvances ==
  Spec => [][\A a \in Agents : /\ Call(a) => Closer(a)
                               /\ pc[a] \in {"paging", "convert"} =>
                                    Closer(a) \/ Rests(a) \/ pc'[a] = "idle"]_historyVars
<1>1. ASSUME IInv, NEW a \in Agents, pc[a] \in {"paging", "convert"}, Next
      PROVE  Closer(a) \/ Rests(a) \/ pc'[a] = "idle"
  <2>1. CASE Meanwhile
    BY <2>1 DEF Meanwhile, Post, LiveUpdate, OtherFetch, Rests, agentVars
  <2>2. CASE Call(a)
    BY <1>1, <2>2, CallIsCloser
  <2>3. CASE Abandon(a)
    BY <1>1, <2>3 DEF Abandon, IInv, TypeOK
  <2>4. ASSUME NEW b \in Agents, Step(b), b # a PROVE Rests(a)
    BY <1>1, <2>4, StepLeavesOthers DEF Rests
  <2>5. \A r, remote, floor : ~Begin(a, r, remote, floor)
    BY <1>1 DEF Begin
  <2> QED
    BY <1>1, <2>1, <2>2, <2>3, <2>4, <2>5 DEF Next, Step
<1>2. IInv /\ [Next]_historyVars =>
        [\A a \in Agents : /\ Call(a) => Closer(a)
                           /\ pc[a] \in {"paging", "convert"} =>
                                Closer(a) \/ Rests(a) \/ pc'[a] = "idle"]_historyVars
  BY <1>1, CallIsCloser
<1> QED
  BY <1>2, Invariant, PTL DEF Spec

-----------------------------------------------------------------------------
(* The table.                                                              *)

(* Walks, live updates and other fetches use the table messages as it is   *)
(* to be used: what is shown of the table holds beneath them.              *)
THEOREM HistoryUsesTable == Spec => TableSpec
<1>1. Init => TableInit
  BY DEF Init
<1>2. IInv /\ [Next]_historyVars => [TableNext]_tableVars
  <2> SUFFICES ASSUME IInv, [Next]_historyVars PROVE TableNext \/ UNCHANGED tableVars
    OBVIOUS
  <2>1. ASSUME NEW r \in Refs, NEW m \in MsgIds, NEW read \in BOOLEAN,
               read \/ r \in Canonical, Write(r, m, read)
        PROVE  TableNext
    BY <2>1 DEF Write, Logs, TableNext
  <2>2. CASE Meanwhile
    <3>1. \A c \in Canonical : c \in Refs
      BY RefsAssumption
    <3> QED
      BY <2>1, <2>2, <3>1 DEF Meanwhile, Post, LiveUpdate, OtherFetch
  <2>3. ASSUME NEW a \in Agents, Step(a) PROVE TableNext \/ UNCHANGED tableVars
    <3>1. walk[a].ref \in Refs
      BY DEF IInv, TypeOK, Walks
    <3>2. ASSUME NEW m \in MsgIds, ConvertMessage(a, m) PROVE TableNext
      BY <2>1, <3>1, <3>2 DEF ConvertMessage
    <3> QED
      BY <2>3, <3>2 DEF Step, Call, Begin, ReadLocal, AskRemote, ConvertFails, ReturnRemote, Abandon
  <2>4. CASE UNCHANGED historyVars
    BY <2>4 DEF historyVars
  <2> QED
    BY <2>2, <2>3, <2>4 DEF Next, Step
<1> QED
  BY <1>1, <1>2, Invariant, PTL DEF Spec, TableSpec
=============================================================================
