-------------------------- MODULE MessageLogProofs --------------------------
(***************************************************************************)
(* MessageLog for any number of workers, peers and messages.  Its safety   *)
(* properties are inductive together with the type invariant: a statement  *)
(* that could break one of them leaves a job behind that stands for the    *)
(* repair, and a job that ends without its statement marks the counter.    *)
(***************************************************************************)
EXTENDS MessageLog, TLAPS

IInv == TypeOK /\ UnreadRowIsCounted /\ LastAtCoversRows

(* A new log is empty.                                                     *)
LEMMA InitIInv == Init => IInv
<1> SUFFICES ASSUME Init PROVE IInv
  OBVIOUS
<1> USE DEF Init, TableInit, TypeOK, TableTypeOK
<1>1. TypeOK
  OBVIOUS
<1>2. \A r \in Refs, m \in MsgIds : rowOf[<<r, m>>] = 0
  BY DEF Key
<1>3. UnreadRowIsCounted /\ LastAtCoversRows
  BY <1>2 DEF UnreadRowIsCounted, LastAtCoversRows
<1> QED
  BY <1>1, <1>3 DEF IInv

-----------------------------------------------------------------------------
(* Types.                                                                  *)

(* A job names a peer; one that touches a chat also names a message.       *)
LEMMA JobFields ==
  ASSUME NEW j \in Jobs
  PROVE  /\ j.ref \in Refs
         /\ j.unread \in {0, 1}
         /\ j.step = "chat" => j.msg \in MsgIds
BY DEF Jobs, ChatJobs, MarkJobs

(* Message ids and dates are numbers.                                      *)
LEMMA Numbers ==
  /\ \A m \in MsgIds : m \in Nat
  /\ \A x \in {NoRow, ZeroTime} \cup MsgIds : x \in Int
<1>1. MsgIds \subseteq Nat
  BY MsgIdsAssumption
<1> QED
  BY <1>1 DEF NoRow, ZeroTime

(* The statements on the table messages keep its types.                    *)
LEMMA UpsertKeepsTypes ==
  ASSUME TableTypeOK, NEW k \in Key, NEW read \in BOOLEAN, UpsertRow(k, read)
  PROVE  TableTypeOK'
<1> USE DEF TableTypeOK, UpsertRow
<1>1. isRead' \in [Key -> BOOLEAN]
  OBVIOUS
<1>2. CASE rowOf[k] = 0
  BY <1>1, <1>2
<1>3. CASE rowOf[k] # 0
  BY <1>1, <1>3
<1> QED
  BY <1>2, <1>3

(* Marking the rows of a peer keeps the types of the table.                *)
LEMMA ReadRowsKeepsTypes ==
  ASSUME TableTypeOK, NEW r \in Refs, ReadRows(r)
  PROVE  TableTypeOK'
BY DEF TableTypeOK, ReadRows

(* Every step of a worker keeps the types.                                 *)
LEMMA TypesKept == TypeOK /\ [Next]_logVars => TypeOK'
<1> SUFFICES ASSUME TypeOK, [Next]_logVars PROVE TypeOK'
  OBVIOUS
<1> USE DEF TypeOK
<1>1. CASE UNCHANGED logVars
  BY <1>1 DEF logVars, TableTypeOK
<1>2. CASE Crash
  BY <1>2 DEF Crash, tableVars, TableTypeOK, Jobs, ChatJobs, MarkJobs
<1>3. ASSUME NEW w \in Workers, UpsertStep(w) PROVE TypeOK'
  <2>1. ASSUME NEW r \in Refs, NEW m \in MsgIds, NEW read \in BOOLEAN,
               LogMessage(w, r, m, read)
        PROVE  TypeOK'
    <3>1. TableTypeOK'
      BY <2>1, UpsertKeepsTypes DEF LogMessage, Key
    <3>2. [step |-> "chat", ref |-> r, msg |-> m, unread |-> IF read THEN 0 ELSE 1] \in Jobs
      BY DEF Jobs, ChatJobs
    <3> QED
      BY <2>1, <3>1, <3>2 DEF LogMessage
  <2>2. CASE TouchChat(w)
    <3> DEFINE j == job[w]
    <3>1. j.step = "chat" /\ j.ref \in Refs /\ j.unread \in {0, 1} /\ j.msg \in MsgIds
      BY <2>2, JobFields DEF TouchChat, Has
    <3>2. unread' \in [Refs -> Nat]
      BY <2>2, <3>1 DEF TouchChat
    <3>3. lastAt' \in [Refs -> {NoRow, ZeroTime} \cup MsgIds]
      BY <2>2, <3>1 DEF TouchChat, Later
    <3> QED
      BY <2>2, <3>2, <3>3 DEF TouchChat, Finish, tableVars, TableTypeOK
  <2>3. CASE TouchChatFails(w)
    BY <2>3, JobFields DEF TouchChatFails, Has, Finish, tableVars, TableTypeOK
  <2> QED
    BY <1>3, <2>1, <2>2, <2>3 DEF UpsertStep, RecordIncomingMessage, ConvertMessage
<1>4. ASSUME NEW w \in Workers, MarkStep(w) PROVE TypeOK'
  <2>1. ASSUME NEW r \in Refs, NEW max \in MsgIds \cup {0},
               MarkChat(w, r, max) \/ MarkChatFails(w, r, max)
        PROVE  TypeOK'
    BY <2>1 DEF MarkChat, MarkChatFails, Mark, Jobs, MarkJobs, tableVars, TableTypeOK
  <2>2. CASE MarkRows(w)
    BY <2>2, JobFields, ReadRowsKeepsTypes DEF MarkRows, Marking, Has, Finish
  <2>3. CASE MarkRowsFails(w)
    BY <2>3, JobFields DEF MarkRowsFails, Marking, Has, Finish, tableVars, TableTypeOK
  <2> QED
    BY <1>4, <2>1, <2>2, <2>3 DEF MarkStep
<1>5. ASSUME NEW w \in Workers, ListStep(w) PROVE TypeOK'
  BY <1>5 DEF ListStep, ListDialog, Later, NoRow, ZeroTime, tableVars, TableTypeOK
<1> QED
  BY <1>1, <1>2, <1>3, <1>4, <1>5 DEF Next

-----------------------------------------------------------------------------
(* UnreadRowIsCounted.                                                     *)

(* An unread row of a peer with a trusted counter is counted, or somebody  *)
(* is about to count it or to mark it.                                     *)
Counted(r) == unread[r] > 0 \/ \E w \in Workers : Adds(w, r) \/ Marks(w, r)

(* No step hides an unread row behind a counter of zero.                   *)
LEMMA CountedKept == TypeOK /\ UnreadRowIsCounted /\ [Next]_logVars => UnreadRowIsCounted'
<1> SUFFICES ASSUME TypeOK, UnreadRowIsCounted, [Next]_logVars,
                    NEW r \in Refs, r \notin skewed',
                    NEW m \in MsgIds, rowOf'[<<r, m>>] # 0, ~isRead'[<<r, m>>]
             PROVE  Counted(r)'
  BY DEF UnreadRowIsCounted, Counted
<1> USE DEF TypeOK
<1>a. <<r, m>> \in Key
  BY DEF Key
<1>b. r \notin skewed /\ rowOf[<<r, m>>] # 0 /\ ~isRead[<<r, m>>] => Counted(r)
  BY DEF UnreadRowIsCounted, Counted
<1>1. CASE UNCHANGED logVars
  BY <1>1, <1>b DEF logVars, Counted, Adds, Marks, Marking, Has
<1>2. CASE Crash
  BY <1>2, <1>b DEF Crash, tableVars, Counted, Adds, Marks, Marking, Has
<1>3. ASSUME NEW v \in Workers, UpsertStep(v) PROVE Counted(r)'
  <2>1. ASSUME NEW q \in Refs, NEW n \in MsgIds, NEW read \in BOOLEAN,
               LogMessage(v, q, n, read)
        PROVE  Counted(r)'
    <3>1. CASE <<q, n>> = <<r, m>>
      <4>1. ~read
        BY <1>a, <2>1, <3>1 DEF LogMessage, UpsertRow, TableTypeOK
      <4>2. [step |-> "chat", ref |-> r, msg |-> m, unread |-> IF read THEN 0 ELSE 1] # None
        BY NoneAssumption DEF Jobs, ChatJobs
      <4> QED
        BY <2>1, <3>1, <4>1, <4>2 DEF LogMessage, Counted, Adds, Has
    <3>2. CASE <<q, n>> # <<r, m>>
      <4>1. rowOf'[<<r, m>>] = rowOf[<<r, m>>] /\ isRead'[<<r, m>>] = isRead[<<r, m>>]
        BY <1>a, <2>1, <3>2 DEF LogMessage, UpsertRow, TableTypeOK
      <4> QED
        BY <1>b, <2>1, <4>1 DEF LogMessage, Counted, Adds, Marks, Marking, Has
    <3> QED
      BY <3>1, <3>2
  <2>2. CASE TouchChat(v)
    BY <2>2, <1>b, JobFields
       DEF TouchChat, Finish, tableVars, Counted, Adds, Marks, Marking, Has
  <2>3. CASE TouchChatFails(v)
    BY <2>3, <1>b DEF TouchChatFails, Finish, tableVars, Counted, Adds, Marks, Marking, Has
  <2> QED
    BY <1>3, <2>1, <2>2, <2>3 DEF UpsertStep, RecordIncomingMessage, ConvertMessage
<1>4. ASSUME NEW v \in Workers, MarkStep(v) PROVE Counted(r)'
  <2>1. ASSUME NEW q \in Refs, NEW max \in MsgIds \cup {0},
               MarkChat(v, q, max) \/ MarkChatFails(v, q, max)
        PROVE  Counted(r)'
    <3>1. \A s \in {"mark", "markOnly"} : [step |-> s, ref |-> q, msg |-> max, unread |-> 0] # None
      BY NoneAssumption DEF Jobs, MarkJobs
    <3>2. CASE MarkChat(v, q, max)
      BY <3>1, <3>2, <1>b
         DEF MarkChat, Mark, tableVars, Counted, Adds, Marks, Marking, Has
    <3>3. CASE MarkChatFails(v, q, max)
      BY <3>1, <3>3, <1>b
         DEF MarkChatFails, Mark, tableVars, Counted, Adds, Marks, Marking, Has
    <3> QED
      BY <2>1, <3>2, <3>3
  <2>2. CASE MarkRows(v)
    <3>1. r # job[v].ref /\ rowOf[<<r, m>>] # 0 /\ ~isRead[<<r, m>>]
      BY <1>a, <2>2 DEF MarkRows, ReadRows, TableTypeOK
    <3> QED
      BY <1>b, <2>2, <3>1 DEF MarkRows, Finish, Counted, Adds, Marks, Marking, Has
  <2>3. CASE MarkRowsFails(v)
    BY <2>3, <1>b DEF MarkRowsFails, Finish, tableVars, Counted, Adds, Marks, Marking, Has
  <2> QED
    BY <1>4, <2>1, <2>2, <2>3 DEF MarkStep
<1>5. ASSUME NEW v \in Workers, ListStep(v) PROVE Counted(r)'
  BY <1>5, <1>b DEF ListStep, ListDialog, tableVars, Counted, Adds, Marks, Marking, Has
<1> QED
  BY <1>1, <1>2, <1>3, <1>4, <1>5 DEF Next

-----------------------------------------------------------------------------
(* LastAtCoversRows.                                                       *)

(* last_msg_at is as late as message m, or somebody is about to see to it. *)
Covered(r, m) ==
  lastAt[r] >= m \/ \E w \in Workers : Has(w, "chat") /\ job[w].ref = r /\ job[w].msg = m

(* No step leaves last_msg_at older than a row.                            *)
LEMMA CoveredKept == TypeOK /\ LastAtCoversRows /\ [Next]_logVars => LastAtCoversRows'
<1> SUFFICES ASSUME TypeOK, LastAtCoversRows, [Next]_logVars,
                    NEW r \in Refs, r \notin missed',
                    NEW m \in MsgIds, rowOf'[<<r, m>>] # 0
             PROVE  Covered(r, m)'
  BY DEF LastAtCoversRows, Covered
<1> USE DEF TypeOK
<1>a. <<r, m>> \in Key
  BY DEF Key
<1>b. r \notin missed /\ rowOf[<<r, m>>] # 0 => Covered(r, m)
  BY DEF LastAtCoversRows, Covered
<1>c. m \in Int /\ lastAt[r] \in Int
  BY Numbers
<1>1. CASE UNCHANGED logVars
  BY <1>1, <1>b DEF logVars, Covered, Has
<1>2. CASE Crash
  BY <1>2, <1>b DEF Crash, tableVars, Covered, Has
<1>3. ASSUME NEW v \in Workers, UpsertStep(v) PROVE Covered(r, m)'
  <2>1. ASSUME NEW q \in Refs, NEW n \in MsgIds, NEW read \in BOOLEAN,
               LogMessage(v, q, n, read)
        PROVE  Covered(r, m)'
    <3>1. CASE <<q, n>> = <<r, m>>
      <4>1. [step |-> "chat", ref |-> r, msg |-> m, unread |-> IF read THEN 0 ELSE 1] # None
        BY NoneAssumption DEF Jobs, ChatJobs
      <4> QED
        BY <2>1, <3>1, <4>1 DEF LogMessage, Covered, Has
    <3>2. CASE <<q, n>> # <<r, m>>
      <4>1. rowOf'[<<r, m>>] = rowOf[<<r, m>>]
        BY <1>a, <2>1, <3>2 DEF LogMessage, UpsertRow, TableTypeOK
      <4> QED
        BY <1>b, <2>1, <4>1 DEF LogMessage, Covered, Has
    <3> QED
      BY <3>1, <3>2
  <2>2. CASE TouchChat(v)
    <3>1. Covered(r, m)
      BY <1>b, <2>2 DEF TouchChat, tableVars
    <3>2. job[v].ref \in Refs /\ job[v].msg \in Int
      BY <2>2, JobFields, Numbers DEF TouchChat, Has
    <3>3. lastAt'[r] >= lastAt[r] /\ (job[v].ref = r => lastAt'[r] >= job[v].msg)
      BY <1>c, <2>2, <3>2 DEF TouchChat, Later
    <3>4. lastAt'[r] \in Int
      BY <1>c, <2>2, <3>2 DEF TouchChat, Later
    <3> QED
      BY <1>c, <2>2, <3>1, <3>3, <3>4 DEF TouchChat, Finish, Covered, Has
  <2>3. CASE TouchChatFails(v)
    BY <2>3, <1>b DEF TouchChatFails, Finish, tableVars, Covered, Has
  <2> QED
    BY <1>3, <2>1, <2>2, <2>3 DEF UpsertStep, RecordIncomingMessage, ConvertMessage
<1>4. ASSUME NEW v \in Workers, MarkStep(v) PROVE Covered(r, m)'
  <2>1. ASSUME NEW q \in Refs, NEW max \in MsgIds \cup {0},
               MarkChat(v, q, max) \/ MarkChatFails(v, q, max)
        PROVE  Covered(r, m)'
    BY <2>1, <1>b DEF MarkChat, MarkChatFails, Mark, tableVars, Covered, Has
  <2>2. CASE MarkRows(v) \/ MarkRowsFails(v)
    BY <2>2, <1>b
       DEF MarkRows, MarkRowsFails, ReadRows, Marking, Finish, tableVars, Covered, Has
  <2> QED
    BY <1>4, <2>1, <2>2 DEF MarkStep
<1>5. ASSUME NEW v \in Workers, ListStep(v) PROVE Covered(r, m)'
  <2>1. Covered(r, m)
    BY <1>5, <1>b DEF ListStep, ListDialog, tableVars
  <2>2. lastAt'[r] \in Int /\ lastAt'[r] >= lastAt[r]
    BY <1>5, <1>c, MsgIdsAssumption DEF ListStep, ListDialog, Later, NoRow, ZeroTime
  <2> QED
    BY <1>5, <1>c, <2>1, <2>2 DEF ListStep, ListDialog, Covered, Has
<1> QED
  BY <1>1, <1>2, <1>3, <1>4, <1>5 DEF Next

-----------------------------------------------------------------------------
(* The invariant holds throughout.                                         *)
THEOREM Invariant == Spec => []IInv
<1>1. IInv /\ [Next]_logVars => IInv'
  BY TypesKept, CountedKept, CoveredKept DEF IInv
<1> QED
  BY <1>1, InitIInv, PTL DEF Spec

(* Type correctness of the tables and of the workers' jobs.                *)
THEOREM TypeCorrect == Spec => []TypeOK
BY Invariant, PTL DEF IInv

(* A counter of zero hides no unread row, however live updates, histories, *)
(* MarkRead, ListChats and crashes interleave.                             *)
THEOREM NoHiddenUnread == Spec => []UnreadRowIsCounted
BY Invariant, PTL DEF IInv

(* last_msg_at is never older than a logged message of the peer.           *)
THEOREM NoOlderLastAt == Spec => []LastAtCoversRows
BY Invariant, PTL DEF IInv

(* Seen through the table messages, every step of the workers is a         *)
(* statement of MessageTable or a stutter.                                 *)
THEOREM LogImplementsTable == Spec => ImplementsTable
<1>1. Init => TableInit
  BY DEF Init
<1>2. TypeOK /\ [Next]_logVars => [TableNext]_tableVars
  <2> SUFFICES ASSUME TypeOK, [Next]_logVars PROVE [TableNext]_tableVars
    OBVIOUS
  <2> USE DEF TypeOK
  <2>1. CASE UNCHANGED logVars
    BY <2>1 DEF logVars, tableVars
  <2>2. CASE Crash
    BY <2>2 DEF Crash
  <2>3. ASSUME NEW w \in Workers, UpsertStep(w) PROVE [TableNext]_tableVars
    BY <2>3 DEF UpsertStep, RecordIncomingMessage, ConvertMessage, LogMessage,
                TouchChat, TouchChatFails, TableNext, Logs
  <2>4. ASSUME NEW w \in Workers, MarkStep(w) PROVE [TableNext]_tableVars
    BY <2>4, JobFields DEF MarkStep, MarkChat, MarkChatFails, MarkRows, MarkRowsFails,
                Marking, Has, TableNext
  <2>5. ASSUME NEW w \in Workers, ListStep(w) PROVE [TableNext]_tableVars
    BY <2>5 DEF ListStep, ListDialog
  <2> QED
    BY <2>1, <2>2, <2>3, <2>4, <2>5 DEF Next
<1> QED
  BY <1>1, <1>2, TypeCorrect, PTL DEF Spec, ImplementsTable, TableSpec
=============================================================================
