----------------------------- MODULE MessageLog -----------------------------
(***************************************************************************)
(* The local message log: the tables messages and chats of messages.db and *)
(* the goroutines that write them.                                         *)
(*                                                                         *)
(* A worker is a goroutine of gotd that handles a live update, or a        *)
(* goroutine of the host inside GetMessages, Search, MarkRead or           *)
(* ListChats.  SQLite runs one statement at a time and each statement is   *)
(* atomic, but upsertMessage and markChatRead are two statements outside   *)
(* of any transaction: between the two any other worker may run, the       *)
(* second one may fail (its ctx is done, the database is busy, or Close    *)
(* has closed it), and the process may stop.                               *)
(*                                                                         *)
(* A statement that fails first changes nothing: upsertMessage returns,    *)
(* and its callers go on.  It needs no action of its own.                  *)
(***************************************************************************)
EXTENDS MessageTable

CONSTANTS
  Workers,    \* goroutines that write to the log
  MaxUnread,  \* bound on the counters that live updates and ListChats find
  None        \* a worker that is between two upserts

(* The second statement of upsertMessage, or that of markChatRead after    *)
(* the first one has succeeded (mark) or failed (markOnly).                *)
ChatJobs == [step : {"chat"}, ref : Refs, unread : {0, 1}, msg : MsgIds]
MarkJobs == [step : {"mark", "markOnly"}, ref : Refs, unread : {0}, msg : MsgIds \cup {0}]
Jobs     == ChatJobs \cup MarkJobs

ASSUME NoneAssumption == None \notin Jobs

VARIABLES
  unread,  \* chats.unread_count, 0 where there is no row
  lastAt,  \* chats.last_msg_at, NoRow where there is no row
  job,     \* the second statement a worker has ahead of it
  skewed,  \* history: counters that lost a statement or were overwritten
  missed   \* history: peers whose last_msg_at lost a statement

logVars == <<lastRowId, rowOf, isRead, unread, lastAt, job, skewed, missed>>

(* The date of a message is abstracted to its id.  A dialog without a top  *)
(* message has the zero time.Time, whose UnixMilli is negative.            *)
NoRow    == -2
ZeroTime == -1

TypeOK ==
  /\ TableTypeOK
  /\ unread \in [Refs -> Nat]
  /\ lastAt \in [Refs -> {NoRow, ZeroTime} \cup MsgIds]
  /\ job \in [Workers -> Jobs \cup {None}]
  /\ skewed \in SUBSET Refs
  /\ missed \in SUBSET Refs

Init ==
  /\ TableInit
  /\ unread = [r \in Refs |-> 0]
  /\ lastAt = [r \in Refs |-> NoRow]
  /\ job = [w \in Workers |-> None]
  /\ skewed = {}
  /\ missed = {}

Later(a, b) == IF a < b THEN b ELSE a

Has(w, step) == job[w] # None /\ job[w].step = step
Marking(w)   == Has(w, "mark") \/ Has(w, "markOnly")
Finish(w)    == job' = [job EXCEPT ![w] = None]

-----------------------------------------------------------------------------
(* upsertMessage.                                                          *)

(* Mutation: INSERT OR REPLACE, which deletes the row and inserts a new one. *)
MutLogReplaces(w, r, m, read) ==
  /\ job[w] = None
  /\ lastRowId < 4
  /\ MutReplaceRow(<<r, m>>, read)
  /\ job' = [job EXCEPT ![w] = [step |-> "chat", ref |-> r, msg |-> m,
                                unread |-> IF read THEN 0 ELSE 1]]
  /\ UNCHANGED <<unread, lastAt, skewed, missed>>

LogMessage(w, r, m, read) ==
  /\ job[w] = None
  /\ UpsertRow(<<r, m>>, read)
  /\ job' = [job EXCEPT ![w] = [step |-> "chat", ref |-> r, msg |-> m,
                                unread |-> IF read THEN 0 ELSE 1]]
  /\ UNCHANGED <<unread, lastAt, skewed, missed>>

(* recordIncomingMessage: a live update, in any order, possibly again.  A  *)
(* message of the own user counts as read; isFromMe may be wrong while     *)
(* selfUser is not known, so every message may be logged either way.       *)
RecordIncomingMessage(w, r, m) ==
  /\ r \in Canonical
  /\ unread[r] < MaxUnread
  /\ \E isFromMe \in BOOLEAN : LogMessage(w, r, m, isFromMe)

(* One iteration of convertMessages: a message of a history or of a search *)
(* is logged as read, under the reference the caller used.                 *)
ConvertMessage(w, r, m) == LogMessage(w, r, m, TRUE)

(* Mutation: unread_count = excluded.unread_count.                         *)
MutTouchSets(w) ==
  /\ Has(w, "chat")
  /\ LET j == job[w] IN
       /\ unread' = [unread EXCEPT ![j.ref] = j.unread]
       /\ lastAt' = [lastAt EXCEPT ![j.ref] = Later(@, j.msg)]
  /\ Finish(w)
  /\ UNCHANGED <<tableVars, skewed, missed>>

(* Mutation: last_msg_at = excluded.last_msg_at.                           *)
MutTouchNoMax(w) ==
  /\ Has(w, "chat")
  /\ LET j == job[w] IN
       /\ unread' = [unread EXCEPT ![j.ref] = @ + j.unread]
       /\ lastAt' = [lastAt EXCEPT ![j.ref] = j.msg]
  /\ Finish(w)
  /\ UNCHANGED <<tableVars, skewed, missed>>

(* The second statement: the chats row.                                    *)
TouchChat(w) ==
  /\ Has(w, "chat")
  /\ LET j == job[w] IN
       /\ unread' = [unread EXCEPT ![j.ref] = @ + j.unread]
       /\ lastAt' = [lastAt EXCEPT ![j.ref] = Later(@, j.msg)]
  /\ Finish(w)
  /\ UNCHANGED <<tableVars, skewed, missed>>

TouchChatFails(w) ==
  /\ Has(w, "chat")
  /\ skewed' = skewed \cup {job[w].ref}
  /\ missed' = missed \cup {job[w].ref}
  /\ Finish(w)
  /\ UNCHANGED <<tableVars, unread, lastAt>>

-----------------------------------------------------------------------------
(* MarkRead, once Telegram has accepted the request: markChatRead, whose   *)
(* two statements ignore errors.                                           *)

Mark(w, step, r, max) ==
  job' = [job EXCEPT ![w] = [step |-> step, ref |-> r, msg |-> max, unread |-> 0]]

(* Mutation: UPDATE chats SET unread_count = unread_count - 1.             *)
MutCountDown(w, r, max) ==
  /\ job[w] = None
  /\ Mark(w, "mark", r, max)
  /\ unread' = [unread EXCEPT ![r] = @ - 1]
  /\ UNCHANGED <<tableVars, lastAt, skewed, missed>>

(* UPDATE chats SET unread_count = 0 WHERE peer_id = ?                     *)
MarkChat(w, r, max) ==
  /\ job[w] = None
  /\ Mark(w, "mark", r, max)
  /\ unread' = [unread EXCEPT ![r] = 0]
  /\ UNCHANGED <<tableVars, lastAt, skewed, missed>>

MarkChatFails(w, r, max) ==
  /\ job[w] = None
  /\ Mark(w, "markOnly", r, max)
  /\ UNCHANGED <<tableVars, unread, lastAt, skewed, missed>>

(* UPDATE messages SET is_read = 1 WHERE peer_id = ?.  When both have      *)
(* succeeded the counter is in step with the rows again.                   *)
MarkRows(w) ==
  /\ Marking(w)
  /\ ReadRows(job[w].ref)
  /\ skewed' = IF Has(w, "mark") THEN skewed \ {job[w].ref} ELSE skewed
  /\ Finish(w)
  /\ UNCHANGED <<unread, lastAt, missed>>

MarkRowsFails(w) ==
  /\ Marking(w)
  /\ skewed' = skewed \cup {job[w].ref}
  /\ Finish(w)
  /\ UNCHANGED <<tableVars, unread, lastAt, missed>>

-----------------------------------------------------------------------------
(* upsertChatMeta for one dialog of ListChats: a single statement, which   *)
(* replaces the counter by the one Telegram answered with.                 *)
ListDialog(w, r, count, at) ==
  /\ r \in Canonical
  /\ job[w] = None
  /\ unread' = [unread EXCEPT ![r] = count]
  /\ lastAt' = [lastAt EXCEPT ![r] = Later(@, at)]
  /\ skewed' = skewed \cup {r}
  /\ UNCHANGED <<tableVars, job, missed>>

(* The process stops and starts again: the tables stay, the goroutines go. *)
Crash ==
  LET open == {w \in Workers : job[w] # None} IN
    /\ open # {}
    /\ job' = [w \in Workers |-> None]
    /\ skewed' = skewed \cup {job[w].ref : w \in open}
    /\ missed' = missed \cup {job[w].ref : w \in {v \in open : job[v].step = "chat"}}
    /\ UNCHANGED <<tableVars, unread, lastAt>>

-----------------------------------------------------------------------------
UpsertStep(w) ==
  \/ \E r \in Refs, m \in MsgIds : RecordIncomingMessage(w, r, m) \/ ConvertMessage(w, r, m)
  \/ TouchChat(w) \/ TouchChatFails(w)

MarkStep(w) ==
  \/ \E r \in Refs, max \in MsgIds \cup {0} : MarkChat(w, r, max) \/ MarkChatFails(w, r, max)
  \/ MarkRows(w) \/ MarkRowsFails(w)

ListStep(w) ==
  \E r \in Refs, count \in 0..MaxUnread, at \in {ZeroTime} \cup MsgIds :
    ListDialog(w, r, count, at)

Next == Crash \/ \E w \in Workers : UpsertStep(w) \/ MarkStep(w) \/ ListStep(w)

Spec == Init /\ [][Next]_logVars

-----------------------------------------------------------------------------
(* Properties.                                                             *)

Adds(w, r)  == Has(w, "chat") /\ job[w].ref = r /\ job[w].unread = 1
Marks(w, r) == Marking(w) /\ job[w].ref = r

(* The two tables agree on whether a peer has unread messages: a counter   *)
(* of zero hides no unread row, although rows and counters are written by  *)
(* different statements of concurrent goroutines.  The exceptions are a    *)
(* worker that is about to count the row or to mark it, and a counter that *)
(* lost a statement or was replaced by ListChats since the last MarkRead.  *)
UnreadRowIsCounted ==
  \A r \in Refs \ skewed :
    (\E m \in MsgIds : rowOf[<<r, m>>] # 0 /\ ~isRead[<<r, m>>])
      => unread[r] > 0 \/ \E w \in Workers : Adds(w, r) \/ Marks(w, r)

(* chats.last_msg_at is never older than a message of the peer in the log, *)
(* whatever the order in which live updates, histories and dialogs arrive. *)
LastAtCoversRows ==
  \A r \in Refs \ missed, m \in MsgIds :
    rowOf[<<r, m>>] # 0
      => lastAt[r] >= m \/ \E w \in Workers : Has(w, "chat") /\ job[w].ref = r /\ job[w].msg = m

(* Seen through the table messages alone, the workers do what MessageTable *)
(* allows: the readers of the log, which build on that module, may forget  *)
(* the counters and the workers.                                           *)
ImplementsTable == TableSpec

-----------------------------------------------------------------------------
(* What the comments promise and the code does not keep.                   *)

(* store.go:75: upsertMessage is "idempotent on (peer_id, msg_id)" and     *)
(* "touches the chats row for last_msg_at": a repeated update would leave  *)
(* the counter of a peer no higher than the number of its messages.        *)
CountsMessagesOnce ==
  \A r \in Refs \ skewed :
    unread[r] <= Cardinality({m \in MsgIds : rowOf[<<r, m>>] # 0})

(* messages.go:106: MarkRead "marks all messages in a peer up to           *)
(* MaxMessageID as read (0 = mark all)".                                   *)
MarkReadHonoursMax ==
  [][\A w \in Workers :
       Marking(w) /\ job[w].msg # 0 /\ job' = [job EXCEPT ![w] = None]
         => \A m \in MsgIds : m > job[w].msg
              => isRead'[<<job[w].ref, m>>] = isRead[<<job[w].ref, m>>]]_logVars
=============================================================================
