---------------------------- MODULE MessageTable ----------------------------
(***************************************************************************)
(* The table messages of messages.db, as its readers and writers see it:   *)
(* rows that are inserted, refreshed and marked as read, one statement at  *)
(* a time.  A statement that fails changes nothing.  Rows are never        *)
(* deleted.                                                                *)
(***************************************************************************)
EXTENDS Integers, FiniteSets

CONSTANTS
  Refs,       \* normalised peer references: the values of column peer_id
  Canonical,  \* those of the form "kind:id"
  ChatOf,     \* the conversation, named canonically, a reference stands for
  MsgIds      \* Telegram's message ids, which count the messages of a peer

ASSUME RefsAssumption ==
  /\ IsFiniteSet(Refs)
  /\ Canonical \subseteq Refs
  /\ ChatOf \in [Refs -> Canonical]
  /\ \A c \in Canonical : ChatOf[c] = c
ASSUME MsgIdsAssumption == MsgIds \subseteq Nat \ {0} /\ IsFiniteSet(MsgIds)

(* A row is known by its UNIQUE(peer_id, msg_id).                          *)
Key == Refs \X MsgIds

VARIABLES
  lastRowId,  \* the AUTOINCREMENT sequence
  rowOf,      \* rowid, 0 where there is no row
  isRead      \* is_read

tableVars == <<lastRowId, rowOf, isRead>>

TableTypeOK ==
  /\ lastRowId \in Nat
  /\ rowOf \in [Key -> Nat]
  /\ isRead \in [Key -> BOOLEAN]

TableInit ==
  /\ lastRowId = 0
  /\ rowOf = [k \in Key |-> 0]
  /\ isRead = [k \in Key |-> FALSE]

(* Mutation: INSERT OR REPLACE, which deletes the row and inserts a new one. *)
MutReplaceRow(k, read) ==
  /\ isRead' = [isRead EXCEPT ![k] = read]
  /\ lastRowId' = lastRowId + 1
  /\ rowOf' = [rowOf EXCEPT ![k] = lastRowId']

(* Mutation: the sequence runs backwards.                                  *)
MutCountsDown(k, read) ==
  /\ isRead' = [isRead EXCEPT ![k] = @ \/ read]
  /\ IF rowOf[k] = 0
       THEN /\ lastRowId' = lastRowId - 1
            /\ rowOf' = [rowOf EXCEPT ![k] = lastRowId']
       ELSE UNCHANGED <<lastRowId, rowOf>>

(* INSERT .. ON CONFLICT(peer_id, msg_id) DO UPDATE: a refreshed row keeps *)
(* its rowid, and is_read only ever rises.                                 *)
UpsertRow(k, read) ==
  /\ isRead' = [isRead EXCEPT ![k] = @ \/ read]
  /\ IF rowOf[k] = 0
       THEN /\ lastRowId' = lastRowId + 1
            /\ rowOf' = [rowOf EXCEPT ![k] = lastRowId']
       ELSE UNCHANGED <<lastRowId, rowOf>>

(* UPDATE messages SET is_read = 1 WHERE peer_id = ?                       *)
ReadRows(r) ==
  /\ isRead' = [k \in Key |-> isRead[k] \/ (k[1] = r /\ rowOf[k] # 0)]
  /\ UNCHANGED <<lastRowId, rowOf>>

(* Live updates name their peer canonically; what the host fetched itself  *)
(* is logged as read, under the reference it used.                         *)
Logs(r, m) == \E read \in BOOLEAN :
  /\ read \/ r \in Canonical
  /\ UpsertRow(<<r, m>>, read)

TableNext == \E r \in Refs : ReadRows(r) \/ \E m \in MsgIds : Logs(r, m)

TableSpec == TableInit /\ [][TableNext]_tableVars

-----------------------------------------------------------------------------
(* A message that was read never becomes unread, and a row keeps its place *)
(* in the log: a late or repeated live update cannot undo either.          *)
ReadAndPlaceAreFinal ==
  [][\A k \in Key : /\ isRead[k] => isRead'[k]
                    /\ rowOf[k] # 0 => rowOf'[k] = rowOf[k]]_tableVars

(* models.go:53: the PeerID of a logged Message is the "canonical peer     *)
(* id", and rows are unique per (peer_id, msg_id): a message has one row.  *)
OneRowPerMessage ==
  \A r, q \in Refs, m \in MsgIds :
    ChatOf[r] = ChatOf[q] /\ rowOf[<<r, m>>] # 0 /\ rowOf[<<q, m>>] # 0 => r = q
=============================================================================
