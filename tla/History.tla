------------------------------- MODULE History -------------------------------
(***************************************************************************)
(* GetMessages, and agents that walk back through the messages of a peer   *)
(* with it: the first call has OffsetID 0, every further one the smallest  *)
(* id of the page before, until a page is empty.  A walk reads either the  *)
(* local log (FromLocal) or Telegram, which GetMessages writes through to  *)
(* the log.  Meanwhile messages are posted, live updates and the fetches   *)
(* of other goroutines are logged, in any order and possibly again.        *)
(*                                                                         *)
(* A call that returns an error has changed nothing, and the agent repeats *)
(* it or gives up.                                                         *)
(***************************************************************************)
EXTENDS MessageTable

CONSTANTS
  Service,       \* messages that are not a *tg.Message: joins, pins, calls
  Agents,
  Floors,        \* values of params.MinID
  Limits,        \* values of params.Limit
  DefaultLimit,  \* 50 in the code
  MaxLimit       \* 200 in the code

ASSUME ServiceAssumption == Service \subseteq Canonical \X MsgIds
ASSUME LimitsAssumption ==
  /\ Floors \subseteq Nat
  /\ Limits \subseteq Int
  /\ DefaultLimit \in Nat \ {0}
  /\ MaxLimit \in Nat \ {0}

Walks == [ref : Refs, remote : BOOLEAN, floor : Floors, had : SUBSET MsgIds]

VARIABLES
  sent,    \* the messages of a conversation at Telegram
  pc,      \* where an agent is
  walk,    \* the parameters of a walk, and history: what there was to be had
  offset,  \* OffsetID of the next call
  got,     \* messages the agent has received
  again,   \* history: those it has received more than once
  page,    \* what GetMessages is going to return
  rest,    \* what of it convertMessages has still to log
  lost     \* history: rows that are missing because their write failed

agentVars   == <<pc, walk, offset, got, again, page, rest>>
historyVars == <<tableVars, sent, agentVars, lost>>

TypeOK ==
  /\ TableTypeOK
  /\ sent \in [Canonical -> SUBSET MsgIds]
  /\ pc \in [Agents -> {"idle", "paging", "convert", "ended"}]
  /\ walk \in [Agents -> Walks]
  /\ offset \in [Agents -> MsgIds \cup {0}]
  /\ got \in [Agents -> SUBSET MsgIds]
  /\ again \in [Agents -> SUBSET MsgIds]
  /\ page \in [Agents -> SUBSET MsgIds]
  /\ rest \in [Agents -> SUBSET MsgIds]
  /\ lost \in SUBSET Key

Init ==
  /\ TableInit
  /\ sent = [c \in Canonical |-> {}]
  /\ pc = [a \in Agents |-> "idle"]
  /\ walk \in [Agents -> [ref : Refs, remote : {FALSE}, floor : Floors, had : {{}}]]
  /\ offset = [a \in Agents |-> 0]
  /\ got = [a \in Agents |-> {}]
  /\ again = [a \in Agents |-> {}]
  /\ page = [a \in Agents |-> {}]
  /\ rest = [a \in Agents |-> {}]
  /\ lost = {}

Plain(c)  == {m \in sent[c] : <<c, m>> \notin Service}
Logged(r) == {m \in MsgIds : rowOf[<<r, m>>] # 0}

(* Mutation: a limit that is not given reaches the query as 0.             *)
MutNoDefault(limit) == IF limit > MaxLimit THEN MaxLimit ELSE limit

(* The clamp of the limit.                                                 *)
Effective(limit) ==
  IF limit <= 0 THEN DefaultLimit ELSE IF limit > MaxLimit THEN MaxLimit ELSE limit

(* Mutation: the limit of SQLite without ORDER BY .. DESC: the oldest.     *)
MutOldest(ids, n) == {m \in ids : Cardinality({j \in ids : j < m}) < n}

(* ORDER BY msg_id DESC LIMIT ?, and the order of Telegram's histories.    *)
Newest(ids, n) == {m \in ids : Cardinality({j \in ids : j > m}) < n}

(* Mutation: AND msg_id <= ?                                               *)
MutUpTo(ids, o) == {m \in ids : o = 0 \/ m <= o}

(* AND msg_id < ?, unless the offset is 0.                                 *)
Below(ids, o) == {m \in ids : o = 0 \/ m < o}

-----------------------------------------------------------------------------
(* What happens to the messages of a peer meanwhile.                       *)

(* Telegram's ids of a peer rise.                                          *)
Post(c, m) ==
  /\ \A j \in sent[c] : j < m
  /\ sent' = [sent EXCEPT ![c] = @ \cup {m}]
  /\ UNCHANGED <<tableVars, agentVars, lost>>

(* A successful upsertMessage.                                             *)
Write(r, m, read) ==
  /\ UpsertRow(<<r, m>>, read)
  /\ lost' = lost \ {<<r, m>>}

(* recordIncomingMessage.  Updates may be missed altogether.               *)
LiveUpdate(c, m) ==
  /\ m \in Plain(c)
  /\ \E isFromMe \in BOOLEAN : Write(c, m, isFromMe)
  /\ UNCHANGED <<sent, agentVars>>

(* One hit of a Search, or one message of a history, that another          *)
(* goroutine is converting: a global search logs canonically, the others   *)
(* under the reference of their caller.                                    *)
OtherFetch(r, m) ==
  /\ m \in Plain(ChatOf[r])
  /\ Write(r, m, TRUE)
  /\ UNCHANGED <<sent, agentVars>>

-----------------------------------------------------------------------------
(* A walk.                                                                 *)

Available(r, remote) == IF remote THEN Plain(ChatOf[r]) ELSE Logged(r)

Begin(a, r, remote, floor) ==
  /\ pc[a] \in {"idle", "ended"}
  /\ pc' = [pc EXCEPT ![a] = "paging"]
  /\ walk' = [walk EXCEPT ![a] =
       [ref |-> r, remote |-> remote, floor |-> floor,
        had |-> {m \in Available(r, remote) : m > floor}]]
  /\ offset' = [offset EXCEPT ![a] = 0]
  /\ got' = [got EXCEPT ![a] = {}]
  /\ again' = [again EXCEPT ![a] = {}]
  /\ UNCHANGED <<tableVars, sent, page, rest, lost>>

(* GetMessages returns a page to the agent.                                *)
Return(a, messages) ==
  /\ got' = [got EXCEPT ![a] = @ \cup messages]
  /\ again' = [again EXCEPT ![a] = @ \cup (got[a] \cap messages)]
  /\ \/ /\ messages = {}
        /\ pc' = [pc EXCEPT ![a] = "ended"]
        /\ UNCHANGED offset
     \/ \E oldest \in messages :
          /\ \A m \in messages : oldest <= m
          /\ pc' = [pc EXCEPT ![a] = "paging"]
          /\ offset' = [offset EXCEPT ![a] = oldest]

(* getMessagesLocal: one statement, which does not look at MinID.          *)
ReadLocal(a, limit) ==
  /\ pc[a] = "paging" /\ ~walk[a].remote
  /\ Return(a, Newest(Below(Logged(walk[a].ref), offset[a]), Effective(limit)))
  /\ UNCHANGED <<tableVars, sent, walk, page, rest, lost>>

(* MessagesGetHistory: Telegram answers with the newest messages below the *)
(* offset, those above MinID only; convertMessages skips service messages. *)
Answer(a, n) ==
  LET c == ChatOf[walk[a].ref] IN
  {m \in Newest(Below(sent[c], offset[a]), n) : m > walk[a].floor /\ m \in Plain(c)}

AskRemote(a, limit) ==
  /\ pc[a] = "paging" /\ walk[a].remote
  /\ pc' = [pc EXCEPT ![a] = "convert"]
  /\ page' = [page EXCEPT ![a] = Answer(a, Effective(limit))]
  /\ rest' = [rest EXCEPT ![a] = page'[a]]
  /\ UNCHANGED <<tableVars, sent, walk, offset, got, again, lost>>

(* One iteration of convertMessages for a message; rest loses it.          *)
Converting(a, m) ==
  /\ pc[a] = "convert"
  /\ m \in rest[a]
  /\ rest' = [rest EXCEPT ![a] = @ \ {m}]
  /\ UNCHANGED <<sent, pc, walk, offset, got, again, page>>

(* Mutation: the row goes to the canonical peer.                           *)
MutConvertCanonical(a, m) ==
  /\ Converting(a, m)
  /\ Write(ChatOf[walk[a].ref], m, TRUE)

ConvertMessage(a, m) ==
  /\ Converting(a, m)
  /\ Write(walk[a].ref, m, TRUE)

(* convertMessages ignores the error of upsertMessage.                     *)
ConvertFails(a, m) ==
  /\ Converting(a, m)
  /\ lost' = IF m \in Logged(walk[a].ref) THEN lost ELSE lost \cup {<<walk[a].ref, m>>}
  /\ UNCHANGED tableVars

ReturnRemote(a) ==
  /\ pc[a] = "convert" /\ rest[a] = {}
  /\ Return(a, page[a])
  /\ page' = [page EXCEPT ![a] = {}]
  /\ UNCHANGED <<tableVars, sent, walk, rest, lost>>

(* The agent gives up, or the process stops and the agent with it.         *)
Abandon(a) ==
  /\ pc[a] \in {"paging", "convert"}
  /\ pc' = [pc EXCEPT ![a] = "idle"]
  /\ walk' = [walk EXCEPT ![a].had = {}]
  /\ offset' = [offset EXCEPT ![a] = 0]
  /\ got' = [got EXCEPT ![a] = {}]
  /\ again' = [again EXCEPT ![a] = {}]
  /\ page' = [page EXCEPT ![a] = {}]
  /\ rest' = [rest EXCEPT ![a] = {}]
  /\ UNCHANGED <<tableVars, sent, lost>>

-----------------------------------------------------------------------------
Call(a) ==
  \/ \E limit \in Limits : ReadLocal(a, limit) \/ AskRemote(a, limit)
  \/ \E m \in MsgIds : ConvertMessage(a, m) \/ ConvertFails(a, m)
  \/ ReturnRemote(a)

Meanwhile ==
  \/ \E c \in Canonical, m \in MsgIds : Post(c, m) \/ LiveUpdate(c, m)
  \/ \E r \in Refs, m \in MsgIds : OtherFetch(r, m)

Next ==
  \/ Meanwhile
  \/ \E a \in Agents :
       \/ \E r \in Refs, remote \in BOOLEAN, floor \in Floors : Begin(a, r, remote, floor)
       \/ Call(a)
       \/ Abandon(a)

Spec == Init /\ [][Next]_historyVars

(* A goroutine inside GetMessages goes on, and an agent that walks keeps   *)
(* calling; a call it repeats does not fail for ever.                      *)
FairSpec == Spec /\ \A a \in Agents : WF_historyVars(Call(a))

-----------------------------------------------------------------------------
(* Properties.                                                             *)

Walking(a)   == pc[a] # "idle"
Passed(a, m) == offset[a] # 0 /\ m >= offset[a]

(* The pages of a walk meet without gap and overlap: of the messages that  *)
(* were there when it began, the agent has received exactly those from the *)
(* offset on, and none twice, although newer messages push older ones down *)
(* and rows appear out of order on both sides of the offset.               *)
WalkHasNoHoles ==
  \A a \in Agents : Walking(a) =>
    /\ again[a] = {}
    /\ \A m \in walk[a].had : m \in got[a] <=> Passed(a, m)

Left(a) == {m \in walk[a].had : ~Passed(a, m)}

(* A service message of the peer below the offset and above all that is    *)
(* left: GetMessages drops it, and when nothing else was on the page an    *)
(* agent takes the empty result for the end of the history.                *)
Hides(a, s) ==
  LET c == ChatOf[walk[a].ref] IN
  /\ <<c, s>> \in Service /\ s \in Below(sent[c], offset[a])
  /\ \A m \in Left(a) : m < s

(* An empty page means that the walk is complete: all messages that were   *)
(* there have been received.  Always so for the local log; for Telegram's  *)
(* history unless a service message hides what is left.                    *)
EmptyPageIsTheEnd ==
  \A a \in Agents : pc[a] = "ended" =>
    \/ Left(a) = {}
    \/ walk[a].remote /\ \E s \in MsgIds : Hides(a, s)

(* Every message that GetMessages has fetched is in the log, under the     *)
(* reference the agent used, so that a walk with FromLocal finds it (and   *)
(* updates missed while disconnected are made up for); except one whose    *)
(* write failed silently.                                                  *)
FetchedIsLogged ==
  \A a \in Agents : Walking(a) /\ walk[a].remote =>
    \A m \in got[a] : m \in Logged(walk[a].ref) \/ <<walk[a].ref, m>> \in lost

(* A walk that is not given up reaches its end.                            *)
WalkEnds == \A a \in Agents : pc[a] = "paging" ~> pc[a] \in {"ended", "idle"}

=============================================================================
