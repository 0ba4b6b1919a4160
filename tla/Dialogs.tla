------------------------------- MODULE Dialogs -------------------------------
(***************************************************************************)
(* ListChats, and what an agent does with its result: it refers to a chat  *)
(* in a later call, in some spelling.                                      *)
(*                                                                         *)
(* ListChats joins the dialogs of Telegram's answer with the users, chats  *)
(* and top messages that come beside them, puts the objects into the peer  *)
(* cache, filters and sorts.  Live updates fill the same cache meanwhile,  *)
(* from gotd's goroutines.  What a listed dialog writes to the log is in   *)
(* MessageLog, how a username is resolved in Writes.                       *)
(*                                                                         *)
(* Assumed of Telegram: the objects beside a dialog list are full ones.    *)
(* The code does not look at Min, neither when it puts an object into the  *)
(* cache (resolve.go:34-35) nor when it joins (chats.go:47-61), so a min   *)
(* object in an answer would be listed, and kept, like a full one.  Min    *)
(* objects come with live updates here.                                    *)
(***************************************************************************)
EXTENDS PeerRef

CONSTANTS
  Peers,    \* pairs of a kind and an id
  Answers,  \* what MessagesGetDialogs may answer
  Filters,  \* the four Only... fields of ChatListParams
  Inputs    \* references an agent may use

(* A dialog has a peer, an unread count and the date of its top message,   *)
(* 0 when the answer has no such message or it is a service message.       *)
(* objects are the users and chats beside the dialogs, in their order.     *)
Dialog == [peer : Peers, unread : Nat, top : Nat]
Answer == [dialogs : Seq(Dialog), objects : Seq(Peers)]

ASSUME PeersAssumption == Peers \subseteq Kinds \X Ids
ASSUME InputsAssumption ==
  /\ Answers \subseteq Answer
  /\ Filters \subseteq [unread : BOOLEAN, direct : BOOLEAN, groups : BOOLEAN, channels : BOOLEAN]
  /\ Inputs \subseteq Seq(Tokens)

(* Telegram lists a peer once.                                             *)
ASSUME AnswersAssumption ==
  \A a \in Answers : \A i, j \in DOMAIN a.dialogs :
    a.dialogs[i].peer = a.dialogs[j].peer => i = j

VARIABLES
  cache,    \* c.peers.users and c.peers.channels: "none", "min" for an object
            \* without a usable access hash, "full"
  pc,       \* where the agent's call is
  answer,   \* Telegram's answer and the filter of the call
  filter,
  pos,      \* the dialog the loop is at
  out,      \* the result of ListChats
  known,    \* history: peers ListChats has returned with their object
  spoiled,  \* history: peers a live update has brought a min object of since
            \* the call last put theirs into the cache
  input,    \* the reference of the last call
  verdict   \* what inputPeer makes of it

vars == <<cache, pc, answer, filter, pos, out, known, spoiled, input, verdict>>

(* Legacy chats have no access hash; the objects of theirs that the cache  *)
(* keeps as well are left out.                                             *)
Hashed  == {p \in Peers : p[1] # "chat"}
Nothing == [dialogs |-> <<>>, objects |-> <<>>]
NoFilter == [unread |-> FALSE, direct |-> FALSE, groups |-> FALSE, channels |-> FALSE]
Entry   == [peer : Peers, titled : BOOLEAN, unread : Nat, at : Nat]
Verdicts == {"none", "invalid", "ask", "missing", "min", "full"}

TypeOK ==
  /\ cache \in [Hashed -> {"none", "min", "full"}]
  /\ pc \in {"idle", "loop", "listed", "referred"}
  /\ answer \in Answers \cup {Nothing}
  /\ filter \in Filters \cup {NoFilter}
  /\ pos \in Nat \ {0}
  /\ out \in Seq(Entry)
  /\ known \in SUBSET Peers
  /\ spoiled \in SUBSET Peers
  /\ input \in Inputs \cup {<<>>}
  /\ verdict \in Verdicts

Init ==
  /\ cache = [p \in Hashed |-> "none"]
  /\ pc = "idle"
  /\ answer = Nothing
  /\ filter = NoFilter
  /\ pos = 1
  /\ out = <<>>
  /\ known = {}
  /\ spoiled = {}
  /\ input = <<>>
  /\ verdict = "none"

-----------------------------------------------------------------------------
(* ListChats.                                                              *)

(* Mutation: what is in the cache stays there.                             *)
MutKeepsOld(S) == [p \in Hashed |-> IF p \in S /\ cache[p] = "none" THEN "full" ELSE cache[p]]

(* Mutation: channels are not kept.                                        *)
MutUsersOnly(S) == [p \in Hashed |-> IF p \in S /\ p[1] = "user" THEN "full" ELSE cache[p]]

(* ingestUsers and ingestChats: a new object wins; those of an answer are  *)
(* full ones, by assumption.                                               *)
Ingested(S) == [p \in Hashed |-> IF p \in S THEN "full" ELSE cache[p]]

(* Mutation: one map for all objects.                                      *)
MutOneMap(p) == p[2]

(* userByID has its own ids; legacy chats and channels share chatByID.     *)
Slot(p) == <<p[1] = "user", p[2]>>

(* The objects found for a dialog: none or one, the last of its slot.      *)
ObjectOf(a, p) ==
  LET at == {i \in DOMAIN a.objects : Slot(a.objects[i]) = Slot(p)} IN
  {a.objects[i] : i \in {j \in at : \A k \in at : k <= j}}

(* Mutation: without its object a chat has no peer either.                 *)
MutZeroPeer(a, d) ==
  LET found == ObjectOf(a, d.peer) IN
  [peer   |-> IF found = {} THEN <<"", 0>> ELSE CHOOSE o \in found : TRUE,
   titled |-> found # {},
   unread |-> d.unread,
   at     |-> d.top]

(* Without its object a chat has neither a title nor a name.               *)
EntryOf(a, d) ==
  LET found == ObjectOf(a, d.peer) IN
  [peer   |-> IF found = {} THEN d.peer ELSE CHOOSE o \in found : TRUE,
   titled |-> found # {},
   unread |-> d.unread,
   at     |-> d.top]

(* applyChatFilter                                                         *)
Passes(f, kind, unread) ==
  /\ f.unread   => unread # 0
  /\ f.direct   => kind = "user"
  /\ f.groups   => kind \in {"chat", "channel"}
  /\ f.channels => kind = "channel"

(* The order of sort.SliceStable: the most recent activity first, and what *)
(* is equally recent as it was.                                            *)
Before(s, i, j) == s[i].at > s[j].at \/ (s[i].at = s[j].at /\ i < j)

IsSorted(s, t) ==
  \E place \in [DOMAIN s -> DOMAIN s] :
    /\ \A i, j \in DOMAIN s : i # j => (place[i] < place[j] <=> Before(s, i, j))
    /\ \A k \in DOMAIN s : \E i \in DOMAIN s : place[i] = k /\ t[k] = s[i]

AgentVars == <<input, verdict>>

(* The call, up to its loop over the dialogs of the answer.  A call that   *)
(* gets no answer returns its error and changes nothing.                   *)
List(a, f) ==
  /\ pc = "idle"
  /\ pc' = "loop"
  /\ answer' = a
  /\ filter' = f
  /\ pos' = 1
  /\ cache' = Ingested({a.objects[i] : i \in DOMAIN a.objects})
  /\ spoiled' = {}
  /\ UNCHANGED <<out, known, AgentVars>>

(* One dialog.  peerFromTGUser and peerFromTGChat put the object of the    *)
(* answer into the cache again.                                            *)
Item ==
  /\ pc = "loop"
  /\ pos <= Len(answer.dialogs)
  /\ LET d     == answer.dialogs[pos]
         e     == EntryOf(answer, d)
         found == ObjectOf(answer, d.peer) IN
       /\ cache' = Ingested(found)
       /\ spoiled' = spoiled \ found
       /\ out' = IF Passes(filter, e.peer[1], e.unread) THEN Append(out, e) ELSE out
  /\ pos' = pos + 1
  /\ UNCHANGED <<pc, answer, filter, known, AgentVars>>

ReturnList ==
  /\ pc = "loop"
  /\ pos > Len(answer.dialogs)
  /\ pc' = "listed"
  /\ \E t \in [DOMAIN out -> {out[i] : i \in DOMAIN out}] :
       IsSorted(out, t) /\ out' = t
  /\ known' = known \cup {out[i].peer : i \in {j \in DOMAIN out : out[j].titled}}
  /\ UNCHANGED <<cache, answer, filter, pos, spoiled, AgentVars>>

-----------------------------------------------------------------------------
(* inputPeer, as far as it needs no request.                               *)

(* What inputPeer makes of a reference that has been parsed.  Legacy chats *)
(* need no access hash and are not looked up.                              *)
Look(ref) ==
  IF ref = <<>> THEN "invalid"
  ELSE IF ref[1] = At THEN "ask"
  ELSE IF ref[1] = "chat" THEN "full"
  ELSE IF ref \notin Hashed \/ cache[ref] = "none" THEN "missing"
  ELSE cache[ref]

Refer(in) ==
  /\ pc = "idle"
  /\ pc' = "referred"
  /\ input' = in
  /\ verdict' = Look(ParsePeerID(in))
  /\ UNCHANGED <<cache, answer, filter, pos, out, known, spoiled>>

(* The agent has seen the result.                                          *)
NextCall ==
  /\ pc \in {"listed", "referred"}
  /\ pc' = "idle"
  /\ answer' = Nothing
  /\ filter' = NoFilter
  /\ pos' = 1
  /\ out' = <<>>
  /\ spoiled' = {}
  /\ input' = <<>>
  /\ verdict' = "none"
  /\ UNCHANGED <<cache, known>>

-----------------------------------------------------------------------------
(* ingestEntities: a live update brings the object of a peer, which may be *)
(* a min one.  An update that comes while the agent looks at a result is   *)
(* one that comes right after.                                             *)
LiveUpdate(p, object) ==
  /\ pc \in {"idle", "loop"}
  /\ cache' = [cache EXCEPT ![p] = object]
  /\ spoiled' = IF object = "full" THEN spoiled \ {p}
                ELSE IF pc = "loop" THEN spoiled \cup {p} ELSE spoiled
  /\ UNCHANGED <<pc, answer, filter, pos, out, known, AgentVars>>

Next ==
  \/ \E a \in Answers, f \in Filters : List(a, f)
  \/ Item
  \/ ReturnList
  \/ \E in \in Inputs : Refer(in)
  \/ NextCall
  \/ \E p \in Hashed, object \in {"min", "full"} : LiveUpdate(p, object)

Spec == Init /\ [][Next]_vars

-----------------------------------------------------------------------------
(* Properties.                                                             *)

(* No other kind has the id of p in the current answer.                    *)
Unshared(p) ==
  \A q \in Peers :
    p[1] # "user" /\ q[1] # "user" /\ q[2] = p[2] /\ q # p =>
      /\ \A i \in DOMAIN answer.objects : answer.objects[i] # q
      /\ \A i \in DOMAIN answer.dialogs : answer.dialogs[i].peer # q

(* "ListChats returns the dialog list (DMs, groups, channels) ordered by   *)
(* most recent activity" (chats.go:12): whatever the objects that come     *)
(* with them, a dialog is in the list if and only if it passes every       *)
(* filter, once, under its own peer, with its own count, and dialogs that  *)
(* are equally recent keep Telegram's order.  Excepted are dialogs whose   *)
(* id a legacy chat and a channel share.                                   *)
ListIsFaithful ==
  pc = "listed" =>
    /\ \A i, j \in DOMAIN out : i < j => out[i].at >= out[j].at
    /\ \A k \in DOMAIN answer.dialogs :
         LET d    == answer.dialogs[k]
             mine == {i \in DOMAIN out : out[i].peer = d.peer} IN
         Unshared(d.peer) =>
           /\ mine # {} <=> Passes(filter, d.peer[1], d.unread)
           /\ \A i, j \in mine : i = j
           /\ \A i \in mine : out[i].unread = d.unread /\ out[i].at = d.top
           /\ \A l \in 1..(k - 1) : \A i \in mine, j \in DOMAIN out :
                /\ Unshared(answer.dialogs[l].peer)
                /\ out[j].peer = answer.dialogs[l].peer
                /\ out[i].at = out[j].at
                => j < i

(* resolve.go:114, "call ListChats or ResolveContact first": the ID of a   *)
(* chat that ListChats has just returned with its object stands for a peer *)
(* in the cache, with a usable access hash.  Min objects that were there   *)
(* before are repaired, and only one that arrives after the chat's turn in *)
(* the loop can undo it.                                                   *)
ListedPeerIsUsable ==
  pc = "listed" =>
    \A i \in DOMAIN out :
      LET p == out[i].peer IN
      out[i].titled /\ p \notin spoiled => Look(ParsePeerID(FormatPeerID(p[1], p[2]))) = "full"

(* A peer that ListChats has once returned with its object is found by     *)
(* every later call, whichever spelling the agent uses and whatever came   *)
(* into the cache since.                                                   *)
ListedPeerIsFound ==
  pc = "referred" /\ ParsePeerID(input) \in known => verdict \in {"min", "full"}

-----------------------------------------------------------------------------
(* The spellings the comment of NormalizePeerID has in mind: a pair or a   *)
(* name, possibly as a link, with blanks around it and next to the colon.  *)

(* What is neither a blank nor a link in front.                            *)
Solid(s) == {i \in DOMAIN s : s[i] # Space}
Body(s)  == {i \in Solid(s) : s[i] = Link => \E j \in Solid(s) : j < i}

IsPair(s, p) ==
  \E i, j, m \in Body(s) :
    /\ Body(s) = {i, j, m}
    /\ i < j /\ j < m
    /\ s[i] \in Words /\ Lower[s[i]] = p[1]
    /\ s[j] = Colon
    /\ s[m] \in Numerals /\ Value[s[m]] = p[2]

IsName(s, name) ==
  \E link \in {<<>>, <<Link>>}, at \in {<<>>, <<At>>}, slash \in {<<>>, <<Slash>>} :
    Trim(s) = link \o at \o <<name>> \o slash

(* ParsePeerID gives exactly the spellings of a peer or of a username that *)
(* meaning, so that no caller of it (inputPeer, the log) takes one peer    *)
(* for another.                                                            *)
SpellingIsUnderstood ==
  /\ \A p \in Peers : ParsePeerID(input) = p <=> IsPair(input, p)
  /\ \A name \in Usernames : ParsePeerID(input) = <<At, name>> <=> IsName(input, name)

(* The methods normalise what is normalised already (GetMessages for its   *)
(* log, its local read and its request): the normal form is final, and has *)
(* the meaning of the reference it was made from.                          *)
NormalIsFinal ==
  LET norm == NormalizePeerID(input) IN
  NormalizePeerID(norm) = norm /\ ParsePeerID(norm) = ParsePeerID(input)

WrittenAsListed(s, p) == \A i \in DOMAIN s : s[i] \in Numerals => s[i] = Decimal[p[2]]

(* A list of allowed peers in any spelling lets pass the ID of a peer as   *)
(* ListChats returns it if and only if an entry names that peer, provided  *)
(* the entry's number is written as strconv.FormatInt writes it.  A list   *)
(* of unrecognised entries only is none (telegram_test.go:49-54).          *)
AllowlistKnowsSpellings ==
  \A p, q \in Peers :
    LET passes == RecipientAllowed({input}, FormatPeerID(q[1], q[2])) IN
    /\ ParsePeerID(input) = p /\ WrittenAsListed(input, p) => (passes <=> p = q)
    /\ ParsePeerID(input) = <<>> => passes
=============================================================================
