-------------------------------- MODULE Writes --------------------------------
(***************************************************************************)
(* The methods that change something at Telegram (SendMessage, SendMedia,  *)
(* React, JoinChat, LeaveChat, MarkRead), ResolveContact, and what they    *)
(* share: the confirm gate, the allowlist, dry-run, withAPI, the peer      *)
(* cache and the resolution of a reference to a peer.                      *)
(*                                                                         *)
(* A caller is a goroutine of the host on behalf of an agent.  Every use   *)
(* of the cache and every request to Telegram is a step of its own.        *)
(* Between two of them other callers and live updates may fill the cache,  *)
(* the connection may go away, and a username may get another owner.       *)
(*                                                                         *)
(* What happens to the local log after MarkRead has succeeded is in module *)
(* MessageLog; what makes withAPI answer what it answers, in Lifecycle.    *)
(***************************************************************************)
EXTENDS Naturals, FiniteSets

CONSTANTS
  Callers,     \* goroutines of the host
  Users,       \* "user:<id>": a peer and the reference that names it
  Chats,       \* "chat:<id>"
  Channels,    \* "channel:<id>"
  Usernames,   \* "@name"
  Ops,         \* the methods that are called
  Options,     \* what New may be called with
  None         \* Go's nil, no peer

Sends       == {"SendMessage", "SendMedia", "React"}
ChannelOnly == {"JoinChat", "LeaveChat"}
Methods     == Sends \cup ChannelOnly \cup {"MarkRead", "ResolveContact"}

Peers == Users \cup Chats \cup Channels
Refs  == Peers \cup Usernames

ASSUME KindsAssumption ==
  /\ Users \cap Chats = {} /\ Users \cap Channels = {} /\ Chats \cap Channels = {}
  /\ Peers \cap Usernames = {}
  /\ None \notin Refs
ASSUME OpsAssumption == Ops \subseteq Methods
ASSUME OptionsAssumption ==
  Options \subseteq [confirmWrites : BOOLEAN, dryRun : BOOLEAN, allowed : SUBSET Refs]

VARIABLES
  (* Options of the client, fixed by New. *)
  confirmWrites,  \* c.confirmWrites
  dryRun,         \* c.dryRun
  allowed,        \* c.allowedPeers, empty when there is no allowlist
  (* The client. *)
  reach,          \* what withAPI answers before it calls its argument
  cached,         \* peers in c.peers
  (* What the host has learnt. *)
  named,          \* history: the peer Telegram has named for the username
                  \* of a call, None before it has
  told,           \* history: the peers ResolveContact has returned
  (* The callers. *)
  pc,             \* where a caller is
  call,           \* the method it executes or executed last
  handle,         \* the InputPeer it has formed
  result,         \* what its last method returned, "none" inside a method
  took            \* history: how often what it wants was done by Telegram

options == <<confirmWrites, dryRun, allowed>>
vars == <<confirmWrites, dryRun, allowed, reach, cached, named, told,
          pc, call, handle, result, took>>

Calls   == [op : Ops, ref : Refs]
ASSUME NoneAssumption == None \notin Calls

Reaches == {"ok", "ErrNotConnected", "ErrClosed"}
Errors  == {"ErrInvalidParams", "ErrConfirmRequired", "ErrPeerNotAllowed",
            "ErrNotConnected", "ErrClosed", "ErrNotFound", "ErrRequest", "ErrSendFailed"}

TypeOK ==
  /\ confirmWrites \in BOOLEAN
  /\ dryRun \in BOOLEAN
  /\ allowed \in SUBSET Refs
  /\ reach \in Reaches
  /\ cached \in SUBSET Peers
  /\ named \in [Callers -> Peers \cup {None}]
  /\ told \in SUBSET Peers
  /\ pc \in [Callers -> {"idle", "lookup", "ask", "upload", "send", "answer"}]
  /\ call \in [Callers -> Calls \cup {None}]
  /\ handle \in [Callers -> Peers \cup {None}]
  /\ result \in [Callers -> Errors \cup {"nil", "none"}]
  /\ took \in [Callers -> Nat]

Init ==
  /\ \E o \in Options :
       /\ confirmWrites = o.confirmWrites
       /\ dryRun = o.dryRun
       /\ allowed = o.allowed
  /\ reach = "ErrNotConnected"
  /\ cached = {}
  /\ named = [p \in Callers |-> None]
  /\ told = {}
  /\ pc = [p \in Callers |-> "idle"]
  /\ call = [p \in Callers |-> None]
  /\ handle = [p \in Callers |-> None]
  /\ result = [p \in Callers |-> "none"]
  /\ took = [p \in Callers |-> 0]

-----------------------------------------------------------------------------
(* Helpers.                                                                *)

(* The method goes on; it has no result yet.                               *)
Goto(p, step) ==
  /\ pc' = [pc EXCEPT ![p] = step]
  /\ result' = [result EXCEPT ![p] = "none"]

(* The method returns and its locals go out of scope.                      *)
Return(p, answer) ==
  /\ pc' = [pc EXCEPT ![p] = "idle"]
  /\ result' = [result EXCEPT ![p] = answer]
  /\ handle' = [handle EXCEPT ![p] = None]

(* A new call, for which Telegram has named nobody yet.                    *)
Begin(p, c) ==
  /\ call' = [call EXCEPT ![p] = c]
  /\ named' = [named EXCEPT ![p] = None]

clientVars == <<options, reach, cached>>
learntVars == <<named, told>>

-----------------------------------------------------------------------------
(* The gates, in the order of the methods.                                 *)

(* requireConfirm                                                          *)
Confirmed(confirm) == ~confirmWrites \/ confirm

(* recipientAllowed, which only the three methods that send call           *)
RecipientAllowed(c) == c.op \notin Sends \/ allowed = {} \/ c.ref \in allowed

(* Mutation: SendMedia does not consult the allowlist.                     *)
MutForgetsList(c, confirm) ==
  IF ~Confirmed(confirm) THEN "ErrConfirmRequired"
  ELSE IF c.op # "SendMedia" /\ ~RecipientAllowed(c) THEN "ErrPeerNotAllowed"
  ELSE IF dryRun THEN "nil"
  ELSE reach

(* What a write answers at once, "ok" when it goes on.                     *)
Verdict(c, confirm) ==
  IF ~Confirmed(confirm) THEN "ErrConfirmRequired"
  ELSE IF ~RecipientAllowed(c) THEN "ErrPeerNotAllowed"
  ELSE IF dryRun THEN "nil"
  ELSE reach

(* A write, up to the point where it enters the function withAPI runs.  A  *)
(* reference that is not well-formed, an empty body, a message id that is  *)
(* not positive and a file that cannot be sent are refused before anything *)
(* else is looked at.                                                      *)
Issue(p, c) ==
  /\ Begin(p, c)
  /\ \/ Return(p, "ErrInvalidParams")
     \/ \E confirm \in BOOLEAN :
          IF Verdict(c, confirm) = "ok" THEN Goto(p, "lookup") /\ UNCHANGED handle
                                        ELSE Return(p, Verdict(c, confirm))
  /\ UNCHANGED <<clientVars, told>>

(* The agent wants something new.                                          *)
Write(p, c) ==
  /\ pc[p] = "idle"
  /\ c.op # "ResolveContact"
  /\ Issue(p, c)
  /\ took' = [took EXCEPT ![p] = 0]

(* Errors after which nothing has happened at Telegram.  Only the sending  *)
(* methods tell a failed resolution from a failed request.                 *)
SafeToRetry(p) ==
  /\ result[p] \in Errors \ {"ErrSendFailed"}
  /\ call[p].op \in Sends \/ result[p] # "ErrRequest"

(* The agent repeats a call that it knows not to have happened.            *)
Retry(p) ==
  /\ pc[p] = "idle"
  /\ SafeToRetry(p)
  /\ call[p].op # "ResolveContact"
  /\ Issue(p, call[p])
  /\ UNCHANGED took

-----------------------------------------------------------------------------
(* inputPeer.                                                              *)

(* Mutation: the InputPeer is made of the reference, not of what it names. *)
MutHandleOfRef(p, peer) ==
  /\ handle' = [handle EXCEPT ![p] = call[p].ref]
  /\ Goto(p, IF call[p].op = "SendMedia" THEN "upload" ELSE "send")

(* What a write does with the InputPeer it has formed.                     *)
HaveHandle(p, peer) ==
  IF call[p].op \in ChannelOnly /\ peer \notin Channels
    THEN Return(p, "ErrInvalidParams")
    ELSE /\ handle' = [handle EXCEPT ![p] = peer]
         /\ Goto(p, IF call[p].op = "SendMedia" THEN "upload" ELSE "send")

(* A numeric reference.  Legacy chats need no access hash.                 *)
LookupPeer(p) ==
  LET peer == call[p].ref IN
    /\ pc[p] = "lookup"
    /\ peer \in Peers
    /\ IF peer \in cached \cup Chats
         THEN HaveHandle(p, peer)
         ELSE Return(p, "ErrNotFound")
    /\ UNCHANGED <<clientVars, learntVars, call, took>>

(* A username: resolveUsername calls withAPI again.                        *)
LookupUsername(p) ==
  /\ pc[p] = "lookup"
  /\ call[p].ref \in Usernames
  /\ IF reach = "ok" THEN Goto(p, "ask") /\ UNCHANGED handle ELSE Return(p, reach)
  /\ UNCHANGED <<clientVars, learntVars, call, took>>

(* Telegram's answer to ContactsResolveUsername names the peer that has    *)
(* the username at that moment and may come without the object of that     *)
(* peer.  The objects go into the cache, from which the InputPeer is       *)
(* formed.                                                                 *)
AnswerNames(p, peer) ==
  /\ pc[p] = "ask"
  /\ call[p].ref \in Usernames
  /\ cached' \in {cached, cached \cup {peer}}
  /\ named' = [named EXCEPT ![p] = peer]

Resolved(p, peer) ==
  /\ AnswerNames(p, peer)
  /\ call[p].op # "ResolveContact"
  /\ IF peer \in cached' \cup Chats
       THEN HaveHandle(p, peer)
       ELSE Return(p, "ErrNotFound")
  /\ UNCHANGED <<options, reach, told, call, took>>

-----------------------------------------------------------------------------
(* ResolveContact.  A numeric reference is looked up in the cache alone.   *)

ResolveContact(p, c) ==
  /\ pc[p] = "idle"
  /\ c.op = "ResolveContact"
  /\ Begin(p, c)
  /\ took' = [took EXCEPT ![p] = 0]
  /\ \/ /\ c.ref \in cached
        /\ Return(p, "nil")
        /\ told' = told \cup {c.ref}
     \/ /\ \/ c.ref \in Peers \ cached /\ Return(p, "ErrNotFound")
           \/ c.ref \in Usernames /\ reach = "ok" /\ Goto(p, "ask") /\ UNCHANGED handle
           \/ c.ref \in Usernames /\ reach # "ok" /\ Return(p, reach)
        /\ UNCHANGED told
  /\ UNCHANGED clientVars

(* Mutation: the peer is built from the answer and not kept in the cache.  *)
MutNotIngested(p, peer) ==
  /\ pc[p] = "ask"
  /\ call[p].ref \in Usernames
  /\ call[p].op = "ResolveContact"
  /\ named' = [named EXCEPT ![p] = peer]
  /\ Return(p, "nil")
  /\ told' = told \cup {peer}
  /\ UNCHANGED <<clientVars, call, took>>

ContactResolved(p, peer) ==
  /\ AnswerNames(p, peer)
  /\ call[p].op = "ResolveContact"
  /\ IF peer \in cached'
       THEN Return(p, "nil") /\ told' = told \cup {peer}
       ELSE Return(p, "ErrNotFound") /\ UNCHANGED told
  /\ UNCHANGED <<options, reach, call, took>>

-----------------------------------------------------------------------------
(* The requests of a write.                                                *)

Uploaded(p) ==
  /\ pc[p] = "upload"
  /\ Goto(p, "send")
  /\ UNCHANGED <<clientVars, learntVars, call, handle, took>>

(* Telegram does what it is asked to.                                      *)
Perform(p) ==
  /\ pc[p] = "send"
  /\ Goto(p, "answer")
  /\ took' = [took EXCEPT ![p] = @ + 1]
  /\ UNCHANGED <<clientVars, learntVars, call, handle>>

Answered(p) ==
  /\ pc[p] = "answer"
  /\ Return(p, "nil")
  /\ UNCHANGED <<clientVars, learntVars, call, took>>

(* Mutation: a failed request is reported like a failed resolution.        *)
MutUnwrapped(p) == "ErrRequest"

(* The error of a failed request.                                          *)
Failure(p) ==
  IF pc[p] # "ask" /\ call[p].op \in Sends THEN "ErrSendFailed" ELSE "ErrRequest"

(* Mutation: a lost answer is taken for a success.                         *)
MutIgnoresFailure(p) ==
  /\ pc[p] \in {"ask", "upload", "send", "answer"}
  /\ Return(p, IF pc[p] \in {"send", "answer"} THEN "nil" ELSE Failure(p))
  /\ UNCHANGED <<clientVars, learntVars, call, took>>

(* Telegram refuses, the connection has gone, or the ctx of the call is    *)
(* done: before the request was performed, or with its answer on the way.  *)
RequestFails(p) ==
  /\ pc[p] \in {"ask", "upload", "send", "answer"}
  /\ Return(p, Failure(p))
  /\ UNCHANGED <<clientVars, learntVars, call, took>>

-----------------------------------------------------------------------------
(* The surroundings.                                                       *)

(* Another answer or a live update brings the object of a peer, which      *)
(* ingestUsers or ingestChats puts into the cache.  Nothing is ever taken  *)
(* out of it.                                                              *)
Ingest(peer) ==
  /\ peer \notin cached
  /\ cached' = cached \cup {peer}
  /\ UNCHANGED <<options, reach, learntVars, pc, call, handle, result, took>>

(* Connect, Disconnect, Close and the end of a session.                    *)
ReachChanges(answer) ==
  /\ reach # "ErrClosed"
  /\ reach' = answer
  /\ UNCHANGED <<options, cached, learntVars, pc, call, handle, result, took>>

-----------------------------------------------------------------------------
CallerStep(p) ==
  \/ \E c \in Calls : Write(p, c) \/ ResolveContact(p, c)
  \/ Retry(p)
  \/ LookupPeer(p) \/ LookupUsername(p)
  \/ \E peer \in Peers : Resolved(p, peer) \/ ContactResolved(p, peer)
  \/ Uploaded(p) \/ Perform(p) \/ Answered(p) \/ RequestFails(p)

Next ==
  \/ \E p \in Callers : CallerStep(p)
  \/ \E peer \in Peers : Ingest(peer)
  \/ \E answer \in Reaches : ReachChanges(answer)

Spec == Init /\ [][Next]_vars

-----------------------------------------------------------------------------
(* Properties.                                                             *)

(* The peer the reference of a call stands for: the one it names itself,   *)
(* or the one Telegram has named for this very call.                       *)
Meant(p) == IF call[p].ref \in Peers THEN call[p].ref ELSE named[p]

(* What Telegram does on behalf of a caller passed every gate and is done  *)
(* to the peer the caller meant: nothing on a dry-run, a send only for a   *)
(* reference on the allowlist (README.md:101, "sends are denied for        *)
(* off-list peers"), a Join or Leave only of a channel, and every write to *)
(* the peer Telegram named in the same call, however usernames change      *)
(* hands and whatever other callers put into the cache meanwhile.  The     *)
(* comments at telegram.go:4-9 and telegram.go:130 promise the allowlist   *)
(* for all write methods; Join, Leave and MarkRead do not consult it.      *)
WritesArePermitted ==
  \A p \in Callers : took[p] > 0 /\ pc[p] # "idle" =>
    /\ ~dryRun
    /\ handle[p] = Meant(p)
    /\ call[p].op \in Sends /\ allowed # {} => call[p].ref \in allowed
    /\ call[p].op \in ChannelOnly => handle[p] \in Channels

(* An agent that repeats a write only after an error that says it did not  *)
(* happen never makes it happen twice: the errors of a lost answer are     *)
(* told from those of a refused gate, a missing peer or a failed           *)
(* resolution.                                                             *)
RetryNeverRepeats == \A p \in Callers : took[p] <= 1

(* A write that returns nil has happened, unless the client is on dry-run. *)
NilMeansDone ==
  \A p \in Callers :
    pc[p] = "idle" /\ result[p] = "nil" /\ call[p].op # "ResolveContact"
      => dryRun \/ took[p] = 1

(* resolve.go:114, "call ListChats or ResolveContact first": once          *)
(* ResolveContact has returned a peer to anyone, nobody who uses its       *)
(* canonical reference gets ErrNotFound any more, across all later         *)
(* connections; a caller with that result has had it since before.         *)
KnownPeerIsFound ==
  [][\A p \in Callers :
       result'[p] = "ErrNotFound" /\ call'[p].ref \in told
         => pc[p] = "idle" /\ result[p] = "ErrNotFound" /\ call[p] = call'[p]]_vars

-----------------------------------------------------------------------------
(* What an agent has been told of its write, as module Contract sees it.   *)

WordOf(p) ==
  IF call[p] = None \/ call[p].op = "ResolveContact" THEN "none"
  ELSE IF pc[p] # "idle" THEN "pending"
  ELSE IF result[p] = "nil" THEN "done"
  ELSE IF SafeToRetry(p) THEN "refused"
  ELSE "doubt"

Words == [p \in Callers |-> WordOf(p)]

Promised == INSTANCE Contract WITH dry <- dryRun, word <- Words, done <- took

(* The methods keep that contract: what happens at Telegram, the result of *)
(* the call and its repetitions fit at every moment, with lost answers,    *)
(* failing resolutions and a connection that goes away half-way.           *)
ContractIsKept == Promised!Spec
=============================================================================
