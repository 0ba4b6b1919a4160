----------------------------- MODULE WritesProofs -----------------------------
(***************************************************************************)
(* Writes for any number of callers, peers and usernames, any allowlist    *)
(* and any options.  The argument follows a call from its gate to its      *)
(* result: what a caller has ahead of it tells what Telegram has done for  *)
(* it so far, what Telegram has named for it stays its own, and what       *)
(* others do meanwhile only adds to the cache.                             *)
(***************************************************************************)
EXTENDS Writes, TLAPS

(* What a call that has passed the gates knows.                            *)
PastGates(p) ==
  pc[p] # "idle" /\ call[p].op # "ResolveContact"
    => ~dryRun /\ RecipientAllowed(call[p])

(* The InputPeer a request is made with.                                   *)
HandleIsRight(p) ==
  pc[p] \in {"upload", "send", "answer"} =>
    /\ call[p].op # "ResolveContact"
    /\ handle[p] = Meant(p)
    /\ call[p].op \in ChannelOnly => handle[p] \in Channels

(* Where a caller is tells how often its write has happened.               *)
TookSoFar(p) ==
  /\ pc[p] \in {"lookup", "ask", "upload", "send"} => took[p] = 0
  /\ pc[p] = "answer" => took[p] = 1
  /\ pc[p] = "idle" => took[p] <= 1
  /\ pc[p] = "idle" /\ SafeToRetry(p) => took[p] = 0
  /\ pc[p] = "idle" /\ result[p] = "nil" /\ call[p].op # "ResolveContact"
       => dryRun \/ took[p] = 1

CallerOK(p) ==
  /\ pc[p] # "idle" \/ result[p] # "none" => call[p] \in Calls
  /\ pc[p] # "idle" => result[p] = "none"
  /\ pc[p] = "lookup" => call[p].op # "ResolveContact"
  /\ pc[p] = "ask" => call[p].ref \in Usernames
  /\ PastGates(p)
  /\ HandleIsRight(p)
  /\ TookSoFar(p)

IInv ==
  /\ TypeOK
  /\ told \subseteq cached
  /\ \A p \in Callers : CallerOK(p)

-----------------------------------------------------------------------------
(* What no step undoes.                                                    *)
Grows ==
  /\ UNCHANGED options
  /\ cached \subseteq cached'

(* A step of one caller leaves the others where they are.                  *)
Stays(q) ==
  /\ pc'[q] = pc[q]
  /\ call'[q] = call[q]
  /\ named'[q] = named[q]
  /\ handle'[q] = handle[q]
  /\ result'[q] = result[q]
  /\ took'[q] = took[q]

(* A caller that does not move keeps what it knows.                        *)
LEMMA StaysOK ==
  ASSUME NEW q \in Callers, CallerOK(q), Grows, Stays(q)
  PROVE  CallerOK(q)'
<1>1. Meant(q)' = Meant(q)
  BY DEF Stays, Meant
<1>2. /\ dryRun' = dryRun /\ allowed' = allowed
      /\ RecipientAllowed(call[q])' <=> RecipientAllowed(call[q])
      /\ SafeToRetry(q)' <=> SafeToRetry(q)
  BY DEF Grows, Stays, options, RecipientAllowed, SafeToRetry
<1>3. PastGates(q)'
  BY <1>2 DEF CallerOK, PastGates, Stays
<1>4. HandleIsRight(q)'
  BY <1>1, <1>2 DEF CallerOK, HandleIsRight, Stays
<1>5. TookSoFar(q)'
  BY <1>2 DEF CallerOK, TookSoFar, Stays
<1> QED
  BY <1>3, <1>4, <1>5 DEF CallerOK, Stays

(* What a step of caller p has to be shown to keep.                        *)
Good(p) ==
  /\ TypeOK'
  /\ told' \subseteq cached'
  /\ Grows
  /\ CallerOK(p)'
  /\ \A q \in Callers \ {p} : Stays(q)

(* That is enough: the other callers stay as they are.                     *)
LEMMA GoodKeepsIInv ==
  ASSUME IInv, NEW p \in Callers, Good(p)
  PROVE  IInv'
BY StaysOK DEF IInv, Good

-----------------------------------------------------------------------------
(* The beginning of a write: a verdict is "ok", "nil" on a dry-run, or an  *)
(* error after which nothing has happened.                                 *)
LEMMA Verdicts ==
  ASSUME TypeOK, NEW c \in Calls, NEW confirm \in BOOLEAN
  PROVE  /\ Verdict(c, confirm) \in {"ok", "nil", "ErrConfirmRequired", "ErrPeerNotAllowed",
                                     "ErrNotConnected", "ErrClosed"}
         /\ Verdict(c, confirm) = "nil" => dryRun
         /\ Verdict(c, confirm) = "ok" => ~dryRun /\ RecipientAllowed(c)
BY DEF Verdict, TypeOK, Reaches

(* A write begins, for the first time or again, with nothing done yet.     *)
LEMMA IssueIsGood ==
  ASSUME IInv, NEW p \in Callers, NEW c \in Calls, pc[p] = "idle",
         c.op # "ResolveContact", Issue(p, c),
         took' = [took EXCEPT ![p] = 0]
  PROVE  Good(p)
<1> USE DEF IInv
<1>1. /\ UNCHANGED <<options, reach, cached, told>>
      /\ call' = [call EXCEPT ![p] = c]
      /\ named' = [named EXCEPT ![p] = None]
      /\ call'[p] = c
      /\ took'[p] = 0
      /\ \A q \in Callers \ {p} :
           took'[q] = took[q] /\ call'[q] = call[q] /\ named'[q] = named[q]
  BY DEF Issue, Begin, clientVars, TypeOK
<1>2. CASE Goto(p, "lookup") /\ UNCHANGED handle /\ ~dryRun /\ RecipientAllowed(c)
  <2>1. pc'[p] = "lookup" /\ result'[p] = "none"
    BY <1>2 DEF Goto, TypeOK
  <2>2. TypeOK'
    BY <1>1, <1>2 DEF Goto, TypeOK, options
  <2>3. CallerOK(p)'
    BY <1>1, <1>2, <2>1 DEF CallerOK, PastGates, HandleIsRight, TookSoFar, RecipientAllowed, options
  <2>4. \A q \in Callers \ {p} : Stays(q)
    BY <1>1, <1>2 DEF Goto, Stays, TypeOK
  <2> QED
    BY <1>1, <2>2, <2>3, <2>4 DEF Good, Grows
<1>3. ASSUME NEW answer \in (Errors \ {"ErrSendFailed", "ErrRequest", "ErrNotFound"}) \cup {"nil"},
             Return(p, answer), answer = "nil" => dryRun
      PROVE  Good(p)
  <2>1. pc'[p] = "idle" /\ result'[p] = answer
    BY <1>3 DEF Return, TypeOK
  <2>2. TypeOK'
    BY <1>1, <1>3 DEF Return, TypeOK, options
  <2>3. CallerOK(p)'
    BY <1>1, <1>3, <2>1 DEF CallerOK, PastGates, HandleIsRight, TookSoFar, options
  <2>4. \A q \in Callers \ {p} : Stays(q)
    BY <1>1, <1>3 DEF Return, Stays, TypeOK
  <2> QED
    BY <1>1, <2>2, <2>3, <2>4 DEF Good, Grows
<1>4. CASE Return(p, "ErrInvalidParams")
  BY <1>3, <1>4 DEF Errors
<1>5. ASSUME NEW confirm \in BOOLEAN,
             IF Verdict(c, confirm) = "ok" THEN Goto(p, "lookup") /\ UNCHANGED handle
                                           ELSE Return(p, Verdict(c, confirm))
      PROVE  Good(p)
  <2>1. CASE Verdict(c, confirm) = "ok"
    BY <1>2, <1>5, <2>1, Verdicts
  <2>2. CASE Verdict(c, confirm) # "ok"
    <3>1. /\ Verdict(c, confirm) \in (Errors \ {"ErrSendFailed", "ErrRequest", "ErrNotFound"}) \cup {"nil"}
          /\ Verdict(c, confirm) = "nil" => dryRun
      BY <2>2, Verdicts DEF Errors
    <3> QED
      BY <1>3, <1>5, <2>2, <3>1
  <2> QED
    BY <2>1, <2>2
<1> QED
  BY <1>4, <1>5 DEF Issue

(* A first attempt starts from nothing.                                    *)
LEMMA WriteIsGood ==
  ASSUME IInv, NEW p \in Callers, NEW c \in Calls, Write(p, c)
  PROVE  Good(p)
BY IssueIsGood DEF Write

(* A retry is a first attempt: what is safe to retry has not happened.     *)
LEMMA RetryIsGood ==
  ASSUME IInv, NEW p \in Callers, Retry(p)
  PROVE  Good(p)
<1>1. result[p] # "none" /\ pc[p] = "idle" /\ SafeToRetry(p)
  BY DEF Retry, SafeToRetry, Errors
<1>2. call[p] \in Calls /\ took[p] = 0
  BY <1>1 DEF IInv, CallerOK, TookSoFar
<1>3. took' = [took EXCEPT ![p] = 0]
  BY <1>2 DEF Retry, IInv, TypeOK
<1> QED
  BY <1>1, <1>2, <1>3, IssueIsGood DEF Retry

-----------------------------------------------------------------------------
(* Inside a method.                                                        *)

(* What the steps of a method do to the cache and to what the host knows.  *)
Learns(p) ==
  /\ Grows
  /\ UNCHANGED reach
  /\ cached' \in SUBSET Peers
  /\ named' \in [Callers -> Peers \cup {None}]
  /\ \A q \in Callers \ {p} : named'[q] = named[q]
  /\ told' \in SUBSET Peers
  /\ told' \subseteq cached'

(* Most steps leave the cache and the host alone.                          *)
LEMMA NothingLearnt ==
  ASSUME IInv, NEW p \in Callers, UNCHANGED <<clientVars, learntVars>>
  PROVE  Learns(p)
BY DEF IInv, TypeOK, Learns, Grows, clientVars, learntVars

(* A method may return when its result tells what has happened.            *)
LEMMA ReturnIsGood ==
  ASSUME IInv, NEW p \in Callers, pc[p] # "idle", Learns(p), UNCHANGED <<call, took>>,
         NEW answer \in Errors \cup {"nil"}, Return(p, answer),
         answer \in Errors \ {"ErrSendFailed"} /\ (call[p].op \in Sends \/ answer # "ErrRequest")
           => took[p] = 0,
         answer = "nil" /\ call[p].op # "ResolveContact" => took[p] = 1,
         took[p] <= 1
  PROVE  Good(p)
<1> USE DEF IInv
<1>1. pc'[p] = "idle" /\ result'[p] = answer /\ call'[p] = call[p] /\ took'[p] = took[p]
  BY DEF Return, TypeOK
<1>2. answer # "none" /\ call[p] \in Calls
  BY DEF Errors, CallerOK
<1>3. TypeOK'
  BY DEF Return, TypeOK, Learns, Grows, options
<1>4. TookSoFar(p)'
  BY <1>1 DEF TookSoFar, SafeToRetry
<1>5. CallerOK(p)'
  BY <1>1, <1>2, <1>4 DEF CallerOK, PastGates, HandleIsRight
<1>6. \A q \in Callers \ {p} : Stays(q)
  BY DEF Return, Stays, TypeOK, Learns
<1> QED
  BY <1>3, <1>5, <1>6 DEF Good, Learns

(* A method may go on with the InputPeer of the peer it is meant for.      *)
LEMMA HaveHandleIsGood ==
  ASSUME IInv, NEW p \in Callers, NEW peer \in Peers, pc[p] \in {"lookup", "ask"},
         call[p].op # "ResolveContact", Learns(p), UNCHANGED <<call, took>>,
         peer = Meant(p)',
         HaveHandle(p, peer)
  PROVE  Good(p)
<1>1. call[p] \in Calls /\ took[p] = 0 /\ ~dryRun /\ RecipientAllowed(call[p])
  BY DEF IInv, CallerOK, TookSoFar, PastGates
<1>2. CASE call[p].op \in ChannelOnly /\ peer \notin Channels
  <2>1. Return(p, "ErrInvalidParams")
    BY <1>2 DEF HaveHandle
  <2> QED
    BY <1>1, <2>1, ReturnIsGood DEF Errors
<1>3. CASE ~(call[p].op \in ChannelOnly /\ peer \notin Channels)
  <2>1. PICK step \in {"upload", "send"} :
          handle' = [handle EXCEPT ![p] = peer] /\ Goto(p, step)
    BY <1>3 DEF HaveHandle
  <2>2. /\ pc'[p] = step /\ result'[p] = "none" /\ handle'[p] = peer
        /\ call'[p] = call[p] /\ took'[p] = took[p]
        /\ dryRun' = dryRun /\ allowed' = allowed
    BY <2>1 DEF IInv, TypeOK, Goto, Learns, Grows, options
  <2>3. TypeOK'
    BY <2>1 DEF IInv, TypeOK, Goto, Learns, Grows, options
  <2>4. HandleIsRight(p)'
    BY <1>3, <2>2 DEF HandleIsRight
  <2>5. PastGates(p)' /\ TookSoFar(p)'
    BY <1>1, <2>2 DEF PastGates, TookSoFar, RecipientAllowed
  <2>6. CallerOK(p)'
    BY <1>1, <2>2, <2>4, <2>5 DEF CallerOK
  <2>7. \A q \in Callers \ {p} : Stays(q)
    BY <2>1 DEF Goto, Stays, Learns, IInv, TypeOK
  <2> QED
    BY <2>3, <2>6, <2>7 DEF Good, Learns
<1> QED
  BY <1>2, <1>3

(* A method may go on to ask for a username, or to its request.            *)
LEMMA GotoIsGood ==
  ASSUME IInv, NEW p \in Callers, NEW step \in {"ask", "send", "answer"},
         Learns(p), UNCHANGED <<call, handle>>, Goto(p, step), pc[p] # "idle",
         step # "ask" => UNCHANGED named,
         step = "ask" => call[p].ref \in Usernames,
         step # "ask" => pc[p] \in {"upload", "send"},
         took' = IF step = "answer" THEN [took EXCEPT ![p] = @ + 1] ELSE took,
         took[p] = 0
  PROVE  Good(p)
<1>1. /\ pc'[p] = step /\ result'[p] = "none"
      /\ call'[p] = call[p] /\ handle'[p] = handle[p]
      /\ took'[p] = IF step = "answer" THEN 1 ELSE 0
      /\ dryRun' = dryRun /\ allowed' = allowed
  BY DEF IInv, TypeOK, Goto, Learns, Grows, options
<1>2. TypeOK'
  BY DEF IInv, TypeOK, Goto, Learns, Grows, options
<1>3. HandleIsRight(p)'
  <2>1. step # "ask" => Meant(p)' = Meant(p)
    BY <1>1 DEF Meant
  <2> QED
    BY <1>1, <2>1 DEF IInv, CallerOK, HandleIsRight
<1>4. PastGates(p)' /\ TookSoFar(p)'
  BY <1>1 DEF IInv, CallerOK, PastGates, TookSoFar, RecipientAllowed
<1>5. CallerOK(p)'
  BY <1>1, <1>3, <1>4 DEF IInv, CallerOK
<1>6. \A q \in Callers \ {p} : Stays(q)
  BY DEF Goto, Stays, Learns, IInv, TypeOK
<1> QED
  BY <1>2, <1>5, <1>6 DEF Good, Learns

-----------------------------------------------------------------------------
(* The steps.                                                              *)

(* A numeric reference means the peer it names.                            *)
LEMMA LookupPeerIsGood ==
  ASSUME IInv, NEW p \in Callers, LookupPeer(p)
  PROVE  Good(p)
<1>1. /\ pc[p] = "lookup" /\ call[p].ref \in Peers /\ call[p].op # "ResolveContact"
      /\ took[p] = 0 /\ RecipientAllowed(call[p])
  BY DEF LookupPeer, IInv, CallerOK, TookSoFar, PastGates
<1>2. Learns(p)
  BY NothingLearnt DEF LookupPeer
<1>3. CASE HaveHandle(p, call[p].ref)
  <2>1. call[p].ref = Meant(p)'
    BY <1>1 DEF Meant, LookupPeer
  <2> QED
    BY <1>1, <1>2, <1>3, <2>1, HaveHandleIsGood DEF LookupPeer
<1>4. CASE Return(p, "ErrNotFound")
  BY <1>1, <1>2, <1>4, ReturnIsGood DEF LookupPeer, Errors
<1> QED
  BY <1>3, <1>4 DEF LookupPeer

(* resolveUsername asks Telegram or passes on what withAPI answers.        *)
LEMMA LookupUsernameIsGood ==
  ASSUME IInv, NEW p \in Callers, LookupUsername(p)
  PROVE  Good(p)
<1>1. pc[p] = "lookup" /\ call[p].ref \in Usernames /\ took[p] = 0
  BY DEF LookupUsername, IInv, CallerOK, TookSoFar
<1>2. Learns(p)
  BY NothingLearnt DEF LookupUsername
<1>3. CASE reach = "ok"
  BY <1>1, <1>2, <1>3, GotoIsGood DEF LookupUsername
<1>4. CASE reach # "ok"
  <2>1. reach \in {"ErrNotConnected", "ErrClosed"}
    BY <1>4 DEF IInv, TypeOK, Reaches
  <2> QED
    BY <1>1, <1>2, <1>4, <2>1, ReturnIsGood DEF LookupUsername, Errors
<1> QED
  BY <1>3, <1>4

(* What an answer to ContactsResolveUsername adds.                         *)
LEMMA AnswerGrows ==
  ASSUME IInv, NEW p \in Callers, NEW peer \in Peers, AnswerNames(p, peer), UNCHANGED options
  PROVE  /\ Grows
         /\ cached' \in SUBSET Peers
         /\ named' \in [Callers -> Peers \cup {None}]
         /\ \A q \in Callers \ {p} : named'[q] = named[q]
         /\ named'[p] = peer
BY DEF AnswerNames, IInv, TypeOK, Grows

(* A username means the peer Telegram names for it in this call.           *)
LEMMA ResolvedIsGood ==
  ASSUME IInv, NEW p \in Callers, NEW peer \in Peers, Resolved(p, peer)
  PROVE  Good(p)
<1>1. /\ pc[p] = "ask" /\ call[p].ref \in Usernames /\ call[p].op # "ResolveContact"
      /\ took[p] = 0 /\ RecipientAllowed(call[p])
  BY DEF Resolved, AnswerNames, IInv, CallerOK, TookSoFar, PastGates
<1>2. Learns(p)
  BY AnswerGrows DEF Resolved, Learns, Grows, IInv, TypeOK
<1>3. CASE HaveHandle(p, peer)
  <2>1. peer = Meant(p)'
    BY <1>1, AnswerGrows, KindsAssumption DEF Meant, Resolved
  <2> QED
    BY <1>1, <1>2, <1>3, <2>1, HaveHandleIsGood DEF Resolved
<1>4. CASE Return(p, "ErrNotFound")
  BY <1>1, <1>2, <1>4, ReturnIsGood DEF Resolved, Errors
<1> QED
  BY <1>3, <1>4 DEF Resolved

(* ResolveContact does nothing at Telegram and tells only what is cached.  *)
LEMMA ResolveContactIsGood ==
  ASSUME IInv, NEW p \in Callers, NEW c \in Calls, ResolveContact(p, c)
  PROVE  Good(p)
<1>1. /\ call' = [call EXCEPT ![p] = c] /\ call'[p] = c /\ c.op = "ResolveContact"
      /\ took' = [took EXCEPT ![p] = 0] /\ took'[p] = 0
      /\ named' = [named EXCEPT ![p] = None]
      /\ UNCHANGED <<options, reach, cached>>
      /\ told' \in SUBSET Peers /\ told' \subseteq cached'
  BY DEF ResolveContact, Begin, clientVars, IInv, TypeOK
<1>2. PICK answer \in Errors \cup {"nil", "none"} :
        /\ result' = [result EXCEPT ![p] = answer]
        /\ \/ pc' = [pc EXCEPT ![p] = "idle"] /\ handle' = [handle EXCEPT ![p] = None]
           \/ /\ pc' = [pc EXCEPT ![p] = "ask"] /\ UNCHANGED handle
              /\ c.ref \in Usernames /\ answer = "none"
  BY DEF ResolveContact, Return, Goto, IInv, TypeOK, Reaches, Errors
<1>3. result'[p] = answer /\ (pc'[p] = "idle" \/ (pc'[p] = "ask" /\ c.ref \in Usernames /\ answer = "none"))
  BY <1>2 DEF IInv, TypeOK
<1>4. TypeOK'
  BY <1>1, <1>2 DEF IInv, TypeOK, options
<1>5. CallerOK(p)'
  BY <1>1, <1>3 DEF CallerOK, PastGates, HandleIsRight, TookSoFar
<1>6. \A q \in Callers \ {p} : Stays(q)
  BY <1>1, <1>2 DEF Stays, IInv, TypeOK
<1> QED
  BY <1>1, <1>4, <1>5, <1>6 DEF Good, Grows

(* ResolveContact returns what its answer has put into the cache.          *)
LEMMA ContactResolvedIsGood ==
  ASSUME IInv, NEW p \in Callers, NEW peer \in Peers, ContactResolved(p, peer)
  PROVE  Good(p)
<1>1. pc[p] = "ask" /\ call[p].op = "ResolveContact" /\ took[p] = 0
  BY DEF ContactResolved, AnswerNames, IInv, CallerOK, TookSoFar
<1>2. Learns(p)
  BY AnswerGrows DEF ContactResolved, Learns, Grows, IInv, TypeOK
<1>3. PICK answer \in {"nil", "ErrNotFound"} : Return(p, answer)
  BY DEF ContactResolved
<1> QED
  BY <1>1, <1>2, <1>3, ReturnIsGood DEF ContactResolved, Errors

(* The request itself, its answer, and a failure, whose error says whether *)
(* the request may have been performed.                                    *)
LEMMA RequestIsGood ==
  ASSUME IInv, NEW p \in Callers,
         Uploaded(p) \/ Perform(p) \/ Answered(p) \/ RequestFails(p)
  PROVE  Good(p)
<1>1. Learns(p)
  BY NothingLearnt DEF Uploaded, Perform, Answered, RequestFails
<1>2. CASE Uploaded(p)
  BY <1>1, <1>2, GotoIsGood DEF Uploaded, learntVars, IInv, CallerOK, TookSoFar
<1>3. CASE Perform(p)
  BY <1>1, <1>3, GotoIsGood DEF Perform, learntVars, IInv, CallerOK, TookSoFar
<1>4. CASE Answered(p)
  BY <1>1, <1>4, ReturnIsGood DEF Answered, IInv, CallerOK, TookSoFar, Errors
<1>5. CASE RequestFails(p)
  <2>1. Failure(p) \in {"ErrSendFailed", "ErrRequest"} /\ took[p] <= 1
    BY <1>5 DEF RequestFails, Failure, IInv, CallerOK, TookSoFar
  <2>2. Failure(p) = "ErrRequest" /\ call[p].op \in Sends => took[p] = 0
    BY <1>5 DEF RequestFails, Failure, IInv, CallerOK, TookSoFar
  <2> QED
    BY <1>1, <1>5, <2>1, <2>2, ReturnIsGood DEF RequestFails, Errors
<1> QED
  BY <1>2, <1>3, <1>4, <1>5

-----------------------------------------------------------------------------
(* The surroundings touch no caller.                                       *)
LEMMA SurroundingsKeepIInv ==
  ASSUME IInv,
         \/ \E peer \in Peers : Ingest(peer)
         \/ \E answer \in Reaches : ReachChanges(answer)
         \/ UNCHANGED vars
  PROVE  IInv'
<1>1. Grows /\ UNCHANGED <<named, told, pc, call, handle, result, took>>
  BY DEF Ingest, ReachChanges, learntVars, vars, Grows, options
<1>2. TypeOK'
  <2>1. cached' \in SUBSET Peers /\ reach' \in Reaches
    BY DEF Ingest, ReachChanges, vars, IInv, TypeOK
  <2> QED
    BY <1>1, <2>1 DEF IInv, TypeOK, Grows, options
<1>3. \A q \in Callers : Stays(q)
  BY <1>1 DEF Stays
<1>4. told' \subseteq cached'
  BY <1>1 DEF IInv, Grows
<1> QED
  BY <1>1, <1>2, <1>3, <1>4, StaysOK DEF IInv

(* Every step of a caller is one of the above.                             *)
LEMMA CallerIsGood == ASSUME IInv, NEW p \in Callers, CallerStep(p) PROVE Good(p)
BY WriteIsGood, RetryIsGood, LookupPeerIsGood, LookupUsernameIsGood, ResolvedIsGood,
   ResolveContactIsGood, ContactResolvedIsGood, RequestIsGood DEF CallerStep

(* Every step of a caller keeps the invariant.                             *)
LEMMA CallerKeepsIInv ==
  ASSUME IInv, NEW p \in Callers, CallerStep(p)
  PROVE  IInv'
BY CallerIsGood, GoodKeepsIInv

(* The invariant holds of a new client.                                    *)
LEMMA InitIInv == ASSUME Init PROVE IInv
<1>1. TypeOK
  BY OptionsAssumption DEF Init, TypeOK, Reaches
<1>2. \A p \in Callers : CallerOK(p)
  BY DEF Init, CallerOK, PastGates, HandleIsRight, TookSoFar, SafeToRetry, Errors
<1> QED
  BY <1>1, <1>2 DEF Init, IInv

(* The inductive invariant holds in every reachable state.                 *)
THEOREM Invariant == Spec => []IInv
<1>1. Init => IInv
  BY InitIInv
<1>2. IInv /\ [Next]_vars => IInv'
  BY CallerKeepsIInv, SurroundingsKeepIInv DEF Next
<1> QED
  BY <1>1, <1>2, PTL DEF Spec

(* Every variable keeps its type.                                          *)
THEOREM TypeCorrect == Spec => []TypeOK
<1>1. IInv => TypeOK
  BY DEF IInv
<1> QED
  BY <1>1, Invariant, PTL

(* No write happens on a dry-run, to another peer than the one meant, or   *)
(* of a send for a reference that is not on the allowlist.                 *)
THEOREM Permitted == Spec => []WritesArePermitted
<1>1. IInv => WritesArePermitted
  BY DEF IInv, TypeOK, CallerOK, PastGates, RecipientAllowed, HandleIsRight, TookSoFar,
         WritesArePermitted
<1> QED
  BY <1>1, Invariant, PTL

(* Repeating what is known not to have happened never makes it happen      *)
(* twice.                                                                  *)
THEOREM RetriesAreSafe == Spec => []RetryNeverRepeats
<1>1. IInv => RetryNeverRepeats
  BY DEF IInv, TypeOK, CallerOK, TookSoFar, RetryNeverRepeats
<1> QED
  BY <1>1, Invariant, PTL

(* A write that returns nil has happened, or was a dry-run.                *)
THEOREM Acknowledged == Spec => []NilMeansDone
<1>1. IInv => NilMeansDone
  BY DEF IInv, CallerOK, TookSoFar, NilMeansDone
<1> QED
  BY <1>1, Invariant, PTL

(* The two places that answer ErrNotFound to a numeric reference look at   *)
(* the cache, which holds every peer ResolveContact has returned; a        *)
(* username is no such reference.                                          *)
THEOREM KnownIsFound == Spec => KnownPeerIsFound
<1>1. ASSUME IInv, Next, NEW p \in Callers,
             result'[p] = "ErrNotFound", call'[p].ref \in told
      PROVE  pc[p] = "idle" /\ result[p] = "ErrNotFound" /\ call[p] = call'[p]
  <2>1. told \subseteq cached /\ told \subseteq Peers /\ TypeOK
    BY <1>1 DEF IInv, TypeOK
  <2>2. CASE Stays(p)
    BY <1>1, <2>2 DEF Stays, IInv, CallerOK
  <2>3. ASSUME NEW c \in Calls, Issue(p, c) PROVE FALSE
    BY <1>1, <2>1, <2>3, Verdicts DEF Issue, Return, Goto, TypeOK
  <2>4. ASSUME NEW answer, answer # "ErrNotFound", Return(p, answer) PROVE FALSE
    BY <1>1, <2>1, <2>4 DEF Return, TypeOK
  <2>5. ASSUME NEW step, Goto(p, step) PROVE FALSE
    BY <1>1, <2>1, <2>5 DEF Goto, TypeOK
  <2>6. ASSUME UNCHANGED call PROVE call[p].ref \in told /\ call[p].ref \notin Usernames
    BY <1>1, <2>1, <2>6, KindsAssumption DEF Refs
  <2>7. ~(\E c \in Calls : Write(p, c))
    BY <2>3 DEF Write
  <2>8. ~Retry(p)
    <3>1. Retry(p) => call[p] \in Calls
      BY <1>1 DEF Retry, SafeToRetry, Errors, IInv, CallerOK
    <3> QED
      BY <2>3, <3>1 DEF Retry
  <2>9. ~LookupPeer(p)
    BY <2>1, <2>4, <2>5, <2>6 DEF LookupPeer, HaveHandle
  <2>10. ~LookupUsername(p)
    BY <2>6 DEF LookupUsername
  <2>11. ASSUME NEW peer \in Peers PROVE ~Resolved(p, peer) /\ ~ContactResolved(p, peer)
    BY <2>6 DEF Resolved, ContactResolved, AnswerNames
  <2>12. ASSUME NEW c \in Calls PROVE ~ResolveContact(p, c)
    <3>1. ResolveContact(p, c) => call'[p] = c
      BY <2>1 DEF ResolveContact, Begin, TypeOK
    <3>2. ResolveContact(p, c) => c.ref \in cached /\ c.ref \notin Usernames
      BY <1>1, <2>1, <3>1, KindsAssumption DEF Refs
    <3> QED
      BY <2>4, <3>2 DEF ResolveContact
  <2>13. ~Uploaded(p) /\ ~Perform(p) /\ ~Answered(p)
    BY <2>4, <2>5 DEF Uploaded, Perform, Answered
  <2>14. ~RequestFails(p)
    BY <2>4 DEF RequestFails, Failure
  <2>15. ~CallerStep(p)
    BY <2>7, <2>8, <2>9, <2>10, <2>11, <2>12, <2>13, <2>14 DEF CallerStep
  <2>16. ASSUME NEW q \in Callers, q # p, CallerStep(q) PROVE Stays(p)
    BY <1>1, <2>16, WriteIsGood, RetryIsGood, LookupPeerIsGood, LookupUsernameIsGood,
       ResolvedIsGood, ResolveContactIsGood, ContactResolvedIsGood, RequestIsGood
       DEF CallerStep, Good
  <2>17. ASSUME \/ \E peer \in Peers : Ingest(peer)
                \/ \E answer \in Reaches : ReachChanges(answer)
         PROVE  Stays(p)
    BY <2>17 DEF Ingest, ReachChanges, learntVars, Stays
  <2> QED
    BY <1>1, <2>2, <2>15, <2>16, <2>17 DEF Next
<1>2. IInv /\ [Next]_vars
        => [\A p \in Callers :
              result'[p] = "ErrNotFound" /\ call'[p].ref \in told
                => pc[p] = "idle" /\ result[p] = "ErrNotFound" /\ call[p] = call'[p]]_vars
  BY <1>1
<1> QED
  BY <1>2, Invariant, PTL DEF Spec, KnownPeerIsFound

-----------------------------------------------------------------------------
(* The contract.  Where a caller is and what its last method returned is   *)
(* what its agent has been told, and the invariant ties that to what       *)
(* Telegram has done.                                                      *)

(* A step of one caller changes what one agent is told.                    *)
LEMMA OneWord ==
  ASSUME IInv, NEW p \in Callers, Good(p), NEW w, WordOf(p)' = w, NEW n \in Nat, took'[p] = n
  PROVE  /\ Words' = [Words EXCEPT ![p] = w]
         /\ took' = [took EXCEPT ![p] = n]
<1>1. \A q \in Callers \ {p} : WordOf(q)' = WordOf(q) /\ took'[q] = took[q]
  BY DEF Good, Stays, WordOf, SafeToRetry
<1>2. took \in [Callers -> Nat] /\ took' \in [Callers -> Nat]
  BY DEF IInv, Good, TypeOK
<1>3. took' = [took EXCEPT ![p] = n]
  BY <1>1, <1>2
<1>4. \A q \in Callers : WordOf(q)' = IF q = p THEN w ELSE WordOf(q)
  BY <1>1
<1>5. Words' = [q \in Callers |-> IF q = p THEN w ELSE WordOf(q)]
  BY <1>4 DEF Words
<1>6. [Words EXCEPT ![p] = w] = [q \in Callers |-> IF q = p THEN w ELSE WordOf(q)]
  BY DEF Words
<1> QED
  BY <1>3, <1>5, <1>6

(* The first word on a write: refused, or done on a dry-run, or pending.   *)
LEMMA FirstWord ==
  ASSUME IInv, NEW p \in Callers, NEW c \in Calls, c.op # "ResolveContact", Issue(p, c),
         Good(p), took'[p] = 0
  PROVE  WordOf(p)' \in Promised!FirstWords
<1>1. call'[p] = c /\ c # None /\ dryRun' = dryRun
  BY NoneAssumption DEF Issue, Begin, clientVars, options, IInv, TypeOK
<1>2. CASE pc'[p] = "idle"
  <2>1. result'[p] \in {"ErrInvalidParams", "nil", "ErrConfirmRequired", "ErrPeerNotAllowed",
                        "ErrNotConnected", "ErrClosed"}
    BY <1>2, Verdicts DEF Issue, Return, Goto, IInv, TypeOK
  <2>2. CASE result'[p] = "nil"
    <3>1. dryRun
      BY <1>1, <1>2, <2>2 DEF Good, CallerOK, TookSoFar
    <3> QED
      BY <1>1, <1>2, <2>2, <3>1 DEF WordOf, Promised!FirstWords
  <2>3. CASE result'[p] # "nil"
    BY <1>1, <1>2, <2>1, <2>3 DEF WordOf, SafeToRetry, Errors, Promised!FirstWords
  <2> QED
    BY <2>2, <2>3
<1>3. CASE pc'[p] # "idle"
  <2>1. ~dryRun
    BY <1>1, <1>3 DEF Good, CallerOK, PastGates
  <2> QED
    BY <1>1, <1>3, <2>1 DEF WordOf, Promised!FirstWords
<1> QED
  BY <1>2, <1>3

(* A method of an agent that is waiting: it goes on waiting, its wish is   *)
(* performed, or it is told what its result tells.                         *)
LEMMA CallKeepsContract ==
  ASSUME IInv, NEW p \in Callers, Good(p), pc[p] # "idle", call'[p] = call[p],
         Perform(p) \/ UNCHANGED took
  PROVE  [Promised!Next]_(Promised!contractVars)
<1>1. /\ dryRun' = dryRun /\ call[p] \in Calls /\ call[p] # None
      /\ took[p] \in Nat /\ took'[p] \in Nat
  BY NoneAssumption DEF Good, Grows, options, IInv, CallerOK, TypeOK
<1>2. CASE call[p].op = "ResolveContact"
  <2>1. UNCHANGED took
    BY <1>2 DEF Perform, IInv, CallerOK, HandleIsRight
  <2>2. WordOf(p)' = WordOf(p)
    BY <1>2 DEF WordOf
  <2>3. UNCHANGED Words
    <3>1. \A q \in Callers : WordOf(q)' = WordOf(q)
      BY <2>2 DEF Good, Stays, WordOf, SafeToRetry
    <3> QED
      BY <3>1 DEF Words
  <2> QED
    BY <1>1, <2>1, <2>3 DEF Promised!contractVars
<1>3. CASE call[p].op # "ResolveContact"
  <2>1. Words[p] = "pending" /\ ~dryRun /\ Words = [Words EXCEPT ![p] = "pending"]
    BY <1>1, <1>3 DEF Words, WordOf, IInv, CallerOK, PastGates
  <2>2. CASE Perform(p)
    <3>1. took[p] = 0 /\ took'[p] = 1 /\ pc'[p] = "answer"
      BY <2>2 DEF Perform, Goto, IInv, CallerOK, TookSoFar, TypeOK
    <3>2. WordOf(p)' = "pending"
      BY <1>1, <1>3, <3>1 DEF WordOf
    <3>3. Promised!Perform(p)
      BY <1>1, <2>1, <3>1, <3>2, OneWord DEF Promised!Perform
    <3> QED
      BY <3>3 DEF Promised!Next
  <2>3. CASE UNCHANGED took /\ pc'[p] # "idle"
    <3>1. WordOf(p)' = "pending"
      BY <1>1, <1>3, <2>3 DEF WordOf
    <3> QED
      BY <1>1, <2>1, <2>3, <3>1, OneWord DEF Promised!contractVars
  <2>4. CASE UNCHANGED took /\ pc'[p] = "idle"
    <3>1. PICK w \in {"done", "refused", "doubt"} : WordOf(p)' = w
      BY <1>1, <1>3, <2>4 DEF WordOf
    <3>2. /\ w = "done" => took[p] # 0
          /\ w = "refused" => took[p] = 0
      <4>1. w = "done" => result'[p] = "nil"
        BY <1>1, <1>3, <2>4, <3>1 DEF WordOf
      <4>2. w = "refused" => SafeToRetry(p)'
        BY <1>1, <1>3, <2>4, <3>1 DEF WordOf
      <4>3. TookSoFar(p)'
        BY DEF Good, CallerOK
      <4> QED
        BY <1>1, <1>3, <2>1, <2>4, <4>1, <4>2, <4>3 DEF TookSoFar
    <3>3. Words' = [Words EXCEPT ![p] = w]
      BY <1>1, <3>1, OneWord
    <3>4. w \in {"doubt"} \cup (IF took[p] = 0 THEN {"refused"} ELSE {"done"})
      BY <3>1, <3>2
    <3>5. Promised!Answer(p)
      BY <1>1, <2>1, <2>4, <3>3, <3>4 DEF Promised!Answer
    <3> QED
      BY <3>5 DEF Promised!Next
  <2> QED
    BY <2>2, <2>3, <2>4
<1> QED
  BY <1>2, <1>3

(* What an agent begins, repeats, or turns to.                             *)
LEMMA BeginKeepsContract ==
  ASSUME IInv, NEW p \in Callers, Good(p),
         (\E c \in Calls : Write(p, c) \/ ResolveContact(p, c)) \/ Retry(p)
  PROVE  Promised!Next
<1>1. dryRun' = dryRun /\ pc[p] = "idle" /\ Words[p] # "pending"
  BY DEF Good, Grows, options, Write, Retry, ResolveContact, Words, WordOf
<1>2. ASSUME NEW c \in Calls, Write(p, c) PROVE Promised!Ask(p)
  <2>1. Issue(p, c) /\ c.op # "ResolveContact" /\ took'[p] = 0
    BY <1>2 DEF Write, IInv, TypeOK
  <2>2. WordOf(p)' \in Promised!FirstWords
    BY <2>1, FirstWord
  <2> QED
    BY <1>1, <2>1, <2>2, OneWord DEF Promised!Ask
<1>3. ASSUME Retry(p) PROVE Promised!Repeat(p)
  <2>1. result[p] # "none" /\ result[p] # "nil" /\ SafeToRetry(p) /\ call[p].op # "ResolveContact"
    BY <1>3 DEF Retry, SafeToRetry, Errors
  <2>2. call[p] \in Calls /\ call[p] # None /\ took[p] = 0
    BY <1>1, <2>1, NoneAssumption DEF IInv, CallerOK, TookSoFar
  <2>3. Words[p] = "refused"
    BY <1>1, <2>1, <2>2 DEF Words, WordOf
  <2>4. Issue(p, call[p]) /\ UNCHANGED took
    BY <1>3 DEF Retry
  <2>5. WordOf(p)' \in Promised!FirstWords
    BY <2>1, <2>2, <2>4, FirstWord
  <2>6. \E w \in Promised!FirstWords : Words' = [Words EXCEPT ![p] = w]
    BY <2>2, <2>4, <2>5, OneWord
  <2> QED
    BY <1>1, <2>3, <2>4, <2>6 DEF Promised!Repeat
<1>4. ASSUME NEW c \in Calls, ResolveContact(p, c) PROVE Promised!Leave(p)
  <2>1. call'[p] = c /\ c.op = "ResolveContact" /\ took'[p] = 0
    BY <1>4 DEF ResolveContact, Begin, IInv, TypeOK
  <2>2. WordOf(p)' = "none"
    BY <2>1 DEF WordOf
  <2> QED
    BY <1>1, <2>1, <2>2, OneWord DEF Promised!Leave
<1> QED
  BY <1>2, <1>3, <1>4 DEF Promised!Next

(* Every step keeps the contract.                                          *)
LEMMA StepKeepsContract ==
  ASSUME IInv, [Next]_vars PROVE [Promised!Next]_(Promised!contractVars)
<1>1. ASSUME NEW p \in Callers, CallerStep(p) PROVE [Promised!Next]_(Promised!contractVars)
  <2>1. Good(p)
    BY <1>1, CallerIsGood
  <2>2. CASE (\E c \in Calls : Write(p, c) \/ ResolveContact(p, c)) \/ Retry(p)
    BY <2>1, <2>2, BeginKeepsContract
  <2>3. ASSUME pc[p] # "idle", call' = call, Perform(p) \/ UNCHANGED took
        PROVE  [Promised!Next]_(Promised!contractVars)
    BY <2>1, <2>3, CallKeepsContract
  <2>4. CASE LookupPeer(p) \/ LookupUsername(p)
    BY <2>3, <2>4 DEF LookupPeer, LookupUsername
  <2>5. CASE \E peer \in Peers : Resolved(p, peer) \/ ContactResolved(p, peer)
    BY <2>3, <2>5 DEF Resolved, ContactResolved, AnswerNames
  <2>6. CASE Uploaded(p) \/ Perform(p) \/ Answered(p) \/ RequestFails(p)
    BY <2>3, <2>6 DEF Uploaded, Perform, Answered, RequestFails
  <2> QED
    BY <1>1, <2>2, <2>4, <2>5, <2>6 DEF CallerStep
<1>2. ASSUME UNCHANGED <<dryRun, pc, call, result, took>>
      PROVE  UNCHANGED Promised!contractVars
  <2>1. \A q \in Callers : WordOf(q)' = WordOf(q)
    BY <1>2 DEF WordOf, SafeToRetry
  <2> QED
    BY <1>2, <2>1 DEF Words, Promised!contractVars
<1> QED
  BY <1>1, <1>2 DEF Next, Ingest, ReachChanges, vars, options

(* The write methods implement the contract: a wish is performed at most   *)
(* once, and what the agent is told of it is so.                           *)
THEOREM KeepsContract == Spec => ContractIsKept
<1>1. Init => Promised!Init
  <2> SUFFICES ASSUME Init PROVE Promised!Init
    OBVIOUS
  <2>1. dryRun \in BOOLEAN
    BY InitIInv DEF IInv, TypeOK
  <2>2. \A p \in Callers : WordOf(p) = "none"
    BY DEF Init, WordOf
  <2> QED
    BY <2>1, <2>2 DEF Init, Words, Promised!Init
<1>2. IInv /\ [Next]_vars => [Promised!Next]_(Promised!contractVars)
  BY StepKeepsContract
<1> QED
  BY <1>1, <1>2, Invariant, PTL DEF Spec, ContractIsKept, Promised!Spec
=============================================================================
