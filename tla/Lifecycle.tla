------------------------------ MODULE Lifecycle ------------------------------
(***************************************************************************)
(* The connection lifecycle of telegram.Client: Connect, Disconnect, Close *)
(* and the goroutine that Connect starts around gotd's Client.Run.         *)
(*                                                                         *)
(* A caller is a goroutine of the host application.  It executes one       *)
(* method at a time; every critical section under c.mu, every channel      *)
(* operation and every call of a cancel function is a step of its own,     *)
(* because any other goroutine may run in between.                         *)
(*                                                                         *)
(* A session is one pass through the body of Connect: one gotd client, its *)
(* runCtx, its channels ready and done and the goroutine that serves it.   *)
(* Sessions are named so that a caller can hold the cancel function and    *)
(* the done channel of one session while another one is coming up.         *)
(***************************************************************************)
CONSTANTS
  Callers,   \* goroutines of the host that call the client
  Sessions,  \* names for gotd clients; bounds how many exist at a time
  None       \* Go's nil

ASSUME NoneIsNoSession == None \notin Sessions
ASSUME CallersAreNamed == Callers \cap {"field", "lost", "nobody"} = {}

VARIABLES
  (* Fields of Client, guarded by c.mu. *)
  closed,     \* c.closed
  connected,  \* c.connected
  api,        \* c.api (and c.tg: the two are always assigned together)
  cancelRun,  \* c.cancelRun (and c.runDone: likewise): the published session
  logDB,      \* c.logDB # nil
  selfUser,   \* c.selfUser # nil
  (* One gotd client each. *)
  run,        \* where the goroutine of the session is
  cancelled,  \* runCtx has been cancelled
  ctxDone,    \* the ctx that was passed to Connect is done
  ready,      \* the buffered channel ready
  done,       \* the buffered channel done
  (* Locals of the callers. *)
  pc,         \* the step of the method a caller executes
  sess,       \* the session whose cancel function and done channel it holds
  tookDB      \* Close holds the database handle it took from c.logDB

clientVars  == <<closed, connected, api, cancelRun, logDB, selfUser>>
sessionVars == <<run, cancelled, ctxDone, ready, done>>
callerVars  == <<pc, sess, tookDB>>
vars == <<closed, connected, api, cancelRun, logDB, selfUser,
          run, cancelled, ctxDone, ready, done, pc, sess, tookDB>>

ConnectSteps    == {"open", "spawn", "select", "publish", "abandon"}
DisconnectSteps == {"disCancel", "disWait"}
CloseSteps      == {"closeCancel", "closeWait", "closeDB"}
Steps == {"idle", "status"} \cup ConnectSteps \cup DisconnectSteps \cup CloseSteps

(* The goroutine of a session: waiting for gotd to connect, inside the     *)
(* callback (authorising, fetching the own user, announcing, serving), on  *)
(* its way out after a failed authorisation, past Run with the result in   *)
(* done, or gone.                                                          *)
RunStates == {"unused", "dialing", "authorizing", "identifying", "announcing",
              "serving", "failing", "returned", "finished"}

TypeOK ==
  /\ closed \in BOOLEAN
  /\ connected \in BOOLEAN
  /\ api \in Sessions \cup {None}
  /\ cancelRun \in Sessions \cup {None}
  /\ logDB \in BOOLEAN
  /\ selfUser \in BOOLEAN
  /\ run \in [Sessions -> RunStates]
  /\ cancelled \in [Sessions -> BOOLEAN]
  /\ ctxDone \in [Sessions -> BOOLEAN]
  /\ ready \in [Sessions -> {"empty", "ok", "err"}]
  /\ done \in [Sessions -> {"empty", "full", "received"}]
  /\ pc \in [Callers -> Steps]
  /\ sess \in [Callers -> Sessions \cup {None}]
  /\ tookDB \in [Callers -> BOOLEAN]

Init ==
  /\ closed = FALSE
  /\ connected = FALSE
  /\ api = None
  /\ cancelRun = None
  /\ logDB = FALSE
  /\ selfUser = FALSE
  /\ run = [s \in Sessions |-> "unused"]
  /\ cancelled = [s \in Sessions |-> FALSE]
  /\ ctxDone = [s \in Sessions |-> FALSE]
  /\ ready = [s \in Sessions |-> "empty"]
  /\ done = [s \in Sessions |-> "empty"]
  /\ pc = [p \in Callers |-> "idle"]
  /\ sess = [p \in Callers |-> None]
  /\ tookDB = [p \in Callers |-> FALSE]

-----------------------------------------------------------------------------
(* Helpers.                                                                *)

Go(p, from, to) == pc[p] = from /\ pc' = [pc EXCEPT ![p] = to]

(* The method returns and its locals go out of scope.                      *)
Return(p) ==
  /\ pc' = [pc EXCEPT ![p] = "idle"]
  /\ sess' = [sess EXCEPT ![p] = None]

Cancel(s) == cancelled' = [cancelled EXCEPT ![s] = TRUE]

(* <-done, which blocks until the goroutine has sent.                      *)
ReceiveDone(s) ==
  /\ done[s] = "full"
  /\ done' = [done EXCEPT ![s] = "received"]

(* What withAPI answers before it calls its argument.                      *)
WithAPI == CASE closed -> "ErrClosed"
             [] ~closed /\ api = None -> "ErrNotConnected"
             [] OTHER -> "ok"

-----------------------------------------------------------------------------
(* Connect.                                                                *)

(* The check of closed and connected, after which c.mu is released.  A     *)
(* refused call changes nothing.  The session is only named here.          *)
ConnectCheck(p) ==
  /\ Go(p, "idle", "open")
  /\ ~closed
  /\ ~connected
  /\ \E s \in Sessions :
       /\ run[s] = "unused"
       /\ \A q \in Callers : sess[q] # s
       /\ sess' = [sess EXCEPT ![p] = s]
  /\ UNCHANGED <<clientVars, sessionVars, tookDB>>

(* initLogStore, one critical section: opens the database unless it is     *)
(* open, and does not look at closed.                                      *)
ConnectOpenStore(p) ==
  /\ Go(p, "open", "spawn")
  /\ logDB' = TRUE
  /\ UNCHANGED <<closed, connected, api, cancelRun, selfUser, sessionVars, sess, tookDB>>

ConnectStoreFails(p) ==
  /\ \/ pc[p] = "open" /\ ~logDB  \* mkdir, open, ping or migrate
     \/ pc[p] = "spawn"           \* the second MkdirAll
  /\ Return(p)
  /\ UNCHANGED <<clientVars, sessionVars, tookDB>>

(* A new gotd client, runCtx, ready, done, and the goroutine.              *)
ConnectSpawn(p) ==
  /\ Go(p, "spawn", "select")
  /\ run' = [run EXCEPT ![sess[p]] = "dialing"]
  /\ UNCHANGED <<clientVars, cancelled, ctxDone, ready, done, sess, tookDB>>

(* The select: ready, done or ctx.Done().  When several are available Go   *)
(* takes any of them.                                                      *)
ConnectReady(p) ==
  /\ Go(p, "select", "publish")
  /\ ready[sess[p]] = "ok"
  /\ ready' = [ready EXCEPT ![sess[p]] = "empty"]
  /\ UNCHANGED <<clientVars, run, cancelled, ctxDone, done, sess, tookDB>>

ConnectAuthFailed(p) ==
  /\ Go(p, "select", "abandon")
  /\ ready[sess[p]] = "err"
  /\ ready' = [ready EXCEPT ![sess[p]] = "empty"]
  /\ Cancel(sess[p])
  /\ UNCHANGED <<clientVars, run, ctxDone, done, sess, tookDB>>

(* Mutation: the ctx branch returns without waiting for Run.               *)
MutCtxNoWait(p) ==
  /\ pc[p] = "select"
  /\ ctxDone[sess[p]]
  /\ Cancel(sess[p])
  /\ Return(p)
  /\ UNCHANGED <<clientVars, run, ctxDone, ready, done, tookDB>>

(* Mutation: the ctx branch waits for Run but forgets to cancel runCtx.    *)
MutCtxNoCancel(p) ==
  /\ Go(p, "select", "abandon")
  /\ ctxDone[sess[p]]
  /\ UNCHANGED <<clientVars, sessionVars, sess, tookDB>>

ConnectCtxDone(p) ==
  /\ Go(p, "select", "abandon")
  /\ ctxDone[sess[p]]
  /\ Cancel(sess[p])
  /\ UNCHANGED <<clientVars, run, ctxDone, ready, done, sess, tookDB>>

ConnectRunEnded(p) ==
  /\ pc[p] = "select"
  /\ ReceiveDone(sess[p])
  /\ Cancel(sess[p])
  /\ Return(p)
  /\ UNCHANGED <<clientVars, run, ctxDone, ready, tookDB>>

(* <-done of the two failing branches; Connect returns the error.          *)
ConnectAbandoned(p) ==
  /\ pc[p] = "abandon"
  /\ ReceiveDone(sess[p])
  /\ Return(p)
  /\ UNCHANGED <<clientVars, run, cancelled, ctxDone, ready, tookDB>>

(* c.cancelRun and c.runDone are set and Connect returns nil.              *)
ConnectPublish(p) ==
  /\ pc[p] = "publish"
  /\ cancelRun' = sess[p]
  /\ Return(p)
  /\ UNCHANGED <<closed, connected, api, logDB, selfUser, sessionVars, tookDB>>

-----------------------------------------------------------------------------
(* Disconnect.                                                             *)

(* Mutation: connected is not reset with api.                              *)
MutTakeKeepsConnected(p) ==
  /\ pc[p] = "idle"
  /\ sess' = [sess EXCEPT ![p] = cancelRun]
  /\ pc' = [pc EXCEPT ![p] = IF cancelRun = None THEN "idle" ELSE "disCancel"]
  /\ cancelRun' = None
  /\ api' = None
  /\ UNCHANGED <<closed, connected, logDB, selfUser, sessionVars, tookDB>>

(* Mutation: cancelRun and runDone stay in their fields.                   *)
MutTakeKeepsRun(p) ==
  /\ pc[p] = "idle"
  /\ sess' = [sess EXCEPT ![p] = cancelRun]
  /\ pc' = [pc EXCEPT ![p] = IF cancelRun = None THEN "idle" ELSE "disCancel"]
  /\ connected' = FALSE
  /\ api' = None
  /\ UNCHANGED <<closed, cancelRun, logDB, selfUser, sessionVars, tookDB>>

DisconnectTake(p) ==
  /\ pc[p] = "idle"
  /\ sess' = [sess EXCEPT ![p] = cancelRun]
  /\ pc' = [pc EXCEPT ![p] = IF cancelRun = None THEN "idle" ELSE "disCancel"]
  /\ cancelRun' = None
  /\ connected' = FALSE
  /\ api' = None
  /\ UNCHANGED <<closed, logDB, selfUser, sessionVars, tookDB>>

(* Mutation: Disconnect waits for a Run that it has not cancelled.         *)
MutDisconnectNoCancel(p) ==
  /\ Go(p, "disCancel", "disWait")
  /\ UNCHANGED <<clientVars, sessionVars, sess, tookDB>>

DisconnectCancel(p) ==
  /\ Go(p, "disCancel", "disWait")
  /\ Cancel(sess[p])
  /\ UNCHANGED <<clientVars, run, ctxDone, ready, done, sess, tookDB>>

DisconnectDone(p) ==
  /\ pc[p] = "disWait"
  /\ ReceiveDone(sess[p])
  /\ Return(p)
  /\ UNCHANGED <<clientVars, run, cancelled, ctxDone, ready, tookDB>>

-----------------------------------------------------------------------------
(* Close.  A second call sees closed and returns.                          *)

CloseTake(p) ==
  /\ Go(p, "idle", "closeCancel")
  /\ ~closed
  /\ closed' = TRUE
  /\ sess' = [sess EXCEPT ![p] = cancelRun]
  /\ tookDB' = [tookDB EXCEPT ![p] = logDB]
  /\ cancelRun' = None
  /\ logDB' = FALSE
  /\ api' = None
  /\ connected' = FALSE
  /\ UNCHANGED <<selfUser, sessionVars>>

(* Mutation: Close counts on its timeout and cancels nothing.               *)
MutCloseNoCancel(p) ==
  /\ pc[p] = "closeCancel"
  /\ pc' = [pc EXCEPT ![p] = IF sess[p] = None THEN "closeDB" ELSE "closeWait"]
  /\ UNCHANGED <<clientVars, sessionVars, sess, tookDB>>

CloseCancel(p) ==
  /\ pc[p] = "closeCancel"
  /\ IF sess[p] = None
       THEN /\ pc' = [pc EXCEPT ![p] = "closeDB"]
            /\ UNCHANGED cancelled
       ELSE /\ pc' = [pc EXCEPT ![p] = "closeWait"]
            /\ Cancel(sess[p])
  /\ UNCHANGED <<clientVars, run, ctxDone, ready, done, sess, tookDB>>

CloseDone(p) ==
  /\ Go(p, "closeWait", "closeDB")
  /\ ReceiveDone(sess[p])
  /\ UNCHANGED <<clientVars, run, cancelled, ctxDone, ready, sess, tookDB>>

(* Mutation: the wait of Close has no timeout.                             *)
MutNoTimeout(p) ==
  /\ Go(p, "closeWait", "closeDB")
  /\ FALSE
  /\ UNCHANGED <<clientVars, sessionVars, sess, tookDB>>

(* case <-time.After(5 * time.Second)                                      *)
CloseTimeout(p) ==
  /\ Go(p, "closeWait", "closeDB")
  /\ UNCHANGED <<clientVars, sessionVars, sess, tookDB>>

CloseDB(p) ==
  /\ pc[p] = "closeDB"
  /\ tookDB' = [tookDB EXCEPT ![p] = FALSE]
  /\ Return(p)
  /\ UNCHANGED <<clientVars, sessionVars>>

-----------------------------------------------------------------------------
(* Status: when the client is connected but has no own user yet it asks    *)
(* for it through withAPI; the answer is stored under c.mu afterwards.     *)
(* The look at the fields and the check of withAPI are one step: nothing   *)
(* is kept in between, and the answer may come at any time after it.       *)

StatusAsk(p) ==
  /\ Go(p, "idle", "status")
  /\ connected
  /\ ~selfUser
  /\ WithAPI = "ok"
  /\ UNCHANGED <<clientVars, sessionVars, sess, tookDB>>

StatusAnswer(p) ==
  /\ Go(p, "status", "idle")
  /\ selfUser' \in {selfUser, TRUE}
  /\ UNCHANGED <<closed, connected, api, cancelRun, logDB, sessionVars, sess, tookDB>>

-----------------------------------------------------------------------------
(* The goroutine of session s.  What gotd's Run does with runCtx and with  *)
(* the network is external: it calls the callback once it is connected,    *)
(* even when runCtx was cancelled meanwhile; it returns once the callback  *)
(* has returned, or without having called it; and it may lose its          *)
(* connection for good at any time, which ends the context it gave to the  *)
(* callback.                                                               *)

MoveRun(s, from, to) == run[s] = from /\ run' = [run EXCEPT ![s] = to]

(* Mutation: the result of Run goes into the wrong channel.                *)
MutWrongChannel(s) ==
  /\ run' = [run EXCEPT ![s] = "returned"]
  /\ ready' = [ready EXCEPT ![s] = "full"]
  /\ UNCHANGED <<clientVars, cancelled, ctxDone, done, callerVars>>

(* Run returns and its result goes into done.                              *)
RunReturn(s) ==
  /\ run' = [run EXCEPT ![s] = "returned"]
  /\ done' = [done EXCEPT ![s] = "full"]
  /\ UNCHANGED <<clientVars, cancelled, ctxDone, ready, callerVars>>

DialFails(s) == run[s] = "dialing" /\ RunReturn(s)

CallbackStarts(s) ==
  /\ MoveRun(s, "dialing", "authorizing")
  /\ api' = s
  /\ connected' = TRUE
  /\ UNCHANGED <<closed, cancelRun, logDB, selfUser,
                 cancelled, ctxDone, ready, done, callerVars>>

Authorized(s) ==
  /\ MoveRun(s, "authorizing", "identifying")
  /\ UNCHANGED <<clientVars, cancelled, ctxDone, ready, done, callerVars>>

NotAuthorized(s) ==
  /\ MoveRun(s, "authorizing", "failing")
  /\ ready' = [ready EXCEPT ![s] = "err"]
  /\ UNCHANGED <<clientVars, cancelled, ctxDone, done, callerVars>>

(* A failure of Self is ignored.                                           *)
FetchSelf(s) ==
  /\ MoveRun(s, "identifying", "announcing")
  /\ selfUser' \in {selfUser, TRUE}
  /\ UNCHANGED <<closed, connected, api, cancelRun, logDB,
                 cancelled, ctxDone, ready, done, callerVars>>

Announce(s) ==
  /\ MoveRun(s, "announcing", "serving")
  /\ ready' = [ready EXCEPT ![s] = "ok"]
  /\ UNCHANGED <<clientVars, cancelled, ctxDone, done, callerVars>>

FailedRunReturns(s) == run[s] = "failing" /\ RunReturn(s)
StopServing(s)      == run[s] = "serving" /\ cancelled[s] /\ RunReturn(s)
ConnectionLost(s)   == run[s] = "serving" /\ ~cancelled[s] /\ RunReturn(s)

(* Mutation: the critical section after Run forgets the client fields.     *)
MutNoCleanup(s) ==
  /\ MoveRun(s, "returned", "finished")
  /\ UNCHANGED <<clientVars, cancelled, ctxDone, ready, done, callerVars>>

(* The critical section after Run, which does not look at whose api it is. *)
Cleanup(s) ==
  /\ MoveRun(s, "returned", "finished")
  /\ connected' = FALSE
  /\ api' = None
  /\ UNCHANGED <<closed, cancelRun, logDB, selfUser,
                 cancelled, ctxDone, ready, done, callerVars>>

(* The host cancels the ctx it passed to Connect.                          *)
HostCancels(s) ==
  /\ run[s] # "unused"
  /\ ~ctxDone[s]
  /\ ctxDone' = [ctxDone EXCEPT ![s] = TRUE]
  /\ UNCHANGED <<clientVars, run, cancelled, ready, done, callerVars>>

(* Nothing refers to the session any more; its name may be used again.     *)
Reclaim(s) ==
  /\ MoveRun(s, "finished", "unused")
  /\ cancelRun # s
  /\ \A p \in Callers : sess[p] # s
  /\ cancelled' = [cancelled EXCEPT ![s] = FALSE]
  /\ ctxDone' = [ctxDone EXCEPT ![s] = FALSE]
  /\ ready' = [ready EXCEPT ![s] = "empty"]
  /\ done' = [done EXCEPT ![s] = "empty"]
  /\ UNCHANGED <<clientVars, callerVars>>

-----------------------------------------------------------------------------
(* What a caller does once it is inside a method.                          *)
CallerStep(p) ==
  \/ ConnectOpenStore(p) \/ ConnectStoreFails(p) \/ ConnectSpawn(p)
  \/ ConnectReady(p) \/ ConnectAuthFailed(p) \/ ConnectCtxDone(p)
  \/ ConnectRunEnded(p) \/ ConnectAbandoned(p) \/ ConnectPublish(p)
  \/ DisconnectCancel(p) \/ DisconnectDone(p)
  \/ CloseCancel(p) \/ CloseDone(p) \/ CloseTimeout(p) \/ CloseDB(p)
  \/ StatusAnswer(p)

(* What the host may decide to call.                                       *)
CallerCall(p) ==
  \/ ConnectCheck(p) \/ DisconnectTake(p) \/ CloseTake(p) \/ StatusAsk(p)

SessionStep(s) ==
  \/ DialFails(s) \/ CallbackStarts(s) \/ Authorized(s) \/ NotAuthorized(s)
  \/ FetchSelf(s) \/ Announce(s) \/ FailedRunReturns(s) \/ StopServing(s)
  \/ ConnectionLost(s) \/ Cleanup(s) \/ HostCancels(s) \/ Reclaim(s)

Next ==
  \/ \E p \in Callers : CallerCall(p) \/ CallerStep(p)
  \/ \E s \in Sessions : SessionStep(s)

Spec == Init /\ [][Next]_vars

-----------------------------------------------------------------------------
(* Fairness.  The Go scheduler runs every goroutine that can run, so a     *)
(* caller inside a method takes its enabled steps; the 5s timer of Close   *)
(* is such a step.  Nothing makes the host call a method, cancel a ctx or  *)
(* lose a connection.                                                      *)
FairSpec == Spec /\ \A p \in Callers : WF_vars(CallerStep(p))

(* gotd's side of a cancelled runCtx: "gotd's Run terminates promptly once *)
(* runCtx is cancelled" (telegram.go, Close).  This is an assumption about *)
(* the network, the prompts and gotd.                                      *)
Unwind(s) ==
  /\ cancelled[s]
  /\ \/ DialFails(s) \/ NotAuthorized(s) \/ FetchSelf(s) \/ Announce(s)
     \/ FailedRunReturns(s) \/ StopServing(s)

Prompt == \A s \in Sessions : WF_vars(Unwind(s))

-----------------------------------------------------------------------------
(* Properties.                                                             *)

(* A caller that still has to receive from done, or will hand done on.     *)
HoldsDone(p) == pc[p] \in {"select", "publish", "abandon"} \cup DisconnectSteps
                            \cup {"closeCancel", "closeWait"}

(* connected and api tell the same story whenever c.mu is free: the five   *)
(* critical sections that write one of them write the other to match.      *)
ConnectedMatchesAPI == connected <=> api # None

(* withAPI never hands out the client of a goroutine that has gone: as     *)
(* long as c.api names a session, its goroutine still has its cleanup      *)
(* ahead, whatever Disconnect, Close and other sessions did meanwhile.     *)
ApiHasGoroutine ==
  api # None => run[api] \notin {"unused", "dialing", "finished"}

(* done carries a single value, so it must have a single receiver.  Nobody *)
(* waits for a value another caller has received (Disconnect has no        *)
(* timeout and would block forever), two callers never wait for the same   *)
(* session, and a published session is nobody's business but the field's.  *)
DoneHasOneReceiver ==
  \A s \in Sessions :
    /\ \A p, q \in Callers :
         HoldsDone(p) /\ HoldsDone(q) /\ sess[p] = s /\ sess[q] = s => p = q
    /\ \A p \in Callers :
         HoldsDone(p) /\ sess[p] = s => done[s] # "received" /\ cancelRun # s
    /\ cancelRun = s => done[s] # "received"

(* When a Connect that had started its goroutine reports an error, and     *)
(* when a Disconnect that found a session returns, gotd's Run of that      *)
(* session is over: the failed attempt is not still talking to Telegram,   *)
(* and the next Connect may use session.json.                              *)
RunOverOnReturn ==
  [][\A p \in Callers :
       pc[p] \in {"select", "abandon"} \cup DisconnectSteps /\ pc'[p] = "idle"
         => run[sess[p]] \in {"returned", "finished"}]_vars

(* Close returns, even if gotd's Run never does (telegram.go, audit fix    *)
(* H2: "bound the wait so a wedged network can't pin Close forever").      *)
CloseReturns ==
  \A p \in Callers : pc[p] \in CloseSteps ~> pc[p] = "idle"

(* Disconnect returns provided that gotd's Run ends when it is cancelled.  *)
DisconnectReturns ==
  Prompt => \A p \in Callers : pc[p] \in DisconnectSteps ~> pc[p] = "idle"

(* A Connect whose ctx is done returns, whatever the callback is doing,    *)
(* with the same proviso.                                                  *)
ConnectHonoursCtx ==
  Prompt => \A p \in Callers :
    pc[p] = "select" /\ ctxDone[sess[p]] ~> pc[p] = "idle"

-----------------------------------------------------------------------------
(* The rights to a session (cancelRun and runDone in the code), as module  *)
(* Handoff sees them.  A caller that is about to close the database has    *)
(* received from done or has given up.                                     *)

Holds(p, s) == sess[p] = s /\ pc[p] # "closeDB"

OwnerOf(s) ==
  IF cancelRun = s THEN "field"
  ELSE IF \E p \in Callers : Holds(p, s) THEN CHOOSE p \in Callers : Holds(p, s)
  ELSE IF run[s] # "unused" /\ ~cancelled[s] THEN "lost"
  ELSE "nobody"

PhaseOf(s) ==
  CASE done[s] = "received" -> "told"
    [] done[s] = "full"     -> "over"
    [] OTHER -> IF run[s] = "unused" THEN "unused" ELSE "live"

Rights == INSTANCE Handoff
  WITH owner <- [s \in Sessions |-> OwnerOf(s)], phase <- [s \in Sessions |-> PhaseOf(s)]

(* The methods hand over a session as Handoff says.  In particular a       *)
(* session that runs on although neither a caller nor the field knows it   *)
(* has been cancelled, unless a later Connect has overwritten the field;   *)
(* the timeout of Close would hide a missing cancel from every test.       *)
SessionsAreHandedOver == Rights!Spec

-----------------------------------------------------------------------------
(* What the comment of Connect promises and the code does not keep.        *)

(* connect.go:14: Connect "brings up the MTProto session" and "keeps it    *)
(* alive until Close"; it "returns nil once the client is ready for use".  *)
(* While the session that Connect published is up, calls must reach it.    *)
PublishedSessionUsable ==
  cancelRun # None /\ run[cancelRun] = "serving" /\ ~cancelled[cancelRun]
    => WithAPI = "ok"
=============================================================================
