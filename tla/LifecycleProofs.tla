--------------------------- MODULE LifecycleProofs ---------------------------
(***************************************************************************)
(* The safety properties of Lifecycle, for any number of callers and       *)
(* sessions.  The argument is one of ownership: from the moment ConnectCheck *)
(* names a session, its cancel function and its done channel belong to one *)
(* caller or to the field cancelRun, and every method that takes them out  *)
(* of the field clears it in the same critical section.                    *)
(***************************************************************************)
EXTENDS Lifecycle, TLAPS

(* A session has at most one owner: a caller, or the published field.      *)
SingleOwner ==
  /\ \A p, q \in Callers : sess[p] = sess[q] /\ sess[p] # None => p = q
  /\ \A p \in Callers : sess[p] # None => cancelRun # sess[p]

(* Which steps need a session, and which cannot have one.                  *)
StepsOwnSession ==
  \A p \in Callers :
    /\ pc[p] \in ConnectSteps \cup DisconnectSteps \cup {"closeWait"} => sess[p] # None
    /\ pc[p] \in {"idle", "status"} => sess[p] = None

(* A name that is only reserved has no goroutine; once Connect has started *)
(* the goroutine, the name is in use until nobody refers to it.            *)
ReservedIsUnused ==
  /\ \A p \in Callers :
       sess[p] # None => (pc[p] \in {"open", "spawn"} <=> run[sess[p]] = "unused")
  /\ cancelRun # None => run[cancelRun] # "unused"

(* done is filled when Run returns and not before; whoever still waits for *)
(* the value, or may be handed the channel, finds it there.                *)
DoneFollowsRun ==
  /\ \A s \in Sessions : done[s] # "empty" <=> run[s] \in {"returned", "finished"}
  /\ \A p \in Callers : HoldsDone(p) /\ sess[p] # None => done[sess[p]] # "received"
  /\ cancelRun # None => done[cancelRun] # "received"

(* The inductive invariant.                                               *)
IInv ==
  /\ TypeOK
  /\ ConnectedMatchesAPI
  /\ ApiHasGoroutine
  /\ SingleOwner
  /\ StepsOwnSession
  /\ ReservedIsUnused
  /\ DoneFollowsRun

(* Connect names a session, starts its goroutine, waits for it and, on       *)
(* success, hands it over to the field.                                    *)
LEMMA ConnectKeepsIInv ==
  ASSUME IInv, NEW p \in Callers,
         ConnectCheck(p) \/ ConnectOpenStore(p)
         \/ ConnectStoreFails(p) \/ ConnectSpawn(p) \/ ConnectReady(p)
         \/ ConnectAuthFailed(p) \/ ConnectCtxDone(p)
         \/ ConnectRunEnded(p) \/ ConnectAbandoned(p)
         \/ ConnectPublish(p)
  PROVE  IInv'
<1> USE NoneIsNoSession DEF IInv, TypeOK, ConnectedMatchesAPI, ApiHasGoroutine,
      SingleOwner, StepsOwnSession, ReservedIsUnused, DoneFollowsRun, HoldsDone,
      Steps, ConnectSteps, DisconnectSteps, CloseSteps, RunStates,
      clientVars, sessionVars, callerVars
<1>1. CASE ConnectCheck(p)
  BY <1>1 DEF ConnectCheck, Go
<1>2. CASE ConnectOpenStore(p)
  BY <1>2 DEF ConnectOpenStore, Go
<1>3. CASE ConnectStoreFails(p)
  BY <1>3 DEF ConnectStoreFails, Return
<1>4. CASE ConnectSpawn(p)
  BY <1>4 DEF ConnectSpawn, Go
<1>5. CASE ConnectReady(p)
  BY <1>5 DEF ConnectReady, Go
<1>6. CASE ConnectAuthFailed(p)
  BY <1>6 DEF ConnectAuthFailed, Go, Cancel
<1>7. CASE ConnectCtxDone(p)
  BY <1>7 DEF ConnectCtxDone, Go, Cancel
<1>8. CASE ConnectRunEnded(p)
  BY <1>8 DEF ConnectRunEnded, Return, Cancel, ReceiveDone
<1>9. CASE ConnectAbandoned(p)
  BY <1>9 DEF ConnectAbandoned, Return, ReceiveDone
<1>10. CASE ConnectPublish(p)
  BY <1>10 DEF ConnectPublish, Return
<1> QED
  BY <1>1, <1>2, <1>3, <1>4, <1>5, <1>6, <1>7, <1>8, <1>9, <1>10

(* Disconnect takes the session out of the field and waits for its Run.    *)
LEMMA DisconnectKeepsIInv ==
  ASSUME IInv, NEW p \in Callers,
         DisconnectTake(p) \/ DisconnectCancel(p) \/ DisconnectDone(p)
  PROVE  IInv'
<1> USE NoneIsNoSession DEF IInv, TypeOK, ConnectedMatchesAPI, ApiHasGoroutine,
      SingleOwner, StepsOwnSession, ReservedIsUnused, DoneFollowsRun, HoldsDone,
      Steps, ConnectSteps, DisconnectSteps, CloseSteps, RunStates,
      clientVars, sessionVars, callerVars
<1>1. CASE DisconnectTake(p)
  <2> USE <1>1 DEF DisconnectTake
  <2>1. TypeOK'
    OBVIOUS
  <2>2. ConnectedMatchesAPI'
    OBVIOUS
  <2>3. ApiHasGoroutine'
    OBVIOUS
  <2>4. SingleOwner'
    OBVIOUS
  <2>5. StepsOwnSession'
    OBVIOUS
  <2>6. ReservedIsUnused'
    OBVIOUS
  <2>7. DoneFollowsRun'
    OBVIOUS
  <2> QED
    BY <2>1, <2>2, <2>3, <2>4, <2>5, <2>6, <2>7 DEF IInv
<1>2. CASE DisconnectCancel(p)
  BY <1>2 DEF DisconnectCancel, Go, Cancel
<1>3. CASE DisconnectDone(p)
  BY <1>3 DEF DisconnectDone, Return, ReceiveDone
<1> QED
  BY <1>1, <1>2, <1>3

(* Close does the same with a bounded wait, and gives up the database.     *)
LEMMA CloseKeepsIInv ==
  ASSUME IInv, NEW p \in Callers,
         CloseTake(p) \/ CloseCancel(p) \/ CloseDone(p)
         \/ CloseTimeout(p) \/ CloseDB(p)
  PROVE  IInv'
<1> USE NoneIsNoSession DEF IInv, TypeOK, ConnectedMatchesAPI, ApiHasGoroutine,
      SingleOwner, StepsOwnSession, ReservedIsUnused, DoneFollowsRun, HoldsDone,
      Steps, ConnectSteps, DisconnectSteps, CloseSteps, RunStates,
      clientVars, sessionVars, callerVars
<1>1. CASE CloseTake(p)
  <2> USE <1>1 DEF CloseTake, Go
  <2>1. TypeOK'
    OBVIOUS
  <2>2. ConnectedMatchesAPI'
    OBVIOUS
  <2>3. ApiHasGoroutine'
    OBVIOUS
  <2>4. SingleOwner'
    OBVIOUS
  <2>5. StepsOwnSession'
    OBVIOUS
  <2>6. ReservedIsUnused'
    OBVIOUS
  <2>7. DoneFollowsRun'
    OBVIOUS
  <2> QED
    BY <2>1, <2>2, <2>3, <2>4, <2>5, <2>6, <2>7 DEF IInv
<1>2. CASE CloseCancel(p)
  <2> USE <1>2 DEF CloseCancel, Cancel
  <2>1. TypeOK'
    <3>1. CASE sess[p] = None
      BY <3>1
    <3>2. CASE sess[p] # None
      <4>1. cancelled' = [cancelled EXCEPT ![sess[p]] = TRUE]
        BY <3>2
      <4>2. cancelled' \in [Sessions -> BOOLEAN]
        BY <4>1
      <4>3. pc' \in [Callers -> Steps]
        BY <3>2
      <4> QED
        BY <4>2, <4>3
    <3> QED
      BY <3>1, <3>2
  <2>2. ConnectedMatchesAPI'
    OBVIOUS
  <2>3. ApiHasGoroutine'
    OBVIOUS
  <2>4. SingleOwner'
    OBVIOUS
  <2>5. StepsOwnSession'
    OBVIOUS
  <2>6. ReservedIsUnused'
    OBVIOUS
  <2>7. DoneFollowsRun'
    OBVIOUS
  <2> QED
    BY <2>1, <2>2, <2>3, <2>4, <2>5, <2>6, <2>7 DEF IInv
<1>3. CASE CloseDone(p)
  BY <1>3 DEF CloseDone, Go, ReceiveDone
<1>4. CASE CloseTimeout(p)
  BY <1>4 DEF CloseTimeout, Go
<1>5. CASE CloseDB(p)
  BY <1>5 DEF CloseDB, Return
<1> QED
  BY <1>1, <1>2, <1>3, <1>4, <1>5

(* Status only ever writes selfUser.                                       *)
LEMMA StatusKeepsIInv ==
  ASSUME IInv, NEW p \in Callers,
         StatusAsk(p) \/ StatusAnswer(p)
  PROVE  IInv'
<1> USE NoneIsNoSession DEF IInv, TypeOK, ConnectedMatchesAPI, ApiHasGoroutine,
      SingleOwner, StepsOwnSession, ReservedIsUnused, DoneFollowsRun, HoldsDone,
      Steps, ConnectSteps, DisconnectSteps, CloseSteps, RunStates,
      clientVars, sessionVars, callerVars
<1>1. CASE StatusAsk(p)
  BY <1>1 DEF StatusAsk, Go, WithAPI
<1>2. CASE StatusAnswer(p)
  <2> USE <1>2 DEF StatusAnswer, Go
  <2>1. TypeOK'
    OBVIOUS
  <2>2. ConnectedMatchesAPI'
    OBVIOUS
  <2>3. ApiHasGoroutine'
    OBVIOUS
  <2>4. SingleOwner'
    OBVIOUS
  <2>5. StepsOwnSession'
    OBVIOUS
  <2>6. ReservedIsUnused'
    OBVIOUS
  <2>7. DoneFollowsRun'
    OBVIOUS
  <2> QED
    BY <2>1, <2>2, <2>3, <2>4, <2>5, <2>6, <2>7 DEF IInv
<1> QED
  BY <1>1, <1>2

(* The goroutine of a session, the host's cancel and the reuse of a name.  *)
LEMMA SessionKeepsIInv ==
  ASSUME IInv, NEW s \in Sessions,
         DialFails(s) \/ CallbackStarts(s) \/ Authorized(s)
         \/ NotAuthorized(s) \/ FetchSelf(s) \/ Announce(s)
         \/ FailedRunReturns(s) \/ StopServing(s) \/ ConnectionLost(s)
         \/ Cleanup(s) \/ HostCancels(s) \/ Reclaim(s)
  PROVE  IInv'
<1> USE NoneIsNoSession DEF IInv, TypeOK, ConnectedMatchesAPI, ApiHasGoroutine,
      SingleOwner, StepsOwnSession, ReservedIsUnused, DoneFollowsRun, HoldsDone,
      Steps, ConnectSteps, DisconnectSteps, CloseSteps, RunStates,
      clientVars, sessionVars, callerVars
<1>1. CASE DialFails(s)
  BY <1>1 DEF DialFails, RunReturn
<1>2. CASE CallbackStarts(s)
  BY <1>2 DEF CallbackStarts, MoveRun
<1>3. CASE Authorized(s)
  BY <1>3 DEF Authorized, MoveRun
<1>4. CASE NotAuthorized(s)
  BY <1>4 DEF NotAuthorized, MoveRun
<1>5. CASE FetchSelf(s)
  <2> USE <1>5 DEF FetchSelf, MoveRun
  <2>1. TypeOK'
    OBVIOUS
  <2>2. ConnectedMatchesAPI'
    OBVIOUS
  <2>3. ApiHasGoroutine'
    OBVIOUS
  <2>4. SingleOwner'
    OBVIOUS
  <2>5. StepsOwnSession'
    OBVIOUS
  <2>6. ReservedIsUnused'
    OBVIOUS
  <2>7. DoneFollowsRun'
    OBVIOUS
  <2> QED
    BY <2>1, <2>2, <2>3, <2>4, <2>5, <2>6, <2>7 DEF IInv
<1>6. CASE Announce(s)
  BY <1>6 DEF Announce, MoveRun
<1>7. CASE FailedRunReturns(s)
  BY <1>7 DEF FailedRunReturns, RunReturn
<1>8. CASE StopServing(s)
  BY <1>8 DEF StopServing, RunReturn
<1>9. CASE ConnectionLost(s)
  BY <1>9 DEF ConnectionLost, RunReturn
<1>10. CASE Cleanup(s)
  <2> USE <1>10 DEF Cleanup, MoveRun
  <2>1. TypeOK'
    OBVIOUS
  <2>2. ConnectedMatchesAPI'
    OBVIOUS
  <2>3. ApiHasGoroutine'
    OBVIOUS
  <2>4. SingleOwner'
    OBVIOUS
  <2>5. StepsOwnSession'
    OBVIOUS
  <2>6. ReservedIsUnused'
    OBVIOUS
  <2>7. DoneFollowsRun'
    OBVIOUS
  <2> QED
    BY <2>1, <2>2, <2>3, <2>4, <2>5, <2>6, <2>7 DEF IInv
<1>11. CASE HostCancels(s)
  BY <1>11 DEF HostCancels
<1>12. CASE Reclaim(s)
  BY <1>12 DEF Reclaim, MoveRun
<1> QED
  BY <1>1, <1>2, <1>3, <1>4, <1>5, <1>6, <1>7, <1>8, <1>9, <1>10, <1>11, <1>12

-----------------------------------------------------------------------------
(* No step of any caller or session leaves the invariant.                  *)
LEMMA NextKeepsIInv ==
  IInv /\ [Next]_vars => IInv'
<1> SUFFICES ASSUME IInv, [Next]_vars PROVE IInv'
  OBVIOUS
<1>1. CASE UNCHANGED vars
  BY <1>1 DEF vars, IInv, TypeOK, ConnectedMatchesAPI, ApiHasGoroutine, SingleOwner,
     StepsOwnSession, ReservedIsUnused, DoneFollowsRun, HoldsDone
<1>2. CASE \E p \in Callers : CallerCall(p) \/ CallerStep(p)
  BY <1>2, ConnectKeepsIInv, DisconnectKeepsIInv, CloseKeepsIInv, StatusKeepsIInv
     DEF CallerCall, CallerStep
<1>3. CASE \E s \in Sessions : SessionStep(s)
  BY <1>3, SessionKeepsIInv DEF SessionStep
<1> QED
  BY <1>1, <1>2, <1>3 DEF Next

(* A new client: nothing is connected, published or running.               *)
LEMMA InitIInv == Init => IInv
<1> SUFFICES ASSUME Init PROVE IInv
  OBVIOUS
<1> USE NoneIsNoSession DEF Init, TypeOK, ConnectedMatchesAPI, ApiHasGoroutine,
      SingleOwner, StepsOwnSession, ReservedIsUnused, DoneFollowsRun, HoldsDone,
      Steps, ConnectSteps, DisconnectSteps, CloseSteps, RunStates
<1>1. TypeOK
  OBVIOUS
<1>2. ConnectedMatchesAPI /\ ApiHasGoroutine
  OBVIOUS
<1>3. SingleOwner /\ StepsOwnSession
  OBVIOUS
<1>4. ReservedIsUnused /\ DoneFollowsRun
  OBVIOUS
<1> QED
  BY <1>1, <1>2, <1>3, <1>4 DEF IInv

(* The invariant holds throughout, for any number of callers and sessions. *)
THEOREM Invariant == Spec => []IInv
BY InitIInv, NextKeepsIInv, PTL DEF Spec

(* Type correctness of the client's fields, the sessions and the callers.  *)
THEOREM TypeCorrect == Spec => []TypeOK
BY Invariant, PTL DEF IInv

(* connected is true exactly when there is an API to call: the checks in   *)
(* Connect and Status (connected) and in withAPI (api) never disagree.     *)
THEOREM FieldsAgree == Spec => []ConnectedMatchesAPI
BY Invariant, PTL DEF IInv

(* withAPI never hands out the client of a goroutine that has cleaned up.  *)
THEOREM NoStaleAPI == Spec => []ApiHasGoroutine
BY Invariant, PTL DEF IInv

(* Ownership gives the single receiver of done.                            *)
LEMMA OwnershipGivesOneReceiver == IInv => DoneHasOneReceiver
<1> SUFFICES ASSUME IInv, NEW s \in Sessions
             PROVE  /\ \A p, q \in Callers :
                         HoldsDone(p) /\ HoldsDone(q) /\ sess[p] = s /\ sess[q] = s => p = q
                    /\ \A p \in Callers :
                         HoldsDone(p) /\ sess[p] = s => done[s] # "received" /\ cancelRun # s
                    /\ cancelRun = s => done[s] # "received"
  BY DEF DoneHasOneReceiver
<1>1. s # None
  BY NoneIsNoSession
<1> QED
  BY <1>1 DEF IInv, SingleOwner, DoneFollowsRun

(* Nobody ever waits for a done value that somebody else has received, so  *)
(* neither Disconnect nor a failing Connect can block on an empty channel  *)
(* after Run has returned.                                                 *)
THEOREM OneReceiver == Spec => []DoneHasOneReceiver
<1>1. IInv => DoneHasOneReceiver
  BY OwnershipGivesOneReceiver
<1> QED
  BY <1>1, Invariant, PTL

(* The receive is the only way out of the waiting steps.                   *)
LEMMA OnlyReceivingReturns ==
  ASSUME IInv, [Next]_vars, NEW p \in Callers,
         pc[p] \in {"select", "abandon"} \cup DisconnectSteps, pc'[p] = "idle"
  PROVE  done[sess[p]] = "full"
<1> USE DEF DisconnectSteps, Go, Return
<1>1. CASE UNCHANGED vars
  BY <1>1 DEF vars
<1>2. ASSUME NEW q \in Callers, CallerCall(q) PROVE FALSE
  BY <1>2 DEF IInv, TypeOK, CallerCall, ConnectCheck, DisconnectTake, CloseTake, StatusAsk
<1>3. ASSUME NEW q \in Callers, CallerStep(q) PROVE done[sess[p]] = "full"
  BY <1>3 DEF IInv, TypeOK, CallerStep, ConnectOpenStore, ConnectStoreFails, ConnectSpawn,
     ConnectReady, ConnectAuthFailed, ConnectCtxDone, ConnectRunEnded, ConnectAbandoned,
     ConnectPublish, DisconnectCancel, DisconnectDone, CloseCancel, CloseDone, CloseTimeout,
     CloseDB, StatusAnswer, ReceiveDone
<1>4. ASSUME NEW s \in Sessions, SessionStep(s) PROVE FALSE
  BY <1>4 DEF SessionStep, DialFails, CallbackStarts, Authorized, NotAuthorized, FetchSelf,
     Announce, FailedRunReturns, StopServing, ConnectionLost, Cleanup, HostCancels, Reclaim,
     MoveRun, RunReturn, callerVars
<1> QED
  BY <1>1, <1>2, <1>3, <1>4 DEF Next

(* When a failed Connect or a Disconnect returns, gotd's Run is over.      *)
THEOREM RunOver == Spec => RunOverOnReturn
<1>1. IInv /\ [Next]_vars
      => [\A p \in Callers :
            pc[p] \in {"select", "abandon"} \cup DisconnectSteps /\ pc'[p] = "idle"
              => run[sess[p]] \in {"returned", "finished"}]_vars
  <2> SUFFICES ASSUME IInv, [Next]_vars, NEW p \in Callers,
                      pc[p] \in {"select", "abandon"} \cup DisconnectSteps, pc'[p] = "idle"
               PROVE  run[sess[p]] \in {"returned", "finished"}
    OBVIOUS
  <2>1. done[sess[p]] = "full"
    BY OnlyReceivingReturns
  <2>2. sess[p] \in Sessions
    BY DEF IInv, TypeOK, StepsOwnSession, ConnectSteps, DisconnectSteps
  <2> QED
    BY <2>1, <2>2 DEF IInv, DoneFollowsRun
<1> QED
  BY <1>1, Invariant, PTL DEF Spec, RunOverOnReturn

-----------------------------------------------------------------------------
(* Handing over.  A session is cancelled by its owner and stays with it    *)
(* until Run is over; what is in the field, or on its way there, has not   *)
(* been cancelled.                                                         *)
CancelledByOwner ==
  /\ \A p \in Callers : pc[p] \in {"abandon", "disWait", "closeWait"} => cancelled[sess[p]]
  /\ \A p \in Callers : pc[p] \in {"open", "spawn", "select", "publish"} => ~cancelled[sess[p]]
  /\ \A p \in Callers : pc[p] \in {"disCancel", "closeCancel"} /\ sess[p] # None => ~cancelled[sess[p]]
  /\ cancelRun # None => ~cancelled[cancelRun]
  /\ \A s \in Sessions : run[s] = "unused" => ~cancelled[s]

(* No step of any caller or session leaves it.                             *)
LEMMA NextKeepsCancelled ==
  ASSUME IInv, CancelledByOwner, [Next]_vars
  PROVE  CancelledByOwner'
<1> USE NoneIsNoSession DEF IInv, TypeOK, SingleOwner, StepsOwnSession, ReservedIsUnused,
      CancelledByOwner, ConnectSteps, DisconnectSteps, CloseSteps,
      clientVars, sessionVars, callerVars
<1>1. ASSUME NEW p \in Callers, CallerCall(p) PROVE CancelledByOwner'
  <2>1. CASE ConnectCheck(p)
    BY <2>1 DEF ConnectCheck, Go
  <2>2. CASE DisconnectTake(p)
    BY <2>2 DEF DisconnectTake
  <2>3. CASE CloseTake(p)
    BY <2>3 DEF CloseTake, Go
  <2>4. CASE StatusAsk(p)
    BY <2>4 DEF StatusAsk, Go
  <2> QED
    BY <1>1, <2>1, <2>2, <2>3, <2>4 DEF CallerCall
<1>2. ASSUME NEW p \in Callers, CallerStep(p) PROVE CancelledByOwner'
  <2>1. CASE ConnectOpenStore(p) \/ ConnectStoreFails(p) \/ ConnectSpawn(p)
    BY <2>1 DEF ConnectOpenStore, ConnectStoreFails, ConnectSpawn, Go, Return
  <2>2. CASE ConnectReady(p)
    BY <2>2 DEF ConnectReady, Go
  <2>3. CASE ConnectAuthFailed(p)
    BY <2>3 DEF ConnectAuthFailed, Go, Cancel
  <2>4. CASE ConnectCtxDone(p)
    BY <2>4 DEF ConnectCtxDone, Go, Cancel
  <2>5. CASE ConnectRunEnded(p)
    BY <2>5 DEF ConnectRunEnded, Return, Cancel, ReceiveDone
  <2>6. CASE ConnectAbandoned(p)
    BY <2>6 DEF ConnectAbandoned, Return, ReceiveDone
  <2>7. CASE ConnectPublish(p)
    BY <2>7 DEF ConnectPublish, Return
  <2>8. CASE DisconnectCancel(p)
    BY <2>8 DEF DisconnectCancel, Go, Cancel
  <2>9. CASE DisconnectDone(p)
    BY <2>9 DEF DisconnectDone, Return, ReceiveDone
  <2>10. CASE CloseCancel(p)
    <3>1. CASE sess[p] = None
      BY <2>10, <3>1 DEF CloseCancel
    <3>2. CASE sess[p] # None
      BY <2>10, <3>2 DEF CloseCancel, Cancel
    <3> QED
      BY <3>1, <3>2
  <2>11. CASE CloseDone(p) \/ CloseTimeout(p) \/ CloseDB(p)
    BY <2>11 DEF CloseDone, CloseTimeout, CloseDB, Go, Return, ReceiveDone
  <2>12. CASE StatusAnswer(p)
    BY <2>12 DEF StatusAnswer, Go
  <2> QED
    BY <1>2, <2>1, <2>2, <2>3, <2>4, <2>5, <2>6, <2>7, <2>8, <2>9, <2>10, <2>11, <2>12 DEF CallerStep
<1>3. ASSUME NEW s \in Sessions, SessionStep(s) PROVE CancelledByOwner'
  <2>1. CASE Reclaim(s)
    <3>1. ~cancelled'[s] /\ \A t \in Sessions : t # s => cancelled'[t] = cancelled[t] /\ run'[t] = run[t]
      BY <2>1 DEF Reclaim, MoveRun
    <3>2. cancelRun # s /\ \A p \in Callers : sess[p] # s
      BY <2>1 DEF Reclaim
    <3>3. UNCHANGED <<cancelRun, pc, sess>>
      BY <2>1 DEF Reclaim
    <3>4. ASSUME NEW p \in Callers, sess[p] # None
          PROVE  cancelled'[sess[p]] <=> cancelled[sess[p]]
      BY <3>1, <3>2, <3>4
    <3>5. ASSUME NEW p \in Callers, pc[p] \in {"open", "spawn", "select", "publish", "abandon", "disWait", "closeWait"}
          PROVE  sess[p] # None
      BY <3>5
    <3>6. cancelRun # None => (cancelled'[cancelRun] <=> cancelled[cancelRun])
      BY <3>1, <3>2
    <3>7. \A t \in Sessions : run'[t] = "unused" => ~cancelled'[t]
      BY <3>1
    <3> QED
      BY <3>3, <3>4, <3>5, <3>6, <3>7
  <2>2. CASE DialFails(s) \/ FailedRunReturns(s) \/ StopServing(s) \/ ConnectionLost(s)
    BY <2>2 DEF DialFails, FailedRunReturns, StopServing, ConnectionLost, RunReturn
  <2>3. CASE CallbackStarts(s) \/ Authorized(s) \/ NotAuthorized(s) \/ FetchSelf(s) \/ Announce(s)
    <3>1. UNCHANGED <<cancelRun, cancelled, pc, sess>>
      BY <2>3 DEF CallbackStarts, Authorized, NotAuthorized, FetchSelf, Announce
    <3>2. PICK to \in RunStates \ {"unused"} : run' = [run EXCEPT ![s] = to]
      BY <2>3 DEF CallbackStarts, Authorized, NotAuthorized, FetchSelf, Announce, MoveRun, RunStates
    <3>3. \A t \in Sessions : run'[t] = "unused" => run[t] = "unused"
      BY <3>2
    <3> QED
      BY <3>1, <3>3
  <2>4. CASE Cleanup(s) \/ HostCancels(s)
    BY <2>4 DEF Cleanup, HostCancels, MoveRun
  <2> QED
    BY <1>3, <2>1, <2>2, <2>3, <2>4 DEF SessionStep
<1>4. CASE UNCHANGED vars
  BY <1>4 DEF vars
<1> QED
  BY <1>1, <1>2, <1>3, <1>4 DEF Next

(* A caller waits only for a Run that has been told to end, and nothing    *)
(* that may still be published has been told so.                           *)
THEOREM CancelledInvariant == Spec => []CancelledByOwner
<1>1. Init => CancelledByOwner
  BY DEF Init, CancelledByOwner
<1>2. IInv /\ CancelledByOwner /\ [Next]_vars => CancelledByOwner'
  BY NextKeepsCancelled
<1> QED
  BY <1>1, <1>2, Invariant, PTL DEF Spec

(* Who owns a session, without CHOOSE.                                     *)
Ownership ==
  \A s \in Sessions :
    /\ cancelRun = s => OwnerOf(s) = "field"
    /\ \A p \in Callers : Holds(p, s) => cancelRun # s /\ OwnerOf(s) = p
    /\ cancelRun # s /\ (\A p \in Callers : ~Holds(p, s)) =>
         OwnerOf(s) = IF run[s] # "unused" /\ ~cancelled[s] THEN "lost" ELSE "nobody"

(* The callers and the field never share a session.                        *)
LEMMA OwnersAreUnique == IInv => Ownership
<1> SUFFICES ASSUME IInv, NEW s \in Sessions
             PROVE  /\ cancelRun = s => OwnerOf(s) = "field"
                    /\ \A p \in Callers : Holds(p, s) => cancelRun # s /\ OwnerOf(s) = p
                    /\ cancelRun # s /\ (\A p \in Callers : ~Holds(p, s)) =>
                         OwnerOf(s) = IF run[s] # "unused" /\ ~cancelled[s] THEN "lost" ELSE "nobody"
  BY DEF Ownership
<1>1. ASSUME NEW p \in Callers, Holds(p, s)
      PROVE  cancelRun # s /\ OwnerOf(s) = p
  <2>1. cancelRun # s
    BY <1>1, NoneIsNoSession DEF IInv, SingleOwner, Holds
  <2>2. \A q \in Callers : Holds(q, s) => q = p
    BY <1>1, NoneIsNoSession DEF IInv, SingleOwner, Holds
  <2>3. (CHOOSE q \in Callers : Holds(q, s)) = p
    BY <1>1, <2>2
  <2> QED
    BY <1>1, <2>1, <2>3 DEF OwnerOf
<1> QED
  BY <1>1 DEF OwnerOf

(* And so it is after a step.                                              *)
LEMMA OwnersStayUnique == IInv' => Ownership'
BY OwnersAreUnique, PTL

(* A caller owns what it holds.                                            *)
LEMMA OwnersHold ==
  ASSUME IInv, NEW p \in Callers, NEW s \in Sessions
  PROVE  OwnerOf(s) = p <=> Holds(p, s)
<1>1. Ownership
  BY OwnersAreUnique
<1>2. p \notin {"field", "lost", "nobody"}
  BY CallersAreNamed
<1>3. CASE cancelRun = s
  BY <1>1, <1>2, <1>3 DEF Ownership
<1>4. CASE cancelRun # s /\ \A q \in Callers : ~Holds(q, s)
  BY <1>1, <1>2, <1>4 DEF Ownership
<1>5. ASSUME NEW q \in Callers, Holds(q, s)
      PROVE  OwnerOf(s) = p <=> Holds(p, s)
  BY <1>1, <1>5, NoneIsNoSession DEF Ownership, Holds, IInv, SingleOwner
<1> QED
  BY <1>3, <1>4, <1>5

(* Whoever is not concerned by a step keeps the session.                   *)
LEMMA OthersKeepOwner ==
  ASSUME IInv, IInv', NEW s \in Sessions,
         cancelRun' = s <=> cancelRun = s,
         \A q \in Callers : Holds(q, s)' <=> Holds(q, s),
         run'[s] = "unused" <=> run[s] = "unused",
         cancelled'[s] = cancelled[s]
  PROVE  OwnerOf(s)' = OwnerOf(s)
<1>1. Ownership /\ Ownership'
  BY OwnersAreUnique, OwnersStayUnique
<1> QED
  BY <1>1 DEF Ownership

(* A session somebody works with is live or over, and nobody was told.     *)
LEMMA HeldPhase ==
  ASSUME IInv, NEW s \in Sessions, run[s] # "unused",
         cancelRun = s \/ \E p \in Callers : HoldsDone(p) /\ sess[p] = s
  PROVE  /\ PhaseOf(s) \in {"live", "over"}
         /\ done[s] = "full" => PhaseOf(s) = "over"
<1>1. done[s] \in {"empty", "full"}
  BY NoneIsNoSession DEF IInv, TypeOK, DoneFollowsRun
<1> QED
  BY <1>1 DEF PhaseOf

(* The whole of a step that hands nothing over.                            *)
LEMMA NothingHandedOver ==
  ASSUME IInv, IInv',
         cancelRun' = cancelRun, cancelled' = cancelled,
         \A s \in Sessions, q \in Callers : Holds(q, s)' <=> Holds(q, s),
         \A s \in Sessions : run'[s] = "unused" <=> run[s] = "unused",
         done' = done
  PROVE  UNCHANGED Rights!handoffVars
<1>1. \A s \in Sessions : OwnerOf(s)' = OwnerOf(s)
  BY OthersKeepOwner
<1>2. \A s \in Sessions : PhaseOf(s)' = PhaseOf(s)
  BY DEF PhaseOf
<1> QED
  BY <1>1, <1>2 DEF Rights!handoffVars

(* The owner of a session that has a Run cancels it.                       *)
LEMMA CancelsOwn ==
  ASSUME IInv, IInv', NEW p \in Callers, NEW s \in Sessions,
         sess[p] = s, HoldsDone(p), cancelRun' = cancelRun, run' = run, done' = done,
         Cancel(s), \A t \in Sessions, q \in Callers : Holds(q, t)' <=> Holds(q, t)
  PROVE  Rights!CancelRun(p, s)
<1>1. run[s] # "unused" /\ Holds(p, s)
  BY NoneIsNoSession DEF IInv, ReservedIsUnused, HoldsDone, Holds, DisconnectSteps
<1>2. cancelled' = [cancelled EXCEPT ![s] = TRUE]
  BY DEF Cancel
<1>3. OwnerOf(s) = p /\ OwnerOf(s)' = p
  BY <1>1, OwnersAreUnique, OwnersStayUnique DEF Ownership
<1>4. \A t \in Sessions : t # s => OwnerOf(t)' = OwnerOf(t)
  <2>1. \A t \in Sessions : t # s => cancelled'[t] = cancelled[t]
    BY <1>2 DEF IInv, TypeOK
  <2> QED
    BY <2>1, OthersKeepOwner
<1>5. \A t \in Sessions : PhaseOf(t)' = PhaseOf(t)
  BY DEF PhaseOf
<1>6. PhaseOf(s) \in {"live", "over"}
  BY <1>1, HeldPhase
<1> QED
  BY <1>2, <1>3, <1>4, <1>5, <1>6 DEF Rights!CancelRun

(* The owner learns that Run has ended, and holds nothing any more.        *)
LEMMA ReceivesOwn ==
  ASSUME IInv, IInv', NEW p \in Callers, NEW s \in Sessions,
         sess[p] = s, HoldsDone(p), cancelRun' = cancelRun, run' = run,
         ReceiveDone(s), Cancel(s),
         \A t \in Sessions, q \in Callers : Holds(q, t)' <=> Holds(q, t) /\ q # p
  PROVE  Rights!Receive(p, s)
<1>0. /\ cancelled' = [cancelled EXCEPT ![s] = TRUE] /\ cancelled \in [Sessions -> BOOLEAN]
      /\ done' = [done EXCEPT ![s] = "received"] /\ done[s] = "full"
      /\ done \in [Sessions -> {"empty", "full", "received"}]
  BY DEF Cancel, ReceiveDone, IInv, TypeOK
<1>1. run[s] # "unused" /\ Holds(p, s)
  BY NoneIsNoSession DEF IInv, ReservedIsUnused, HoldsDone, Holds, DisconnectSteps
<1>2. OwnerOf(s) = p /\ cancelRun # s
  BY <1>1, OwnersAreUnique DEF Ownership
<1>3. OwnerOf(s)' = "nobody"
  <2>1. cancelRun' # s /\ \A q \in Callers : ~Holds(q, s)'
    BY <1>1, <1>2, NoneIsNoSession DEF Holds, IInv, SingleOwner
  <2>2. cancelled'[s]
    BY <1>0
  <2> QED
    BY <2>1, <2>2, OwnersStayUnique DEF Ownership
<1>4. \A t \in Sessions : t # s => OwnerOf(t)' = OwnerOf(t)
  <2>1. \A t \in Sessions : t # s => cancelled'[t] = cancelled[t]
    BY <1>0
  <2>2. \A t \in Sessions : t # s => ~Holds(p, t)
    BY DEF Holds
  <2> QED
    BY <2>1, <2>2, OthersKeepOwner
<1>5. /\ PhaseOf(s) = "over" /\ PhaseOf(s)' = "told"
      /\ \A t \in Sessions : t # s => PhaseOf(t)' = PhaseOf(t)
  BY <1>0 DEF PhaseOf
<1> QED
  BY <1>0, <1>2, <1>3, <1>4, <1>5 DEF Rights!Receive

(* Connect begins a session and either drops it, hands it to the field or  *)
(* cancels it and waits for its end.                                       *)
LEMMA ConnectHandsOver ==
  ASSUME IInv, IInv', CancelledByOwner, NEW p \in Callers,
         ConnectCheck(p) \/ ConnectOpenStore(p)
         \/ ConnectStoreFails(p) \/ ConnectSpawn(p) \/ ConnectReady(p)
         \/ ConnectAuthFailed(p) \/ ConnectCtxDone(p)
         \/ ConnectRunEnded(p) \/ ConnectAbandoned(p)
         \/ ConnectPublish(p)
  PROVE  [Rights!Next]_(Rights!handoffVars)
<1> USE DEF clientVars, sessionVars, callerVars
<1>0. Ownership /\ Ownership'
  BY OwnersAreUnique, OwnersStayUnique
<1>00. /\ sess \in [Callers -> Sessions \cup {None}] /\ pc \in [Callers -> Steps]
       /\ run \in [Sessions -> RunStates] /\ cancelled \in [Sessions -> BOOLEAN]
       /\ done \in [Sessions -> {"empty", "full", "received"}]
  BY DEF IInv, TypeOK
<1>1. CASE ConnectCheck(p)
  <2>1. PICK s \in Sessions :
          /\ run[s] = "unused"
          /\ \A q \in Callers : sess[q] # s
          /\ sess' = [sess EXCEPT ![p] = s]
    BY <1>1 DEF ConnectCheck
  <2>2. pc[p] = "idle" /\ pc' = [pc EXCEPT ![p] = "open"] /\ sess[p] = None
    BY <1>1 DEF ConnectCheck, Go, IInv, StepsOwnSession
  <2>3. UNCHANGED <<cancelRun, run, cancelled, done>>
    BY <1>1 DEF ConnectCheck
  <2>4. OwnerOf(s) = "nobody"
    BY <1>0, <2>1, NoneIsNoSession DEF Ownership, Holds, IInv, ReservedIsUnused
  <2>5. OwnerOf(s)' = p
    BY <1>0, <1>00, <2>1, <2>2 DEF Ownership, Holds
  <2>6. \A t \in Sessions : t # s => OwnerOf(t)' = OwnerOf(t)
    <3>1. \A t \in Sessions, q \in Callers : t # s => (Holds(q, t)' <=> Holds(q, t))
      BY <1>00, <2>1, <2>2, NoneIsNoSession DEF Holds
    <3> QED
      BY <2>3, <3>1, OthersKeepOwner
  <2>7. \A t \in Sessions : OwnerOf(t) # p
    BY <2>2, OwnersHold, NoneIsNoSession DEF Holds
  <2>8. PhaseOf(s) = "unused" /\ \A t \in Sessions : PhaseOf(t)' = PhaseOf(t)
    BY <2>1, <2>3 DEF PhaseOf, IInv, DoneFollowsRun
  <2>9. Rights!Reserve(p, s)
    BY <2>3, <2>4, <2>5, <2>6, <2>7, <2>8 DEF Rights!Reserve
  <2> QED
    BY <2>9 DEF Rights!Next
<1>2. CASE ConnectOpenStore(p) \/ ConnectReady(p)
  <2>1. \A s \in Sessions, q \in Callers : Holds(q, s)' <=> Holds(q, s)
    BY <1>2, <1>00 DEF ConnectOpenStore, ConnectReady, Go, Holds
  <2>2. UNCHANGED <<cancelRun, cancelled, run, done>>
    BY <1>2 DEF ConnectOpenStore, ConnectReady
  <2> QED
    BY <2>1, <2>2, NothingHandedOver
<1>3. CASE ConnectStoreFails(p)
  <2>0. PICK s \in Sessions : sess[p] = s
    BY <1>3, <1>00 DEF ConnectStoreFails, IInv, StepsOwnSession, ConnectSteps
  <2> USE <2>0
  <2>1. /\ pc[p] \in {"open", "spawn"} /\ s \in Sessions /\ run[s] = "unused"
        /\ done[s] = "empty"
    BY <1>3, <1>00, NoneIsNoSession
       DEF ConnectStoreFails, IInv, StepsOwnSession, ConnectSteps, ReservedIsUnused, DoneFollowsRun
  <2>2. /\ pc' = [pc EXCEPT ![p] = "idle"] /\ sess' = [sess EXCEPT ![p] = None]
        /\ UNCHANGED <<cancelRun, run, cancelled, done>>
    BY <1>3 DEF ConnectStoreFails, Return
  <2>3. Holds(p, s)
    BY <2>1 DEF Holds
  <2>4. OwnerOf(s) = p /\ cancelRun # s
    BY <1>0, <2>1, <2>3 DEF Ownership
  <2>5. \A t \in Sessions, q \in Callers : Holds(q, t)' <=> Holds(q, t) /\ q # p
    BY <1>00, <2>2, NoneIsNoSession DEF Holds
  <2>6. OwnerOf(s)' = "nobody"
    <3>1. \A q \in Callers : ~Holds(q, s)'
      BY <2>1, <2>3, <2>5, NoneIsNoSession DEF Holds, IInv, SingleOwner
    <3> QED
      BY <1>0, <2>1, <2>2, <2>4, <3>1 DEF Ownership
  <2>7. \A t \in Sessions : t # s => OwnerOf(t)' = OwnerOf(t)
    <3>1. \A t \in Sessions : t # s => ~Holds(p, t)
      BY DEF Holds
    <3> QED
      BY <2>2, <2>5, <3>1, OthersKeepOwner
  <2>8. PhaseOf(s) = "unused" /\ \A t \in Sessions : PhaseOf(t)' = PhaseOf(t)
    BY <2>1, <2>2 DEF PhaseOf
  <2>9. Rights!Drop(p, s)
    BY <2>2, <2>4, <2>6, <2>7, <2>8 DEF Rights!Drop
  <2> QED
    BY <2>1, <2>9 DEF Rights!Next
<1>4. CASE ConnectSpawn(p)
  <2>0. PICK s \in Sessions : sess[p] = s
    BY <1>4, <1>00 DEF ConnectSpawn, Go, IInv, StepsOwnSession, ConnectSteps
  <2> USE <2>0
  <2>1. /\ pc[p] = "spawn" /\ s \in Sessions /\ run[s] = "unused"
        /\ done[s] = "empty"
    BY <1>4, <1>00, NoneIsNoSession
       DEF ConnectSpawn, Go, IInv, StepsOwnSession, ConnectSteps, ReservedIsUnused, DoneFollowsRun
  <2>2. /\ pc' = [pc EXCEPT ![p] = "select"] /\ run' = [run EXCEPT ![s] = "dialing"]
        /\ UNCHANGED <<cancelRun, sess, cancelled, done>>
    BY <1>4 DEF ConnectSpawn, Go
  <2>3. Holds(p, s) /\ Holds(p, s)'
    BY <1>00, <2>1, <2>2 DEF Holds
  <2>4. OwnerOf(s) = p /\ OwnerOf(s)' = p
    BY <1>0, <2>1, <2>3 DEF Ownership
  <2>5. \A t \in Sessions : t # s => OwnerOf(t)' = OwnerOf(t)
    <3>1. \A t \in Sessions, q \in Callers : Holds(q, t)' <=> Holds(q, t)
      BY <1>00, <2>1, <2>2 DEF Holds
    <3>2. \A t \in Sessions : t # s => run'[t] = run[t]
      BY <1>00, <2>2
    <3> QED
      BY <2>2, <3>1, <3>2, OthersKeepOwner
  <2>6. /\ PhaseOf(s) = "unused" /\ PhaseOf(s)' = "live"
        /\ \A t \in Sessions : t # s => PhaseOf(t)' = PhaseOf(t)
    BY <1>00, <2>1, <2>2 DEF PhaseOf
  <2>7. Rights!Start(p, s)
    BY <2>2, <2>4, <2>5, <2>6 DEF Rights!Start
  <2> QED
    BY <2>1, <2>7 DEF Rights!Next
<1>5. CASE ConnectAuthFailed(p) \/ ConnectCtxDone(p)
  <2>1. pc[p] = "select" /\ sess[p] \in Sessions
    BY <1>5, <1>00 DEF ConnectAuthFailed, ConnectCtxDone, Go, IInv, StepsOwnSession, ConnectSteps
  <2>2. \A t \in Sessions, q \in Callers : Holds(q, t)' <=> Holds(q, t)
    BY <1>5, <1>00, <2>1 DEF ConnectAuthFailed, ConnectCtxDone, Go, Holds
  <2>3. UNCHANGED <<cancelRun, run, done>> /\ Cancel(sess[p])
    BY <1>5 DEF ConnectAuthFailed, ConnectCtxDone
  <2>4. Rights!CancelRun(p, sess[p])
    BY <2>1, <2>2, <2>3, CancelsOwn DEF HoldsDone
  <2> QED
    BY <2>1, <2>4 DEF Rights!Next
<1>6. CASE ConnectRunEnded(p) \/ ConnectAbandoned(p)
  <2>1. pc[p] \in {"select", "abandon"} /\ sess[p] \in Sessions
    BY <1>6, <1>00 DEF ConnectRunEnded, ConnectAbandoned, IInv, StepsOwnSession, ConnectSteps
  <2>2. \A t \in Sessions, q \in Callers : Holds(q, t)' <=> Holds(q, t) /\ q # p
    BY <1>6, <1>00, <2>1, NoneIsNoSession DEF ConnectRunEnded, ConnectAbandoned, Return, Holds
  <2>3. UNCHANGED <<cancelRun, run>> /\ ReceiveDone(sess[p])
    BY <1>6 DEF ConnectRunEnded, ConnectAbandoned
  <2>4. Cancel(sess[p])
    <3>1. CASE ConnectRunEnded(p)
      BY <3>1 DEF ConnectRunEnded
    <3>2. CASE ConnectAbandoned(p)
      BY <3>2, <1>00, <2>1 DEF ConnectAbandoned, CancelledByOwner, Cancel
    <3> QED
      BY <1>6, <3>1, <3>2
  <2>5. Rights!Receive(p, sess[p])
    BY <2>1, <2>2, <2>3, <2>4, ReceivesOwn DEF HoldsDone
  <2> QED
    BY <2>1, <2>5 DEF Rights!Next
<1>7. CASE ConnectPublish(p)
  <2>0. PICK s \in Sessions : sess[p] = s
    BY <1>7, <1>00 DEF ConnectPublish, IInv, StepsOwnSession, ConnectSteps
  <2> USE <2>0
  <2>1. pc[p] = "publish" /\ s \in Sessions /\ ~cancelled[s] /\ run[s] # "unused"
    BY <1>7, <1>00, NoneIsNoSession
       DEF ConnectPublish, IInv, StepsOwnSession, ConnectSteps, CancelledByOwner, ReservedIsUnused
  <2>2. /\ pc' = [pc EXCEPT ![p] = "idle"] /\ sess' = [sess EXCEPT ![p] = None]
        /\ cancelRun' = s /\ UNCHANGED <<run, cancelled, done>>
    BY <1>7 DEF ConnectPublish, Return
  <2>3. Holds(p, s)
    BY <2>1 DEF Holds
  <2>4. OwnerOf(s) = p /\ OwnerOf(s)' = "field"
    BY <1>0, <2>1, <2>2, <2>3 DEF Ownership
  <2>5. \A t \in Sessions, q \in Callers : t # s => (Holds(q, t)' <=> Holds(q, t))
    BY <1>00, <2>2, NoneIsNoSession DEF Holds
  <2>6. ASSUME NEW t \in Sessions, t # s, cancelRun # t
        PROVE  OwnerOf(t)' = OwnerOf(t) /\ OwnerOf(t) # "field"
    <3>1. OwnerOf(t)' = OwnerOf(t)
      BY <2>2, <2>5, <2>6, OthersKeepOwner
    <3>2. \A q \in Callers : q # "field"
      BY CallersAreNamed
    <3> QED
      BY <1>0, <2>6, <3>1, <3>2 DEF Ownership
  <2>7. ASSUME NEW t \in Sessions, t # s, cancelRun = t
        PROVE  OwnerOf(t)' = "lost" /\ OwnerOf(t) = "field"
    <3>1. \A q \in Callers : ~Holds(q, t)'
      BY <2>5, <2>7, NoneIsNoSession DEF Holds, IInv, SingleOwner
    <3>2. cancelRun' # t /\ run'[t] # "unused" /\ ~cancelled'[t]
      BY <2>2, <2>7, NoneIsNoSession DEF IInv, ReservedIsUnused, CancelledByOwner
    <3> QED
      BY <1>0, <2>7, <3>1, <3>2 DEF Ownership
  <2>8. PhaseOf(s) \in {"live", "over"} /\ \A t \in Sessions : PhaseOf(t)' = PhaseOf(t)
    BY <2>1, <2>2, HeldPhase DEF PhaseOf, HoldsDone
  <2>9. Rights!Publish(p, s)
    BY <2>1, <2>2, <2>4, <2>6, <2>7, <2>8 DEF Rights!Publish
  <2> QED
    BY <2>1, <2>9 DEF Rights!Next
<1> QED
  BY <1>1, <1>2, <1>3, <1>4, <1>5, <1>6, <1>7

(* Disconnect takes a session from the field, cancels it and waits.        *)
LEMMA DisconnectHandsOver ==
  ASSUME IInv, IInv', CancelledByOwner, NEW p \in Callers,
         DisconnectTake(p) \/ DisconnectCancel(p) \/ DisconnectDone(p)
  PROVE  [Rights!Next]_(Rights!handoffVars)
<1> USE DEF clientVars, sessionVars, callerVars
<1>0. Ownership /\ Ownership'
  BY OwnersAreUnique, OwnersStayUnique
<1>00. /\ sess \in [Callers -> Sessions \cup {None}] /\ pc \in [Callers -> Steps]
       /\ run \in [Sessions -> RunStates] /\ cancelled \in [Sessions -> BOOLEAN]
       /\ done \in [Sessions -> {"empty", "full", "received"}]
       /\ cancelRun \in Sessions \cup {None}
  BY DEF IInv, TypeOK
<1>1. CASE DisconnectTake(p)
  <2>1. CASE cancelRun = None
    <3>1. \A t \in Sessions, q \in Callers : Holds(q, t)' <=> Holds(q, t)
      BY <1>1, <1>00, <2>1, NoneIsNoSession DEF DisconnectTake, Go, Holds, IInv, StepsOwnSession
    <3>2. UNCHANGED <<cancelRun, cancelled, run, done>>
      BY <1>1, <2>1 DEF DisconnectTake
    <3> QED
      BY <3>1, <3>2, NothingHandedOver
  <2>2. CASE cancelRun # None
    <3>0. PICK s \in Sessions : cancelRun = s
      BY <1>00, <2>2
    <3> USE <3>0
    <3>1. pc[p] = "idle" /\ sess[p] = None
      BY <1>1 DEF DisconnectTake, Go, IInv, StepsOwnSession
    <3>2. /\ pc' = [pc EXCEPT ![p] = "disCancel"] /\ sess' = [sess EXCEPT ![p] = s]
          /\ cancelRun' = None /\ UNCHANGED <<cancelled, run, done>>
      BY <1>1, <2>2 DEF DisconnectTake, Go
    <3>3. Holds(p, s)' /\ cancelRun' # s
      BY <1>00, <3>2, NoneIsNoSession DEF Holds
    <3>4. OwnerOf(s) = "field" /\ OwnerOf(s)' = p
      BY <1>0, <3>3 DEF Ownership
    <3>5. \A t \in Sessions : t # s => OwnerOf(t)' = OwnerOf(t)
      <4>1. \A t \in Sessions, q \in Callers : t # s => (Holds(q, t)' <=> Holds(q, t))
        BY <1>00, <3>1, <3>2, NoneIsNoSession DEF Holds
      <4> QED
        BY <3>2, <4>1, NoneIsNoSession, OthersKeepOwner
    <3>6. \A t \in Sessions : OwnerOf(t) # p
      BY <3>1, OwnersHold, NoneIsNoSession DEF Holds
    <3>7. \A t \in Sessions : PhaseOf(t)' = PhaseOf(t)
      BY <3>2 DEF PhaseOf
    <3>8. Rights!Take(p, s)
      BY <3>2, <3>4, <3>5, <3>6, <3>7 DEF Rights!Take
    <3> QED
      BY <3>8 DEF Rights!Next
  <2> QED
    BY <2>1, <2>2
<1>2. CASE DisconnectCancel(p)
  <2>1. pc[p] = "disCancel" /\ sess[p] \in Sessions
    BY <1>2, <1>00 DEF DisconnectCancel, Go, IInv, StepsOwnSession, DisconnectSteps
  <2>2. \A t \in Sessions, q \in Callers : Holds(q, t)' <=> Holds(q, t)
    BY <1>2, <1>00, <2>1 DEF DisconnectCancel, Go, Holds
  <2>3. UNCHANGED <<cancelRun, run, done>> /\ Cancel(sess[p])
    BY <1>2 DEF DisconnectCancel
  <2>4. Rights!CancelRun(p, sess[p])
    BY <2>1, <2>2, <2>3, CancelsOwn DEF HoldsDone, DisconnectSteps
  <2> QED
    BY <2>1, <2>4 DEF Rights!Next
<1>3. CASE DisconnectDone(p)
  <2>1. pc[p] = "disWait" /\ sess[p] \in Sessions
    BY <1>3, <1>00 DEF DisconnectDone, IInv, StepsOwnSession, DisconnectSteps
  <2>2. \A t \in Sessions, q \in Callers : Holds(q, t)' <=> Holds(q, t) /\ q # p
    BY <1>3, <1>00, <2>1, NoneIsNoSession DEF DisconnectDone, Return, Holds
  <2>3. UNCHANGED <<cancelRun, run>> /\ ReceiveDone(sess[p])
    BY <1>3 DEF DisconnectDone
  <2>4. Cancel(sess[p])
    BY <1>3, <1>00, <2>1 DEF DisconnectDone, CancelledByOwner, Cancel
  <2>5. Rights!Receive(p, sess[p])
    BY <2>1, <2>2, <2>3, <2>4, ReceivesOwn DEF HoldsDone, DisconnectSteps
  <2> QED
    BY <2>1, <2>5 DEF Rights!Next
<1> QED
  BY <1>1, <1>2, <1>3

(* Close does the same, and may give up waiting.                           *)
LEMMA CloseHandsOver ==
  ASSUME IInv, IInv', CancelledByOwner, NEW p \in Callers,
         CloseTake(p) \/ CloseCancel(p) \/ CloseDone(p)
         \/ CloseTimeout(p) \/ CloseDB(p)
  PROVE  [Rights!Next]_(Rights!handoffVars)
<1> USE DEF clientVars, sessionVars, callerVars
<1>0. Ownership /\ Ownership'
  BY OwnersAreUnique, OwnersStayUnique
<1>00. /\ sess \in [Callers -> Sessions \cup {None}] /\ pc \in [Callers -> Steps]
       /\ run \in [Sessions -> RunStates] /\ cancelled \in [Sessions -> BOOLEAN]
       /\ done \in [Sessions -> {"empty", "full", "received"}]
       /\ cancelRun \in Sessions \cup {None}
  BY DEF IInv, TypeOK
<1>1. CASE CloseTake(p)
  <2>1. CASE cancelRun = None
    <3>1. \A t \in Sessions, q \in Callers : Holds(q, t)' <=> Holds(q, t)
      BY <1>1, <1>00, <2>1, NoneIsNoSession DEF CloseTake, Go, Holds, IInv, StepsOwnSession
    <3>2. UNCHANGED <<cancelRun, cancelled, run, done>>
      BY <1>1, <2>1 DEF CloseTake
    <3> QED
      BY <3>1, <3>2, NothingHandedOver
  <2>2. CASE cancelRun # None
    <3>0. PICK s \in Sessions : cancelRun = s
      BY <1>00, <2>2
    <3> USE <3>0
    <3>1. pc[p] = "idle" /\ sess[p] = None
      BY <1>1 DEF CloseTake, Go, IInv, StepsOwnSession
    <3>2. /\ pc' = [pc EXCEPT ![p] = "closeCancel"] /\ sess' = [sess EXCEPT ![p] = s]
          /\ cancelRun' = None /\ UNCHANGED <<cancelled, run, done>>
      BY <1>1, <2>2 DEF CloseTake, Go
    <3>3. Holds(p, s)' /\ cancelRun' # s
      BY <1>00, <3>2, NoneIsNoSession DEF Holds
    <3>4. OwnerOf(s) = "field" /\ OwnerOf(s)' = p
      BY <1>0, <3>3 DEF Ownership
    <3>5. \A t \in Sessions : t # s => OwnerOf(t)' = OwnerOf(t)
      <4>1. \A t \in Sessions, q \in Callers : t # s => (Holds(q, t)' <=> Holds(q, t))
        BY <1>00, <3>1, <3>2, NoneIsNoSession DEF Holds
      <4> QED
        BY <3>2, <4>1, NoneIsNoSession, OthersKeepOwner
    <3>6. \A t \in Sessions : OwnerOf(t) # p
      BY <3>1, OwnersHold, NoneIsNoSession DEF Holds
    <3>7. \A t \in Sessions : PhaseOf(t)' = PhaseOf(t)
      BY <3>2 DEF PhaseOf
    <3>8. Rights!Take(p, s)
      BY <3>2, <3>4, <3>5, <3>6, <3>7 DEF Rights!Take
    <3> QED
      BY <3>8 DEF Rights!Next
  <2> QED
    BY <2>1, <2>2
<1>2. CASE CloseCancel(p)
  <2>1. CASE sess[p] = None
    <3>1. \A t \in Sessions, q \in Callers : Holds(q, t)' <=> Holds(q, t)
      BY <1>2, <1>00, <2>1, NoneIsNoSession DEF CloseCancel, Holds
    <3>2. UNCHANGED <<cancelRun, cancelled, run, done>>
      BY <1>2, <2>1 DEF CloseCancel
    <3> QED
      BY <3>1, <3>2, NothingHandedOver
  <2>2. CASE sess[p] # None
    <3>1. pc[p] = "closeCancel" /\ sess[p] \in Sessions
      BY <1>2, <1>00, <2>2 DEF CloseCancel
    <3>2. \A t \in Sessions, q \in Callers : Holds(q, t)' <=> Holds(q, t)
      BY <1>2, <1>00, <2>2 DEF CloseCancel, Holds
    <3>3. UNCHANGED <<cancelRun, run, done>> /\ Cancel(sess[p])
      BY <1>2, <2>2 DEF CloseCancel
    <3>4. Rights!CancelRun(p, sess[p])
      BY <3>1, <3>2, <3>3, CancelsOwn DEF HoldsDone
    <3> QED
      BY <3>1, <3>4 DEF Rights!Next
  <2> QED
    BY <2>1, <2>2
<1>3. CASE CloseDone(p)
  <2>1. pc[p] = "closeWait" /\ sess[p] \in Sessions
    BY <1>3, <1>00 DEF CloseDone, Go, IInv, StepsOwnSession
  <2>2. \A t \in Sessions, q \in Callers : Holds(q, t)' <=> Holds(q, t) /\ q # p
    BY <1>3, <1>00, <2>1 DEF CloseDone, Go, Holds
  <2>3. UNCHANGED <<cancelRun, run>> /\ ReceiveDone(sess[p])
    BY <1>3 DEF CloseDone
  <2>4. Cancel(sess[p])
    BY <1>3, <1>00, <2>1 DEF CloseDone, CancelledByOwner, Cancel
  <2>5. Rights!Receive(p, sess[p])
    BY <2>1, <2>2, <2>3, <2>4, ReceivesOwn DEF HoldsDone
  <2> QED
    BY <2>1, <2>5 DEF Rights!Next
<1>4. CASE CloseTimeout(p)
  <2>0. PICK s \in Sessions : sess[p] = s
    BY <1>4, <1>00 DEF CloseTimeout, Go, IInv, StepsOwnSession
  <2> USE <2>0
  <2>1. pc[p] = "closeWait" /\ cancelled[s] /\ run[s] # "unused"
    BY <1>4, NoneIsNoSession DEF CloseTimeout, Go, CancelledByOwner, IInv, ReservedIsUnused
  <2>2. /\ pc' = [pc EXCEPT ![p] = "closeDB"]
        /\ UNCHANGED <<cancelRun, sess, run, cancelled, done>>
    BY <1>4 DEF CloseTimeout, Go
  <2>3. Holds(p, s)
    BY <2>1 DEF Holds
  <2>4. OwnerOf(s) = p /\ cancelRun # s
    BY <1>0, <2>3 DEF Ownership
  <2>5. \A t \in Sessions, q \in Callers : Holds(q, t)' <=> Holds(q, t) /\ q # p
    BY <1>00, <2>1, <2>2 DEF Holds
  <2>6. OwnerOf(s)' = "nobody"
    <3>1. \A q \in Callers : ~Holds(q, s)'
      BY <2>3, <2>5, NoneIsNoSession DEF Holds, IInv, SingleOwner
    <3> QED
      BY <1>0, <2>1, <2>2, <2>4, <3>1 DEF Ownership
  <2>7. \A t \in Sessions : t # s => OwnerOf(t)' = OwnerOf(t)
    <3>1. \A t \in Sessions : t # s => ~Holds(p, t)
      BY DEF Holds
    <3> QED
      BY <2>2, <2>5, <3>1, OthersKeepOwner
  <2>8. \A t \in Sessions : PhaseOf(t)' = PhaseOf(t)
    BY <2>2 DEF PhaseOf
  <2>9. Rights!GiveUp(p, s)
    BY <2>1, <2>2, <2>4, <2>6, <2>7, <2>8 DEF Rights!GiveUp
  <2> QED
    BY <2>9 DEF Rights!Next
<1>5. CASE CloseDB(p)
  <2>1. \A t \in Sessions, q \in Callers : Holds(q, t)' <=> Holds(q, t)
    BY <1>5, <1>00, NoneIsNoSession DEF CloseDB, Return, Holds
  <2>2. UNCHANGED <<cancelRun, cancelled, run, done>>
    BY <1>5 DEF CloseDB
  <2> QED
    BY <2>1, <2>2, NothingHandedOver
<1> QED
  BY <1>1, <1>2, <1>3, <1>4, <1>5

(* The goroutine of a session ends once, and its name is used again when   *)
(* no caller and no field knows it.                                        *)
LEMMA SessionHandsOver ==
  ASSUME IInv, IInv', CancelledByOwner, NEW s \in Sessions, SessionStep(s)
  PROVE  [Rights!Next]_(Rights!handoffVars)
<1> USE DEF clientVars, sessionVars, callerVars
<1>0. Ownership /\ Ownership'
  BY OwnersAreUnique, OwnersStayUnique
<1>00. /\ sess \in [Callers -> Sessions \cup {None}] /\ pc \in [Callers -> Steps]
       /\ run \in [Sessions -> RunStates] /\ cancelled \in [Sessions -> BOOLEAN]
       /\ done \in [Sessions -> {"empty", "full", "received"}]
       /\ cancelRun \in Sessions \cup {None}
  BY DEF IInv, TypeOK
<1>1. CASE CallbackStarts(s) \/ Authorized(s) \/ NotAuthorized(s) \/ FetchSelf(s)
           \/ Announce(s) \/ Cleanup(s) \/ HostCancels(s)
  <2>1. UNCHANGED <<cancelRun, cancelled, done, pc, sess>>
    BY <1>1 DEF CallbackStarts, Authorized, NotAuthorized, FetchSelf, Announce, Cleanup, HostCancels
  <2>2. run' = run \/ \E to \in RunStates \ {"unused"} : run[s] # "unused" /\ run' = [run EXCEPT ![s] = to]
    BY <1>1 DEF CallbackStarts, Authorized, NotAuthorized, FetchSelf, Announce, Cleanup, HostCancels,
         MoveRun, RunStates
  <2>3. \A t \in Sessions : run'[t] = "unused" <=> run[t] = "unused"
    BY <1>00, <2>2
  <2>4. \A t \in Sessions, q \in Callers : Holds(q, t)' <=> Holds(q, t)
    BY <2>1 DEF Holds
  <2> QED
    BY <2>1, <2>3, <2>4, NothingHandedOver
<1>2. CASE DialFails(s) \/ FailedRunReturns(s) \/ StopServing(s) \/ ConnectionLost(s)
  <2>1. /\ run[s] \in {"dialing", "failing", "serving"} /\ run' = [run EXCEPT ![s] = "returned"]
        /\ done' = [done EXCEPT ![s] = "full"] /\ UNCHANGED <<cancelRun, cancelled, pc, sess>>
    BY <1>2 DEF DialFails, FailedRunReturns, StopServing, ConnectionLost, RunReturn
  <2>2. \A t \in Sessions : OwnerOf(t)' = OwnerOf(t)
    <3>1. \A t \in Sessions : run'[t] = "unused" <=> run[t] = "unused"
      BY <1>00, <2>1
    <3>2. \A t \in Sessions, q \in Callers : Holds(q, t)' <=> Holds(q, t)
      BY <2>1 DEF Holds
    <3> QED
      BY <2>1, <3>1, <3>2, OthersKeepOwner
  <2>3. done[s] = "empty"
    BY <1>00, <2>1 DEF IInv, DoneFollowsRun
  <2>4. /\ PhaseOf(s) = "live" /\ PhaseOf(s)' = "over"
        /\ \A t \in Sessions : t # s => PhaseOf(t)' = PhaseOf(t)
    BY <1>00, <2>1, <2>3 DEF PhaseOf
  <2>5. Rights!End(s)
    BY <2>1, <2>2, <2>4 DEF Rights!End
  <2> QED
    BY <2>5 DEF Rights!Next
<1>3. CASE Reclaim(s)
  <2>1. /\ run[s] = "finished" /\ run' = [run EXCEPT ![s] = "unused"]
        /\ cancelRun # s /\ \A q \in Callers : sess[q] # s
        /\ cancelled' = [cancelled EXCEPT ![s] = FALSE]
        /\ done' = [done EXCEPT ![s] = "empty"] /\ UNCHANGED <<cancelRun, pc, sess>>
    BY <1>3 DEF Reclaim, MoveRun
  <2>2. \A t \in Sessions, q \in Callers : Holds(q, t)' <=> Holds(q, t)
    BY <2>1 DEF Holds
  <2>3. \A q \in Callers : ~Holds(q, s)
    BY <2>1 DEF Holds
  <2>4. OwnerOf(s) \in {"nobody", "lost"}
    BY <1>0, <2>1, <2>3 DEF Ownership
  <2>5. OwnerOf(s)' = "nobody"
    <3>1. cancelRun' # s /\ run'[s] = "unused" /\ \A q \in Callers : ~Holds(q, s)'
      BY <1>00, <2>1, <2>2, <2>3
    <3> QED
      BY <1>0, <3>1 DEF Ownership
  <2>6. \A t \in Sessions : t # s => OwnerOf(t)' = OwnerOf(t)
    <3>1. \A t \in Sessions : t # s => run'[t] = run[t] /\ cancelled'[t] = cancelled[t]
      BY <1>00, <2>1
    <3> QED
      BY <2>1, <2>2, <3>1, OthersKeepOwner
  <2>7. done[s] \in {"full", "received"}
    BY <1>00, <2>1 DEF IInv, DoneFollowsRun
  <2>8. /\ PhaseOf(s) \in {"over", "told"} /\ PhaseOf(s)' = "unused"
        /\ \A t \in Sessions : t # s => PhaseOf(t)' = PhaseOf(t)
    BY <1>00, <2>1, <2>7 DEF PhaseOf
  <2>9. Rights!Reuse(s)
    BY <2>1, <2>4, <2>5, <2>6, <2>8 DEF Rights!Reuse
  <2> QED
    BY <2>9 DEF Rights!Next
<1> QED
  BY <1>1, <1>2, <1>3 DEF SessionStep

(* Every step of the code is a step of Handoff, or hands over nothing.     *)
LEMMA StepHandsOver ==
  ASSUME IInv, IInv', CancelledByOwner, [Next]_vars
  PROVE  [Rights!Next]_(Rights!handoffVars)
<1>1. CASE UNCHANGED vars
  <2>1. UNCHANGED <<cancelRun, cancelled, run, done>>
        /\ \A t \in Sessions, q \in Callers : Holds(q, t)' <=> Holds(q, t)
    BY <1>1 DEF vars, Holds
  <2> QED
    BY <2>1, NothingHandedOver
<1>2. ASSUME NEW p \in Callers, StatusAsk(p) \/ StatusAnswer(p)
      PROVE  [Rights!Next]_(Rights!handoffVars)
  <2>1. \A t \in Sessions, q \in Callers : Holds(q, t)' <=> Holds(q, t)
    BY <1>2 DEF StatusAsk, StatusAnswer, Go, Holds, IInv, TypeOK
  <2>2. UNCHANGED <<cancelRun, cancelled, run, done>>
    BY <1>2 DEF StatusAsk, StatusAnswer, clientVars, sessionVars
  <2> QED
    BY <2>1, <2>2, NothingHandedOver
<1>3. CASE \E p \in Callers : CallerCall(p) \/ CallerStep(p)
  BY <1>2, <1>3, ConnectHandsOver, DisconnectHandsOver, CloseHandsOver DEF CallerCall, CallerStep
<1>4. CASE \E s \in Sessions : SessionStep(s)
  BY <1>4, SessionHandsOver
<1> QED
  BY <1>1, <1>3, <1>4 DEF Next

(* A new client owns nothing.                                              *)
LEMMA NothingOwnedYet == Init => Rights!Init
<1> SUFFICES ASSUME Init PROVE Rights!Init
  OBVIOUS
<1>1. \A s \in Sessions : OwnerOf(s) = "nobody" /\ PhaseOf(s) = "unused"
  BY NoneIsNoSession DEF Init, OwnerOf, PhaseOf, Holds
<1> QED
  BY <1>1 DEF Init, Rights!Init

(* Connect, Disconnect and Close hand a session over as Handoff says: it   *)
(* has one owner, who alone cancels it and receives the end of its Run, or *)
(* who gives it up after cancelling it; what runs on without an owner has  *)
(* been cancelled or was overwritten in the field by a later Connect.      *)
THEOREM HandsOver == Spec => SessionsAreHandedOver
<1>1. IInv /\ IInv' /\ CancelledByOwner /\ [Next]_vars => [Rights!Next]_(Rights!handoffVars)
  BY StepHandsOver
<1> QED
  BY <1>1, NothingOwnedYet, Invariant, CancelledInvariant, PTL
     DEF Spec, SessionsAreHandedOver, Rights!Spec

(* The safety part of DisconnectReturns and ConnectHonoursCtx.  Whoever    *)
(* waits for the end of a Run finds the value in done, or Run has yet to   *)
(* return and has been cancelled: nobody waits for a value that was taken  *)
(* away or for a Run that nobody told to end.                              *)
THEOREM NobodyWaitsInVain ==
  Spec => [](\A p \in Callers :
               pc[p] \in {"abandon", "disWait", "closeWait"} =>
                 \/ done[sess[p]] = "full"
                 \/ cancelled[sess[p]] /\ run[sess[p]] \notin {"unused", "returned", "finished"})
<1>1. IInv /\ CancelledByOwner =>
        \A p \in Callers :
          pc[p] \in {"abandon", "disWait", "closeWait"} =>
            \/ done[sess[p]] = "full"
            \/ cancelled[sess[p]] /\ run[sess[p]] \notin {"unused", "returned", "finished"}
  <2> SUFFICES ASSUME IInv, CancelledByOwner, NEW p \in Callers,
                      pc[p] \in {"abandon", "disWait", "closeWait"}
               PROVE  \/ done[sess[p]] = "full"
                      \/ cancelled[sess[p]] /\ run[sess[p]] \notin {"unused", "returned", "finished"}
    OBVIOUS
  <2>1. PICK s \in Sessions : sess[p] = s
    BY DEF IInv, TypeOK, StepsOwnSession, ConnectSteps, DisconnectSteps
  <2>2. cancelled[s] /\ run[s] # "unused" /\ done[s] # "received"
    BY <2>1, NoneIsNoSession
       DEF CancelledByOwner, IInv, ReservedIsUnused, DoneFollowsRun, HoldsDone, DisconnectSteps
  <2>3. done[s] \in {"empty", "full"} /\ (done[s] = "empty" => run[s] \notin {"returned", "finished"})
    BY <2>2 DEF IInv, TypeOK, DoneFollowsRun
  <2> QED
    BY <2>1, <2>2, <2>3
<1> QED
  BY <1>1, Invariant, CancelledInvariant, PTL
=============================================================================
