---------------------------- MODULE AccountProofs ----------------------------
(* Proofs about Account, for any accounts and any number of goroutines     *)
(* that call Status.                                                       *)
EXTENDS Account, TLAPS

-----------------------------------------------------------------------------
(* The inductive invariant.  Beside the properties it says what the place  *)
(* of Connect tells about its error and the session, that a kept session   *)
(* is honoured, and that an answer Status still holds is about the session *)
(* at hand, unless it is late.                                             *)
PlaceFits ==
  /\ pc \notin {"off", "up"} => err = "none"
  /\ pc = "up" => err = "nil"
  /\ pc \in {"identify", "ready"} => file # None

TrustedIsAuthorized == trusted => authorized /\ pc \notin Flow

AnswersAreCurrent ==
  \A q \in Askers :
    /\ look[q] = "asking" => answer[q] = None
    /\ look[q] = "answered" /\ answer[q] # None /\ q \notin late => answer[q] = file

IInv ==
  /\ TypeOK
  /\ PlaceFits
  /\ TrustedIsAuthorized
  /\ NoCodeInVain
  /\ ErrorsAreTrue
  /\ AnswersAreCurrent
  /\ SelfIsOfTheSession

(* The initial states.                                                     *)
LEMMA InitIInv == Init => IInv
<1> SUFFICES ASSUME Init PROVE IInv
  OBVIOUS
<1>1. TypeOK
  BY DEF Init, TypeOK, Flow, Errors
<1>2. PlaceFits /\ TrustedIsAuthorized /\ AnswersAreCurrent
  BY DEF Init, PlaceFits, TrustedIsAuthorized, AnswersAreCurrent
<1>3. NoCodeInVain /\ ErrorsAreTrue /\ SelfIsOfTheSession
  BY DEF Init, NoCodeInVain, ErrorsAreTrue, SelfIsOfTheSession, Flow
<1> QED
  BY <1>1, <1>2, <1>3 DEF IInv

-----------------------------------------------------------------------------
(* The three forms the steps of Connect have.                              *)

(* The connection ends with an error that is true.                         *)
LEMMA FailStep ==
  ASSUME IInv, pc # "up", NEW e \in Errors, Fail(e),
         e = "ErrPhoneRequired" => phone = None /\ ~trusted,
         e = "ErrCodePromptMissing" => phone # None /\ "code" \notin prompts /\ ~trusted,
         e = "ErrPassword2FARequired" => phone \in Locked /\ "password" \notin prompts
  PROVE  IInv'
<1>1. TypeOK'
  BY DEF IInv, TypeOK, Fail, End, holding, config, session, Errors
<1>2. PlaceFits' /\ TrustedIsAuthorized'
  BY DEF IInv, PlaceFits, TrustedIsAuthorized, authorized, Fail, End, session, Flow
<1>3. NoCodeInVain' /\ ErrorsAreTrue' /\ SelfIsOfTheSession'
  BY DEF NoCodeInVain, ErrorsAreTrue, SelfIsOfTheSession, Fail, End, config, session, Flow, Errors
<1>4. AnswersAreCurrent'
  BY DEF IInv, TypeOK, AnswersAreCurrent, Fail, End, holding, session
<1> QED
  BY <1>1, <1>2, <1>3, <1>4 DEF IInv

(* The next step of the same attempt.                                      *)
LEMMA ProceedStep ==
  ASSUME IInv, NEW from, NEW to, Proceed(from, to), UNCHANGED <<session, self>>,
         from \notin {"off", "up"},
         to \in {"status", "identify"} \cup Flow,
         to \in Flow => ~authorized /\ phone # None /\ "code" \in prompts,
         to = "password" => phone \in Locked,
         to = "identify" => file # None
  PROVE  IInv'
<1>1. TypeOK'
  BY DEF IInv, TypeOK, Proceed, config, session, self, status
<1>2. PlaceFits' /\ TrustedIsAuthorized'
  BY DEF IInv, PlaceFits, TrustedIsAuthorized, authorized, Proceed, config, session, Flow
<1>3. NoCodeInVain' /\ ErrorsAreTrue' /\ SelfIsOfTheSession'
  BY DEF IInv, NoCodeInVain, ErrorsAreTrue, SelfIsOfTheSession, authorized, Proceed,
         config, session, self, Flow
<1>4. AnswersAreCurrent'
  BY DEF IInv, AnswersAreCurrent, Proceed, session, status
<1> QED
  BY <1>1, <1>2, <1>3, <1>4 DEF IInv

(* A new session: what Status holds is about the old one.                  *)
LEMMA SignedInStep ==
  ASSUME IInv, NEW from \in Flow, SignedIn(from), phone \in Registered
  PROVE  IInv'
<1>1. phone # None
  BY AccountsAssumption
<1>2. TypeOK'
  BY DEF IInv, TypeOK, SignedIn, config, holding
<1>3. PlaceFits' /\ TrustedIsAuthorized'
  BY <1>1 DEF IInv, PlaceFits, TrustedIsAuthorized, authorized, SignedIn, config, Flow
<1>4. NoCodeInVain' /\ ErrorsAreTrue' /\ SelfIsOfTheSession'
  BY DEF IInv, PlaceFits, NoCodeInVain, ErrorsAreTrue, SelfIsOfTheSession, SignedIn, config, Flow
<1>5. AnswersAreCurrent'
  BY DEF IInv, TypeOK, AnswersAreCurrent, SignedIn, holding
<1> QED
  BY <1>2, <1>3, <1>4, <1>5 DEF IInv

-----------------------------------------------------------------------------
(* Every step keeps IInv.                                                  *)

LEMMA ConnectStep ==
  ASSUME IInv, Dial \/ DialDone \/ AuthStatus \/ SendCode \/ Abandon
  PROVE  IInv'
<1>1. CASE Dial
  <2>1. TypeOK'
    BY <1>1 DEF IInv, TypeOK, Dial, config, session, self, status
  <2>2. PlaceFits' /\ TrustedIsAuthorized' /\ AnswersAreCurrent'
    BY <1>1 DEF IInv, PlaceFits, TrustedIsAuthorized, AnswersAreCurrent, authorized,
                Dial, session, status, Flow
  <2>3. NoCodeInVain' /\ ErrorsAreTrue' /\ SelfIsOfTheSession'
    BY <1>1 DEF IInv, NoCodeInVain, ErrorsAreTrue, SelfIsOfTheSession, Dial,
                config, session, self, Flow
  <2> QED
    BY <2>1, <2>2, <2>3 DEF IInv
<1>2. CASE DialDone
  <2>1. CASE Proceed("dialing", "status") /\ UNCHANGED <<session, self>>
    BY <2>1, ProceedStep DEF Flow
  <2>2. CASE pc = "dialing" /\ Fail("other")
    BY <2>2, FailStep DEF Errors
  <2> QED
    BY <1>2, <2>1, <2>2 DEF DialDone
<1>3. CASE AuthStatus
  <2>1. CASE pc = "status" /\ Fail("ErrAuthFailed")
    BY <2>1, FailStep DEF Errors
  <2>2. CASE authorized /\ Proceed("status", "identify") /\ UNCHANGED <<session, self>>
    BY <2>2, ProceedStep DEF Flow, authorized
  <2>3. CASE /\ ~authorized /\ Lacking = "none"
             /\ Proceed("status", "flow") /\ UNCHANGED <<session, self>>
    BY <2>3, ProceedStep DEF Flow, Lacking
  <2>4. CASE ~authorized /\ Lacking # "none" /\ pc = "status" /\ Fail(Lacking)
    <3>1. ~trusted
      BY <2>4 DEF IInv, TrustedIsAuthorized
    <3>2. CASE phone = None
      BY <2>4, <3>1, <3>2, FailStep DEF Lacking, Errors
    <3>3. CASE phone # None /\ "code" \notin prompts
      BY <2>4, <3>1, <3>3, FailStep DEF Lacking, Errors
    <3> QED
      BY <2>4, <3>2, <3>3 DEF Lacking
  <2> QED
    BY <1>3, <2>1, <2>2, <2>3, <2>4 DEF AuthStatus
<1>4. CASE SendCode
  <2>1. CASE Proceed("flow", "code") /\ UNCHANGED <<session, self>>
    <3>1. ~authorized /\ phone # None /\ "code" \in prompts
      BY <2>1 DEF IInv, NoCodeInVain, Proceed, Flow
    <3> QED
      BY <2>1, <3>1, ProceedStep DEF Flow
  <2>2. CASE pc = "flow" /\ Fail(Classify("other"))
    BY <2>2, FailStep DEF Classify, Errors
  <2> QED
    BY <1>4, <2>1, <2>2 DEF SendCode
<1>5. CASE Abandon
  BY <1>5, FailStep DEF Abandon, Errors
<1> QED
  BY <1>1, <1>2, <1>3, <1>4, <1>5

LEMMA FlowStep ==
  ASSUME IInv, Code \/ Password
  PROVE  IInv'
<1>1. CASE pc = "code" /\ Fail(Classify("other"))
  BY <1>1, FailStep DEF Classify, Errors
<1>2. CASE "code" \in prompts /\ phone \in Registered \ Locked /\ SignedIn("code")
  BY <1>2, SignedInStep DEF Flow
<1>3. CASE /\ "code" \in prompts /\ phone \in Locked /\ Proceed("code", "password")
           /\ UNCHANGED <<session, self>>
  <2>1. ~authorized /\ phone # None
    BY <1>3 DEF IInv, NoCodeInVain, Proceed, Flow
  <2> QED
    BY <1>3, <2>1, ProceedStep DEF Flow
<1>4. ASSUME pc = "password", "password" \notin prompts,
             NEW cause \in {"ErrPassword2FARequired", "ErrPasswordNotProvided"},
             Fail(Classify(cause))
      PROVE  IInv'
  <2>1. phone \in Locked
    BY <1>4 DEF IInv, NoCodeInVain
  <2> QED
    BY <1>4, <2>1, FailStep DEF Classify, Errors
<1>5. CASE pc = "password" /\ "password" \in prompts /\ Fail(Classify("other"))
  BY <1>5, FailStep DEF Classify, Errors
<1>6. CASE "password" \in prompts /\ SignedIn("password")
  <2>1. phone \in Registered
    BY <1>6, AccountsAssumption DEF IInv, NoCodeInVain, SignedIn
  <2> QED
    BY <1>6, <2>1, SignedInStep DEF Flow
<1> QED
  BY <1>1, <1>2, <1>3, <1>4, <1>5, <1>6 DEF Code, Password

LEMMA UpStep ==
  ASSUME IInv, Identify \/ Publish \/ Disconnect
  PROVE  IInv'
<1>1. CASE Identify
  <2>1. TypeOK'
    BY <1>1 DEF IInv, TypeOK, Identify, Proceed, LearnSelf, authorized, config, session, self, status
  <2>2. PlaceFits' /\ TrustedIsAuthorized' /\ AnswersAreCurrent'
    BY <1>1 DEF IInv, PlaceFits, TrustedIsAuthorized, AnswersAreCurrent, authorized,
                Identify, Proceed, session, status, Flow
  <2>3. NoCodeInVain' /\ ErrorsAreTrue' /\ SelfIsOfTheSession'
    BY <1>1 DEF IInv, NoCodeInVain, ErrorsAreTrue, SelfIsOfTheSession, Identify, Proceed,
                LearnSelf, config, session, self, Flow
  <2> QED
    BY <2>1, <2>2, <2>3 DEF IInv
<1>3. CASE Publish
  <2>1. TypeOK'
    BY <1>3 DEF IInv, TypeOK, Publish, config, self, status
  <2>2. PlaceFits' /\ TrustedIsAuthorized' /\ AnswersAreCurrent'
    BY <1>3 DEF IInv, PlaceFits, TrustedIsAuthorized, AnswersAreCurrent, authorized,
                Publish, status, Flow
  <2>3. NoCodeInVain' /\ ErrorsAreTrue' /\ SelfIsOfTheSession'
    BY <1>3 DEF IInv, NoCodeInVain, ErrorsAreTrue, SelfIsOfTheSession, Publish,
                config, self, Flow
  <2> QED
    BY <2>1, <2>2, <2>3 DEF IInv
<1>2. CASE Disconnect
  <2>1. TypeOK'
    BY <1>2 DEF IInv, TypeOK, Disconnect, End, holding, config, session
  <2>2. PlaceFits' /\ TrustedIsAuthorized'
    BY <1>2 DEF IInv, PlaceFits, TrustedIsAuthorized, authorized, Disconnect, End, session, Flow
  <2>3. NoCodeInVain' /\ ErrorsAreTrue' /\ SelfIsOfTheSession'
    BY <1>2 DEF IInv, PlaceFits, NoCodeInVain, ErrorsAreTrue, SelfIsOfTheSession,
                Disconnect, End, config, session, Flow
  <2>4. AnswersAreCurrent'
    BY <1>2 DEF IInv, TypeOK, AnswersAreCurrent, Disconnect, End, holding, session
  <2> QED
    BY <2>1, <2>2, <2>3, <2>4 DEF IInv
<1> QED
  BY <1>1, <1>2, <1>3

LEMMA StatusStep ==
  ASSUME IInv, NEW q \in Askers,
         StatusLook(q) \/ StatusAsk(q) \/ Served(q) \/ StatusReturn(q)
  PROVE  IInv'
<1>1. /\ UNCHANGED <<phone, prompts, file, valid, trusted, pc, err>>
  BY DEF StatusLook, StatusAsk, Served, StatusReturn, config, session
<1>2. PlaceFits' /\ TrustedIsAuthorized' /\ NoCodeInVain' /\ ErrorsAreTrue'
  BY <1>1 DEF IInv, PlaceFits, TrustedIsAuthorized, NoCodeInVain, ErrorsAreTrue, authorized, Flow
<1>3. CASE StatusLook(q) \/ StatusAsk(q)
  <2>1. TypeOK'
    BY <1>1, <1>3 DEF IInv, TypeOK, StatusLook, StatusAsk, self
  <2>2. AnswersAreCurrent' /\ SelfIsOfTheSession'
    BY <1>1, <1>3 DEF IInv, TypeOK, AnswersAreCurrent, SelfIsOfTheSession, StatusLook, StatusAsk, self
  <2> QED
    BY <1>2, <2>1, <2>2 DEF IInv
<1>4. CASE Served(q)
  <2>1. TypeOK'
    BY <1>1, <1>4 DEF IInv, TypeOK, Served, self
  <2>2. AnswersAreCurrent' /\ SelfIsOfTheSession'
    BY <1>1, <1>4 DEF IInv, TypeOK, AnswersAreCurrent, SelfIsOfTheSession, Served, self
  <2> QED
    BY <1>2, <2>1, <2>2 DEF IInv
<1>5. CASE StatusReturn(q)
  <2>1. TypeOK'
    BY <1>1, <1>5 DEF IInv, TypeOK, StatusReturn, self
  <2>2. AnswersAreCurrent' /\ SelfIsOfTheSession'
    BY <1>1, <1>5 DEF IInv, TypeOK, AnswersAreCurrent, SelfIsOfTheSession, StatusReturn, self
  <2> QED
    BY <1>2, <2>1, <2>2 DEF IInv
<1> QED
  BY <1>3, <1>4, <1>5

LEMMA RevokeStep ==
  ASSUME IInv, Revoke
  PROVE  IInv'
<1>1. TypeOK'
  BY DEF IInv, TypeOK, Revoke, config, self, status
<1>2. PlaceFits' /\ TrustedIsAuthorized' /\ AnswersAreCurrent'
  BY DEF IInv, PlaceFits, TrustedIsAuthorized, AnswersAreCurrent, Revoke, status
<1>3. NoCodeInVain' /\ ErrorsAreTrue' /\ SelfIsOfTheSession'
  BY DEF IInv, NoCodeInVain, ErrorsAreTrue, SelfIsOfTheSession, authorized, Revoke, config, self
<1> QED
  BY <1>1, <1>2, <1>3 DEF IInv

(* All of the above holds in every reachable state.                        *)
THEOREM Invariant == Spec => []IInv
<1>1. IInv /\ [Next]_vars => IInv'
  <2>1. ASSUME IInv, Next PROVE IInv'
    BY <2>1, ConnectStep, FlowStep, UpStep, StatusStep, RevokeStep DEF Next
  <2>2. ASSUME IInv, UNCHANGED vars PROVE IInv'
    BY <2>2 DEF IInv, TypeOK, PlaceFits, TrustedIsAuthorized, NoCodeInVain, ErrorsAreTrue,
                AnswersAreCurrent, SelfIsOfTheSession, authorized, vars
  <2> QED
    BY <2>1, <2>2
<1> QED
  BY InitIInv, <1>1, PTL DEF Spec

-----------------------------------------------------------------------------
(* The theorems.                                                           *)

(* The types of the session, the call and the answers.                     *)
THEOREM TypeCorrect == Spec => []TypeOK
<1>1. IInv => TypeOK
  BY DEF IInv
<1> QED
  BY Invariant, <1>1, PTL

(* SessionIsKept: after a success no prompt until the session is ended.    *)
THEOREM SessionKept == Spec => []SessionIsKept
<1>1. IInv => SessionIsKept
  BY DEF IInv, TrustedIsAuthorized, SessionIsKept
<1> QED
  BY Invariant, <1>1, PTL

(* NoCodeInVain: no code is sent that nobody needs or can enter.           *)
THEOREM CodeIsNeeded == Spec => []NoCodeInVain
<1>1. IInv => NoCodeInVain
  BY DEF IInv
<1> QED
  BY Invariant, <1>1, PTL

(* ErrorsAreTrue: what an error names as missing is missing.               *)
THEOREM ErrorsTellTheTruth == Spec => []ErrorsAreTrue
<1>1. IInv => ErrorsAreTrue
  BY DEF IInv
<1> QED
  BY Invariant, <1>1, PTL

(* SelfIsOfTheSession, with any number of concurrent Status calls.         *)
THEOREM SelfIsCurrent == Spec => []SelfIsOfTheSession
<1>1. IInv => SelfIsOfTheSession
  BY DEF IInv
<1> QED
  BY Invariant, <1>1, PTL
=============================================================================
