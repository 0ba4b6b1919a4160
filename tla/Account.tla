------------------------------- MODULE Account -------------------------------
(***************************************************************************)
(* Who the client is signed in as: ensureAuthorized with the callbacks of  *)
(* userAuthenticator, the session that outlives the connection, and the    *)
(* own user that Connect and Status ask for.                               *)
(*                                                                         *)
(* One goroutine of the host connects and disconnects, others ask for the  *)
(* status.  What several connecting goroutines do to each other is in      *)
(* Lifecycle; the time from the callback of gotd's Run until Run is over   *)
(* is one connection here, during which c.connected holds.                 *)
(***************************************************************************)
CONSTANTS
  Accounts,    \* phone numbers
  Registered,  \* those that have a Telegram account
  Locked,      \* those that have a second factor
  Askers,      \* goroutines that call Status
  None         \* no phone, no session, no user

ASSUME AccountsAssumption ==
  /\ Locked \subseteq Registered
  /\ Registered \subseteq Accounts
  /\ None \notin Accounts

VARIABLES
  phone,     \* c.phone
  prompts,   \* which of c.codeAuth and c.passwordAuth are set
  file,      \* the account session.json belongs to
  valid,     \* Telegram honours that session
  selfUser,  \* c.selfUser
  pc,        \* where Connect is, "up" once it has returned nil
  err,       \* what the last Connect has returned
  look,      \* where each Status is: it has looked at the client, waits for
             \* an answer, has it
  answer,    \* the user in the answer it waits for
  (* History. *)
  trusted,   \* this client was signed in, and nobody has ended its session since
  named,     \* c.selfUser was learnt on this connection, from this session
  late       \* the Status that hold an answer about an earlier one

config  == <<phone, prompts>>
session == <<file, valid, trusted>>
self    == <<selfUser, named>>
status  == <<look, answer, late>>
vars == <<phone, prompts, file, valid, selfUser, pc, err, look, answer,
          trusted, named, late>>

Flow == {"flow", "code", "password"}
Errors == {"ErrPhoneRequired", "ErrCodePromptMissing", "ErrPassword2FARequired",
           "ErrAuthFailed", "other"}

TypeOK ==
  /\ phone \in Accounts \cup {None}
  /\ prompts \in SUBSET {"code", "password"}
  /\ file \in Registered \cup {None}
  /\ valid \in BOOLEAN
  /\ selfUser \in Registered \cup {None}
  /\ pc \in {"off", "dialing", "status", "identify", "ready", "up"} \cup Flow
  /\ err \in {"none", "nil"} \cup Errors
  /\ look \in [Askers -> {"idle", "looked", "asking", "answered"}]
  /\ answer \in [Askers -> Registered \cup {None}]
  /\ trusted \in BOOLEAN
  /\ named \in BOOLEAN
  /\ late \in SUBSET Askers

(* The store directory may hold the session of an earlier process, which   *)
(* need not be one of the configured phone.                                *)
Init ==
  /\ phone \in Accounts \cup {None}
  /\ prompts \in SUBSET {"code", "password"}
  /\ file \in Registered \cup {None}
  /\ valid \in IF file = None THEN {FALSE} ELSE BOOLEAN
  /\ selfUser = None
  /\ pc = "off"
  /\ err = "none"
  /\ look = [q \in Askers |-> "idle"]
  /\ answer = [q \in Askers |-> None]
  /\ trusted = FALSE
  /\ named = FALSE
  /\ late = {}

connected  == pc \notin {"off", "dialing"}
authorized == file # None /\ valid

-----------------------------------------------------------------------------
(* Connect.                                                                *)

(* Who has an answer that is not kept yet.                                 *)
holding == {q \in Askers : look[q] = "answered" /\ answer[q] # None}

(* The connection is over: api is gone, and a request of Status that has   *)
(* no answer yet fails.                                                    *)
End ==
  /\ pc' = "off"
  /\ named' = FALSE
  /\ late' = late \cup holding
  /\ look' = [q \in Askers |-> IF look[q] = "asking" THEN "answered" ELSE look[q]]
  /\ UNCHANGED <<answer, selfUser>>

(* Connect fails: the callback returns the error and Run is over.          *)
Fail(e) ==
  /\ End
  /\ err' = e
  /\ UNCHANGED <<config, session>>

Proceed(from, to) ==
  /\ pc = from
  /\ pc' = to
  /\ UNCHANGED <<config, err, status>>

Dial ==
  /\ pc = "off"
  /\ pc' = "dialing"
  /\ err' = "none"
  /\ UNCHANGED <<config, session, self, status>>

(* gotd calls the callback, or Run fails before.                           *)
DialDone ==
  \/ Proceed("dialing", "status") /\ UNCHANGED <<session, self>>
  \/ pc = "dialing" /\ Fail("other")

(* Mutation: nobody looks whether a prompt is set before a code is sent.   *)
MutNoPromptCheck ==
  IF phone = None THEN "ErrPhoneRequired" ELSE "none"

(* Mutation: the prompt is looked at first.                                *)
MutPromptFirst ==
  IF "code" \notin prompts THEN "ErrCodePromptMissing"
  ELSE IF phone = None THEN "ErrPhoneRequired"
  ELSE "none"

(* What the configuration lacks for a sign-in.                             *)
Lacking ==
  IF phone = None THEN "ErrPhoneRequired"
  ELSE IF "code" \notin prompts THEN "ErrCodePromptMissing"
  ELSE "none"

(* ensureAuthorized up to the flow.                                        *)
AuthStatus ==
  \/ pc = "status" /\ Fail("ErrAuthFailed")
  \/ authorized /\ Proceed("status", "identify") /\ UNCHANGED <<session, self>>
  \/ ~authorized /\ Lacking = "none" /\ Proceed("status", "flow") /\ UNCHANGED <<session, self>>
  \/ ~authorized /\ Lacking # "none" /\ pc = "status" /\ Fail(Lacking)

(* Mutation: the error of the flow is returned as it is.                   *)
MutUnclassified(cause) == cause

(* What ensureAuthorized makes of an error of the flow: only gotd's own    *)
(* ErrPasswordNotProvided is recognised.                                   *)
Classify(cause) ==
  IF cause = "ErrPasswordNotProvided" THEN "ErrPassword2FARequired" ELSE "ErrAuthFailed"

(* auth.Flow: Telegram sends a code to the phone.                          *)
SendCode ==
  \/ Proceed("flow", "code") /\ UNCHANGED <<session, self>>
  \/ pc = "flow" /\ Fail(Classify("other"))

(* A new session, which gotd stores in session.json.                       *)
SignedIn(from) ==
  /\ pc = from
  /\ pc' = "identify"
  /\ file' = phone
  /\ valid' = TRUE
  /\ trusted' = TRUE
  /\ named' = FALSE
  /\ late' = late \cup holding
  /\ UNCHANGED <<config, err, selfUser, look, answer>>

(* The code prompt fails, or gives a wrong code; or a right one, and       *)
(* Telegram lets the account in, asks for its password, or for a sign-up,  *)
(* which SignUp and AcceptTermsOfService refuse.  The callback looks for   *)
(* the prompt once more; without one it would fail like the others.        *)
Code ==
  \/ pc = "code" /\ Fail(Classify("other"))
  \/ "code" \in prompts /\ phone \in Registered \ Locked /\ SignedIn("code")
  \/ "code" \in prompts /\ phone \in Locked /\ Proceed("code", "password")
       /\ UNCHANGED <<session, self>>

(* Without a password prompt Password returns ErrPassword2FARequired.  The *)
(* comment in ensureAuthorized expects ErrPasswordNotProvided of gotd.     *)
Password ==
  \/ /\ pc = "password"
     /\ "password" \notin prompts
     /\ \E cause \in {"ErrPassword2FARequired", "ErrPasswordNotProvided"} : Fail(Classify(cause))
  \/ pc = "password" /\ "password" \in prompts /\ Fail(Classify("other"))
  \/ "password" \in prompts /\ SignedIn("password")

(* Mutation: a user that is known already is kept.                         *)
MutKeepsSelf ==
  /\ selfUser' = IF selfUser = None THEN file ELSE selfUser
  /\ named' = TRUE

(* The answer of Self replaces what was known.                             *)
LearnSelf ==
  /\ selfUser' = file
  /\ named' = TRUE

(* Self, whose failure is ignored; the callback fills ready.               *)
Identify ==
  /\ Proceed("identify", "ready")
  /\ \/ authorized /\ LearnSelf
     \/ UNCHANGED self
  /\ UNCHANGED session

(* Connect returns nil.                                                    *)
Publish ==
  /\ pc = "ready"
  /\ pc' = "up"
  /\ err' = "nil"
  /\ trusted' = valid
  /\ UNCHANGED <<config, file, valid, self, status>>

(* Mutation: Disconnect removes session.json.                              *)
MutForgets ==
  /\ pc = "up"
  /\ End
  /\ file' = None
  /\ UNCHANGED <<config, err, valid, trusted>>

(* Disconnect, or the connection is lost.  session.json stays.             *)
Disconnect ==
  /\ pc = "up"
  /\ End
  /\ UNCHANGED <<config, err, session>>

(* The ctx of Connect is done, or Run is over, also with ready filled.     *)
Abandon == pc \notin {"off", "up"} /\ Fail("other")

-----------------------------------------------------------------------------
(* Status.                                                                 *)

(* Without a connection, or when the own user is known, Status answers     *)
(* from what it has.  Otherwise it goes on to ask.                         *)
StatusLook(q) ==
  /\ look[q] = "idle"
  /\ connected /\ selfUser = None
  /\ look' = [look EXCEPT ![q] = "looked"]
  /\ UNCHANGED <<config, session, self, pc, err, answer, late>>

(* withAPI: the request, or an error that Status ignores.                  *)
StatusAsk(q) ==
  /\ look[q] = "looked"
  /\ look' = [look EXCEPT ![q] = IF connected THEN "asking" ELSE "idle"]
  /\ answer' = [answer EXCEPT ![q] = None]
  /\ UNCHANGED <<config, session, self, pc, err, late>>

(* Telegram answers UsersGetUsers, or the request fails.                   *)
Served(q) ==
  /\ look[q] = "asking"
  /\ look' = [look EXCEPT ![q] = "answered"]
  /\ \E u \in IF authorized THEN {file, None} ELSE {None} : answer' = [answer EXCEPT ![q] = u]
  /\ UNCHANGED <<config, session, self, pc, err, late>>

(* Status returns, and keeps the user if there was one in the answer.      *)
StatusReturn(q) ==
  /\ look[q] = "answered"
  /\ look' = [look EXCEPT ![q] = "idle"]
  /\ IF answer[q] = None THEN UNCHANGED self
     ELSE selfUser' = answer[q] /\ named' = (q \notin late)
  /\ late' = late \ {q}
  /\ UNCHANGED <<config, session, pc, err, answer>>

-----------------------------------------------------------------------------
(* The user ends the session from another device, or Telegram does.        *)
Revoke ==
  /\ valid
  /\ valid' = FALSE
  /\ trusted' = FALSE
  /\ UNCHANGED <<config, file, self, pc, err, status>>

Next ==
  \/ Dial \/ DialDone \/ AuthStatus \/ SendCode \/ Code \/ Password \/ Identify
  \/ Publish \/ Disconnect \/ Abandon
  \/ \E q \in Askers : StatusLook(q) \/ StatusAsk(q) \/ Served(q) \/ StatusReturn(q)
  \/ Revoke

Spec == Init /\ [][Next]_vars

-----------------------------------------------------------------------------
(* Properties.                                                             *)

(* README.md:75, "Subsequent runs skip the SMS/2FA prompts": once Connect  *)
(* has succeeded, no later Connect of any kind, after a Disconnect, a lost *)
(* connection or failed attempts, asks for a code or a password, until the *)
(* session was ended from outside.                                         *)
SessionIsKept == trusted => pc \notin Flow

(* Telegram sends a code, which it allows only a few times a day, only if  *)
(* the session is of no use, there is a phone to send it to and a prompt   *)
(* that can ask for it; and the password only to an account that has one.  *)
NoCodeInVain ==
  /\ pc \in Flow => ~authorized /\ phone # None /\ "code" \in prompts
  /\ pc = "password" => phone \in Locked

(* An error that names something missing can be believed: it is missing,   *)
(* and the session on disk did not do without it.                          *)
ErrorsAreTrue ==
  /\ err = "ErrPhoneRequired" => phone = None
  /\ err = "ErrCodePromptMissing" => phone # None /\ "code" \notin prompts
  /\ err = "ErrPassword2FARequired" => phone \in Locked /\ "password" \notin prompts
  /\ err \in {"ErrPhoneRequired", "ErrCodePromptMissing"} => ~trusted

(* status.go:25, "so Status reports an authoritative answer": from when a  *)
(* connection has learnt its own user, Status reports the user of its      *)
(* session, also if an earlier connection belonged to another account,     *)
(* until a Status that has waited since then stores what it has.           *)
SelfIsOfTheSession == named => selfUser = file

-----------------------------------------------------------------------------
(* What the README promises and the code does not keep.                    *)

(* README.md:118, "2FA users must wire WithPasswordPrompt.  Without it,    *)
(* login fails with ErrPassword2FARequired": a login that has got as far   *)
(* as the password and has no prompt for it ends with this error.          *)
MissingPasswordIsTold ==
  [][pc = "password" /\ "password" \notin prompts /\ pc' = "off"
       => err' \in {"ErrPassword2FARequired", "other"}]_vars
=============================================================================
