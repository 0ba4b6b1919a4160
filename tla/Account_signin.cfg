\* Every configuration and every stored session: an account with a password, one
\* without, and a phone that has no account.
SPECIFICATION Spec
CONSTANTS
  Accounts = {open, locked, fresh}
  Registered = {open, locked}
  Locked = {locked}
  Askers = {q1, q2}
  None = None
INVARIANTS
  TypeOK
  SessionIsKept
  NoCodeInVain
  ErrorsAreTrue
  SelfIsOfTheSession
