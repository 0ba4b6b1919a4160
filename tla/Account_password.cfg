\* The same, for the error of a login without a password prompt.
SPECIFICATION Spec
CONSTANTS
  Accounts = {open, locked, fresh}
  Registered = {open, locked}
  Locked = {locked}
  Askers = {q1, q2}
  None = None
PROPERTY
  MissingPasswordIsTold
