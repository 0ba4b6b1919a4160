\* One caller that uses the client sequentially.
SPECIFICATION Spec
CONSTANTS
  Callers = {p1}
  Sessions = {s1, s2}
  None = None
INVARIANT
  PublishedSessionUsable
