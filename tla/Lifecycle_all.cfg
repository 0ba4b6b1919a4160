\* Two callers and two sessions: every interleaving of two methods, of two
\* Connects, and of a Connect with a session that is still on its way out.
SPECIFICATION FairSpec
CONSTANTS
  Callers = {p1, p2}
  Sessions = {s1, s2}
  None = None
INVARIANTS
  TypeOK
  ConnectedMatchesAPI
  ApiHasGoroutine
  DoneHasOneReceiver
PROPERTIES
  RunOverOnReturn
  SessionsAreHandedOver
  CloseReturns
  DisconnectReturns
  ConnectHonoursCtx
