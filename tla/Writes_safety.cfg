\* Two callers; a legacy chat, a channel and a username that changes hands.
SPECIFICATION Spec
CONSTANTS
  g = g
  c = c
  name = name
  Callers = {p1, p2}
  Users = {}
  Chats = {g}
  Channels = {c}
  Usernames = {name}
  Ops = {"SendMedia", "JoinChat", "ResolveContact"}
  Options <- Clients
  None = None
SYMMETRY Symmetry
INVARIANTS
  TypeOK
  WritesArePermitted
  RetryNeverRepeats
PROPERTY
  KnownPeerIsFound
  ContractIsKept
