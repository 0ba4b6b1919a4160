\* One worker: the same live update arrives twice.
SPECIFICATION Spec
CONSTANTS
  Workers = {w1}
  channel = channel
  Refs <- OneName
  Canonical <- OneName
  ChatOf <- OneChat
  MsgIds = {1}
  MaxUnread = 2
  None = None
INVARIANTS
  CountsMessagesOnce
