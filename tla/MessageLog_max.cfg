\* One worker: MarkRead up to the first of two messages.
SPECIFICATION Spec
CONSTANTS
  Workers = {w1}
  channel = channel
  Refs <- OneName
  Canonical <- OneName
  ChatOf <- OneChat
  MsgIds = {1, 2}
  MaxUnread = 1
  None = None
PROPERTY
  MarkReadHonoursMax
