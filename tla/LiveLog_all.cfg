\* Three workers and an agent on one chat: live updates, histories, MarkRead,
\* ListChats, crashes and polls in every interleaving.
SPECIFICATION LiveSpec
CONSTANTS
  Workers = {w1, w2, w3}
  channel = channel
  Refs <- OneName
  Canonical <- OneName
  ChatOf <- OneChat
  MsgIds = {1, 2}
  MaxUnread = 1
  None = None
  AllPeers = AllPeers
  Feeds = {channel}
  Limits = {0, 3}
  DefaultLimit = 1
  MaxLimit = 2
SYMMETRY Symmetry
INVARIANTS
  TypeOK
  UnreadRowIsCounted
  LastAtCoversRows
PROPERTIES
  ImplementsTable
  EndToEndFeed
