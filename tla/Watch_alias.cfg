\* A live update, and the same message in a history fetched by username.
SPECIFICATION Spec
CONSTANTS
  news = news
  chat = chat
  username = username
  Refs <- TwoNames
  Canonical <- OneName
  ChatOf <- Aliased
  MsgIds = {1}
  AllPeers = AllPeers
  Feeds = {username}
  Limits = {0}
  DefaultLimit = 1
  MaxLimit = 2
INVARIANT
  OneRowPerMessage
