\* One agent polls everything and one polls one channel, with limits below, at
\* and above the bounds of the clamp.
SPECIFICATION FairSpec
CONSTANTS
  news = news
  chat = chat
  username = username
  Refs <- TwoChats
  Canonical <- TwoChats
  ChatOf <- Apart
  MsgIds = {1, 2}
  AllPeers = AllPeers
  Feeds = {AllPeers, news}
  Limits = {0, 1, 3}
  DefaultLimit = 1
  MaxLimit = 2
INVARIANTS
  TypeOK
  CursorTellsAll
PROPERTIES
  FeedFairSpec
  ReadAndPlaceAreFinal
