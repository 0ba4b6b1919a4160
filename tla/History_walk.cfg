\* One agent walks back through three messages of a channel, of which the second
\* is a service message, locally or at Telegram, under either name, with page
\* sizes of one and two.
SPECIFICATION FairSpec
CONSTANTS
  news = news
  username = username
  Refs <- TwoNames
  Canonical <- OneName
  ChatOf <- Aliased
  MsgIds = {1, 2, 3}
  Service <- Joins
  Agents = {agent}
  Floors = {0, 1}
  Limits = {0, 1, 3}
  DefaultLimit = 1
  MaxLimit = 2
INVARIANTS
  TypeOK
  WalkHasNoHoles
  EmptyPageIsTheEnd
  FetchedIsLogged
PROPERTIES
  WalkEnds
