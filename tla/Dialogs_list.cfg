\* One agent; a user, a legacy chat and a channel with the same number; lists
\* of up to two dialogs with up to two objects; some 350 references.
SPECIFICATION Spec
CONSTANTS
  Words <- Wds
  Lower <- Low
  Usernames = {"channel", "Channel"}
  Numerals = {"7", "007"}
  Value <- Val
  Ids = {7}
  Decimal <- Dec
  Peers <- Ps
  Answers <- Some
  Filters <- Choices
  Inputs <- Spelled
INVARIANTS
  TypeOK
  ListIsFaithful
  ListedPeerIsUsable
  ListedPeerIsFound
  SpellingIsUnderstood
  NormalIsFinal
  AllowlistKnowsSpellings
