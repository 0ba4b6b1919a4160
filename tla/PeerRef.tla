------------------------------- MODULE PeerRef -------------------------------
(***************************************************************************)
(* References to peers: NormalizePeerID, ParsePeerID and FormatPeerID.  A  *)
(* reference is a sequence of tokens: punctuation and words.  Two words    *)
(* that follow each other would be one word, so they do not.               *)
(***************************************************************************)
EXTENDS Integers, Sequences, FiniteSets

CONSTANTS
  Words,      \* maximal runs of letters, digits, "_" and a sign
  Lower,      \* strings.ToLower
  Usernames,  \* words that isValidUsername accepts
  Numerals,   \* words that strconv.ParseInt(word, 10, 64) accepts
  Value,      \* and what it makes of them
  Ids,        \* the numeric ids of peers
  Decimal     \* strconv.FormatInt

Kinds == {"user", "chat", "channel"}

(* Each of the five stands for itself; Link is any of the three prefixes   *)
(* "https://t.me/", "http://t.me/" and "t.me/".                            *)
Space == "space"
Colon == "colon"
At    == "at"
Slash == "slash"
Link  == "link"

Punctuation == {Space, Link, At, Slash, Colon}
Tokens      == Words \cup Punctuation

ASSUME WordsAssumption ==
  /\ Words \cap Punctuation = {}
  /\ Kinds \cup Usernames \cup Numerals \subseteq Words
  /\ Lower \in [Words -> Words]
  /\ \A k \in Kinds : Lower[k] = k
ASSUME IdsAssumption ==
  /\ Ids \subseteq Int
  /\ Value \in [Numerals -> Int]
  /\ Decimal \in [Ids -> Numerals]
  /\ \A i \in Ids : Value[Decimal[i]] = i

-----------------------------------------------------------------------------
Least(S)    == CHOOSE i \in S : \A j \in S : i <= j
Greatest(S) == CHOOSE i \in S : \A j \in S : j <= i

(* strings.TrimSpace                                                       *)
Trim(s) ==
  LET solid == {i \in DOMAIN s : s[i] # Space} IN
  IF solid = {} THEN <<>> ELSE SubSeq(s, Least(solid), Greatest(solid))

(* strings.TrimPrefix and strings.TrimSuffix                               *)
TrimPrefix(s, t) == IF s # <<>> /\ s[1] = t THEN Tail(s) ELSE s
TrimSuffix(s, t) == IF s # <<>> /\ s[Len(s)] = t THEN SubSeq(s, 1, Len(s) - 1) ELSE s

IsWord(s, W) == Len(s) = 1 /\ s[1] \in W

(* Mutation: only the whole reference is trimmed.                          *)
MutNoInnerTrim(s, i) ==
  LET kind == SubSeq(s, 1, i - 1)
      id   == SubSeq(s, i + 1, Len(s)) IN
  IF IsWord(kind, Words) /\ Lower[kind[1]] \in Kinds /\ IsWord(id, Numerals)
    THEN <<Lower[kind[1]], Colon, id[1]>> ELSE <<>>

(* A pair "kind:id" with its colon at i.  The id stays as it was written.  *)
NormalPair(s, i) ==
  LET kind == Trim(SubSeq(s, 1, i - 1))
      id   == Trim(SubSeq(s, i + 1, Len(s))) IN
  IF IsWord(kind, Words) /\ Lower[kind[1]] \in Kinds /\ IsWord(id, Numerals)
    THEN <<Lower[kind[1]], Colon, id[1]>> ELSE <<>>

(* Mutation: the "@" of the normal form is not taken off again.            *)
MutKeepsAt(s) ==
  LET name == TrimSuffix(s, Slash) IN
  IF IsWord(name, Usernames) THEN <<At, name[1]>> ELSE <<>>

(* "@name" or "name", with or without a slash at its end.                  *)
NormalName(s) ==
  LET name == TrimSuffix(TrimPrefix(s, At), Slash) IN
  IF IsWord(name, Usernames) THEN <<At, name[1]>> ELSE <<>>

(* The empty reference stands for one that is not recognised.  A colon in  *)
(* front makes no pair.                                                    *)
NormalizePeerID(in) ==
  LET s      == TrimPrefix(Trim(in), Link)
      colons == {i \in DOMAIN s : s[i] = Colon} IN
  IF colons # {} /\ Least(colons) > 1 THEN NormalPair(s, Least(colons)) ELSE NormalName(s)

(* The kind and the number, "@" and the username, or the empty sequence    *)
(* for ErrInvalidPeer.                                                     *)
ParsePeerID(in) ==
  LET norm == NormalizePeerID(in) IN
  IF norm = <<>> THEN <<>>
  ELSE IF norm[1] = At THEN norm
  ELSE <<norm[1], Value[norm[3]]>>

FormatPeerID(kind, id) == IF kind \in Kinds THEN <<kind, Colon, Decimal[id]>> ELSE <<>>

(* Mutation: the entries are kept as they were written.                    *)
MutRawEntries(entries) == entries

(* WithAllowedPeers: entries that are not recognised are dropped, and a    *)
(* list without any entry is no list.                                      *)
AllowedPeers(entries) == {NormalizePeerID(e) : e \in entries} \ {<<>>}

(* recipientAllowed                                                        *)
RecipientAllowed(entries, in) ==
  AllowedPeers(entries) = {} \/ NormalizePeerID(in) \in AllowedPeers(entries)
=============================================================================
