---------------------------- MODULE DialogsProofs ----------------------------
(* Proofs about references to peers and about ListChats.                   *)
EXTENDS Dialogs, SequenceTheorems, FiniteSetTheorems, WellFoundedInduction, TLAPS

-----------------------------------------------------------------------------
(* References.  The normal forms of pairs and of names.                    *)

PairForms == {<<k, Colon, n>> : k \in Kinds, n \in Numerals}
NameForms == {<<At, u>> : u \in Usernames}

(* Whatever comes in, a normal form or nothing comes out.                  *)
LEMMA NormalForms ==
  ASSUME NEW in
  PROVE  NormalizePeerID(in) \in {<<>>} \cup PairForms \cup NameForms
<1> DEFINE s      == TrimPrefix(Trim(in), Link)
           colons == {i \in DOMAIN s : s[i] = Colon}
<1>1. ASSUME NEW r, NEW i
      PROVE  NormalPair(r, i) \in {<<>>} \cup PairForms
  BY DEF NormalPair, IsWord, PairForms
<1>2. ASSUME NEW r
      PROVE  NormalName(r) \in {<<>>} \cup NameForms
  BY DEF NormalName, IsWord, NameForms
<1>3. NormalizePeerID(in) \in {NormalPair(s, Least(colons)), NormalName(s)}
  BY DEF NormalizePeerID
<1> QED
  BY <1>1, <1>2, <1>3

(* The least and the greatest number of a range.                           *)
LEMMA Extremes ==
  ASSUME NEW S \in SUBSET Int, NEW a \in S, NEW b \in S,
         \A i \in S : a <= i /\ i <= b
  PROVE  Least(S) = a /\ Greatest(S) = b
<1>1. Least(S) \in S /\ \A j \in S : Least(S) <= j
  BY DEF Least
<1>2. Greatest(S) \in S /\ \A j \in S : j <= Greatest(S)
  BY DEF Greatest
<1>3. Least(S) \in Int /\ Greatest(S) \in Int /\ a \in Int /\ b \in Int
  BY <1>1, <1>2
<1>4. Least(S) <= a /\ a <= Least(S)
  BY <1>1
<1>5. Greatest(S) <= b /\ b <= Greatest(S)
  BY <1>2
<1> QED
  BY <1>3, <1>4, <1>5

LEMMA WordsAreSolid ==
  ASSUME NEW w \in Words
  PROVE  w \notin {Space, Link, At, Slash, Colon}
BY WordsAssumption DEF Punctuation

LEMMA PunctuationDiffers ==
  /\ Colon # Space /\ Colon # Link
  /\ At # Space /\ At # Link /\ At # Colon
  /\ \A k \in Kinds : k # At
BY DEF Colon, Space, Link, At, Kinds

(* A sequence that neither begins nor ends with a blank is trimmed.        *)
LEMMA TrimmedStays ==
  ASSUME NEW S, NEW s \in Seq(S), s # <<>>, s[1] # Space, s[Len(s)] # Space
  PROVE  Trim(s) = s
<1> DEFINE solid == {i \in DOMAIN s : s[i] # Space}
<1>0. Len(s) \in Nat /\ DOMAIN s = 1..Len(s)
  BY LenProperties
<1>1. Len(s) \in Nat \ {0} /\ DOMAIN s = 1..Len(s)
  BY <1>0, EmptySeq
<1>2. 1 \in solid /\ Len(s) \in solid /\ solid \in SUBSET Int
  BY <1>1
<1>3. \A i \in solid : 1 <= i /\ i <= Len(s)
  BY <1>1
<1>4. Trim(s) = SubSeq(s, Least(solid), Greatest(solid))
  BY <1>2 DEF Trim
<1> HIDE DEF solid
<1>5. Least(solid) = 1 /\ Greatest(solid) = Len(s)
  BY <1>2, <1>3, Extremes
<1> QED
  BY <1>4, <1>5, SubSeqFull

(* A word alone is trimmed.                                                *)
LEMMA WordStays ==
  ASSUME NEW w \in Words
  PROVE  Trim(<<w>>) = <<w>>
<1>1. <<w>> \in Seq(Words) /\ <<w>> # <<>> /\ Len(<<w>>) = 1 /\ <<w>>[1] = w
  OBVIOUS
<1> QED
  BY <1>1, WordsAreSolid, TrimmedStays

(* Short sequences and their parts.                                        *)
LEMMA Triple ==
  ASSUME NEW S, NEW a \in S, NEW b \in S, NEW c \in S
  PROVE  LET s == <<a, b, c>> IN
         /\ s \in Seq(S) /\ s # <<>> /\ Len(s) = 3 /\ DOMAIN s = 1..3
         /\ s[1] = a /\ s[2] = b /\ s[3] = c
         /\ SubSeq(s, 1, 1) = <<a>> /\ SubSeq(s, 3, 3) = <<c>>
<1> DEFINE s == <<a, b, c>>
<1>1. s \in Seq(S) /\ s # <<>> /\ Len(s) = 3 /\ DOMAIN s = 1..3
  OBVIOUS
<1>2. s[1] = a /\ s[2] = b /\ s[3] = c
  OBVIOUS
<1> HIDE DEF s
<1>3. ASSUME NEW m \in 1..3
      PROVE  /\ SubSeq(s, m, m) \in Seq(S)
             /\ Len(SubSeq(s, m, m)) = 1
             /\ SubSeq(s, m, m)[1] = s[m]
  <2>1. m \in Int /\ \A i \in m..m : s[i] \in S
    BY <1>1
  <2>2. /\ SubSeq(s, m, m) \in Seq(S)
        /\ Len(SubSeq(s, m, m)) = IF m <= m THEN m - m + 1 ELSE 0
        /\ \A i \in 1..(m - m + 1) : SubSeq(s, m, m)[i] = s[m + i - 1]
    BY <2>1, SubSeqProperties
  <2>3. m - m + 1 = 1 /\ m <= m /\ m + 1 - 1 = m /\ 1 \in 1..1
    BY <2>1
  <2>4. SubSeq(s, m, m)[1] = s[m + 1 - 1]
    BY <2>2, <2>3
  <2> QED
    BY <2>2, <2>3, <2>4
<1>4. \A t \in Seq(S), x \in S : Len(t) = 1 /\ t[1] = x => t = <<x>>
  OBVIOUS
<1>5. SubSeq(s, 1, 1) = <<a>> /\ SubSeq(s, 3, 3) = <<c>>
  <2>1. \A m \in 1..3 : SubSeq(s, m, m) = <<s[m]>>
    <3>1. \A m \in 1..3 : s[m] \in S
      BY <1>1
    <3> QED
      BY <1>3, <1>4, <3>1
  <2>2. 1 \in 1..3 /\ 3 \in 1..3
    OBVIOUS
  <2> QED
    BY <1>2, <2>1, <2>2
<1> QED
  BY <1>1, <1>2, <1>5 DEF s

LEMMA PairStays ==
  ASSUME NEW k \in Kinds, NEW n \in Numerals
  PROVE  NormalizePeerID(<<k, Colon, n>>) = <<k, Colon, n>>
<1> DEFINE s      == <<k, Colon, n>>
           colons == {i \in DOMAIN s : s[i] = Colon}
<1>1. k \in Words /\ n \in Words /\ Lower[k] = k
  BY WordsAssumption
<1>2. k \notin {Space, Link, Colon} /\ n \notin {Space, Colon}
  BY <1>1, WordsAreSolid
<1>0. k \in Tokens /\ Colon \in Tokens /\ n \in Tokens
  BY <1>1 DEF Tokens, Punctuation
<1>3. /\ s \in Seq(Tokens) /\ s # <<>> /\ Len(s) = 3 /\ DOMAIN s = 1..3
      /\ s[1] = k /\ s[2] = Colon /\ s[3] = n
      /\ SubSeq(s, 1, 1) = <<k>> /\ SubSeq(s, 3, 3) = <<n>>
  BY <1>0, Triple
<1> HIDE DEF s
<1>4. Trim(s) = s
  BY <1>2, <1>3, TrimmedStays
<1>5. TrimPrefix(Trim(s), Link) = s
  BY <1>2, <1>3, <1>4 DEF TrimPrefix
<1>6. colons = {2}
  BY <1>2, <1>3
<1>7. Least(colons) = 2
  BY <1>6, Extremes
<1>8. Trim(SubSeq(s, 1, 1)) = <<k>> /\ Trim(SubSeq(s, 3, 3)) = <<n>>
  BY <1>1, <1>3, WordStays
<1>9. NormalPair(s, 2) = <<k, Colon, n>>
  BY <1>1, <1>3, <1>8 DEF NormalPair, IsWord
<1> QED
  BY <1>5, <1>6, <1>7, <1>9 DEF NormalizePeerID, s

LEMMA NameStays ==
  ASSUME NEW u \in Usernames
  PROVE  NormalizePeerID(<<At, u>>) = <<At, u>>
<1> DEFINE s      == <<At, u>>
           colons == {i \in DOMAIN s : s[i] = Colon}
<1>1. u \in Words
  BY WordsAssumption
<1>2. u \notin {Space, Slash, Colon}
  BY <1>1, WordsAreSolid
<1>0. At \in Tokens /\ u \in Tokens
  BY <1>1 DEF Tokens, Punctuation
<1>3. /\ s \in Seq(Tokens) /\ s # <<>> /\ Len(s) = 2 /\ DOMAIN s = 1..2
      /\ s[1] = At /\ s[2] = u /\ Tail(s) = <<u>>
  BY <1>0
<1> HIDE DEF s
<1>4. Trim(s) = s
  BY <1>2, <1>3, PunctuationDiffers, TrimmedStays
<1>5. TrimPrefix(Trim(s), Link) = s
  BY <1>3, <1>4, PunctuationDiffers DEF TrimPrefix
<1>6. colons = {}
  BY <1>2, <1>3, PunctuationDiffers
<1>7. TrimPrefix(s, At) = <<u>>
  BY <1>3 DEF TrimPrefix
<1>8. TrimSuffix(<<u>>, Slash) = <<u>>
  BY <1>2 DEF TrimSuffix
<1>9. NormalName(s) = <<At, u>>
  BY <1>7, <1>8 DEF NormalName, IsWord
<1> QED
  BY <1>5, <1>6, <1>9 DEF NormalizePeerID, s

(* NormalizePeerID is idempotent, on every sequence of tokens.             *)
THEOREM Idempotent ==
  ASSUME NEW in
  PROVE  NormalizePeerID(NormalizePeerID(in)) = NormalizePeerID(in)
<1>1. CASE NormalizePeerID(in) = <<>>
  <2>1. Trim(<<>>) = <<>>
    BY DEF Trim
  <2>2. TrimPrefix(<<>>, Link) = <<>> /\ TrimPrefix(<<>>, At) = <<>> /\ TrimSuffix(<<>>, Slash) = <<>>
    BY DEF TrimPrefix, TrimSuffix
  <2>3. NormalName(<<>>) = <<>>
    BY <2>2 DEF NormalName, IsWord
  <2> QED
    BY <1>1, <2>1, <2>2, <2>3 DEF NormalizePeerID
<1>2. CASE NormalizePeerID(in) \in PairForms
  BY <1>2, PairStays DEF PairForms
<1>3. CASE NormalizePeerID(in) \in NameForms
  BY <1>3, NameStays DEF NameForms
<1> QED
  BY <1>1, <1>2, <1>3, NormalForms

(* ParsePeerID reads what FormatPeerID writes.                             *)
THEOREM ParseReadsFormat ==
  ASSUME NEW k \in Kinds, NEW i \in Ids
  PROVE  /\ NormalizePeerID(FormatPeerID(k, i)) = FormatPeerID(k, i)
         /\ ParsePeerID(FormatPeerID(k, i)) = <<k, i>>
<1>1. Decimal[i] \in Numerals /\ Value[Decimal[i]] = i
  BY IdsAssumption
<1>2. FormatPeerID(k, i) = <<k, Colon, Decimal[i]>>
  BY DEF FormatPeerID
<1>3. NormalizePeerID(<<k, Colon, Decimal[i]>>) = <<k, Colon, Decimal[i]>>
  BY <1>1, PairStays
<1>4. k # At
  BY PunctuationDiffers
<1> QED
  BY <1>1, <1>2, <1>3, <1>4 DEF ParsePeerID

-----------------------------------------------------------------------------
(* NormalIsFinal, for every input.                                         *)
THEOREM NormalFormIsFinal == Spec => []NormalIsFinal
<1>1. NormalIsFinal
  BY Idempotent DEF NormalIsFinal, ParsePeerID
<1> QED
  BY <1>1, PTL

(* A set of positions that is not empty has a least and a greatest one.    *)
LEMMA GreatestIsThere ==
  ASSUME NEW n \in Nat, NEW S \in SUBSET (1..n), S # {}
  PROVE  Greatest(S) \in S /\ \A j \in S : j <= Greatest(S)
<1> DEFINE Above(j) == {i \in S : i > j}
           Tails    == {Above(j) : j \in S}
<1>1. IsFiniteSet(S) /\ \A j \in S : j \in Int
  <2>1. IsFiniteSet(1..n)
    BY FS_Interval
  <2>2. IsFiniteSet(S)
    BY <2>1, FS_Subset
  <2>3. \A j \in S : j \in Int
    OBVIOUS
  <2> QED
    BY <2>2, <2>3
<1>2. Tails \subseteq FiniteSubsetsOf(S) /\ Tails # {}
  <2>1. \A j \in S : Above(j) \in SUBSET S /\ IsFiniteSet(Above(j))
    BY <1>1, FS_Subset
  <2> QED
    BY <2>1 DEF FiniteSubsetsOf
<1>3. PICK tail \in Tails : \A other \in Tails :
        ~(<<other, tail>> \in StrictSubsetOrdering(S))
  BY <1>1, <1>2, FS_StrictSubsetOrderingWellFounded, WFMin
<1>4. PICK m \in S : tail = Above(m)
  OBVIOUS
<1>5. ASSUME NEW j \in S, j > m PROVE FALSE
  <2>0. j \in Int /\ m \in Int
    BY <1>1
  <2>1. Above(j) \subseteq Above(m) /\ j \in Above(m) /\ j \notin Above(j)
    <3>1. ASSUME NEW i \in S, i > j PROVE i > m
      <4>1. i \in Int
        BY <1>1
      <4> QED
        BY <1>5, <2>0, <3>1, <4>1
    <3>2. Above(j) \subseteq Above(m)
      BY <3>1
    <3>3. j \in Above(m)
      BY <1>5
    <3>4. ~(j > j)
      BY <2>0
    <3>5. j \notin Above(j)
      BY <3>4
    <3> QED
      BY <3>2, <3>3, <3>5
  <2>2. <<Above(j), Above(m)>> \in StrictSubsetOrdering(S)
    BY <2>1 DEF StrictSubsetOrdering
  <2> QED
    BY <1>3, <1>4, <2>2
<1> HIDE DEF Above, Tails
<1>6. \A j \in S : j <= m
  BY <1>1, <1>5
<1> QED
  BY <1>6 DEF Greatest

LEMMA LeastIsThere ==
  ASSUME NEW n \in Nat, NEW S \in SUBSET (1..n), S # {}
  PROVE  Least(S) \in S /\ \A j \in S : Least(S) <= j
<1> DEFINE Below(j) == {i \in S : i < j}
           Tails    == {Below(j) : j \in S}
<1>1. IsFiniteSet(S) /\ \A j \in S : j \in Int
  <2>1. IsFiniteSet(1..n)
    BY FS_Interval
  <2>2. IsFiniteSet(S)
    BY <2>1, FS_Subset
  <2>3. \A j \in S : j \in Int
    OBVIOUS
  <2> QED
    BY <2>2, <2>3
<1>2. Tails \subseteq FiniteSubsetsOf(S) /\ Tails # {}
  <2>1. \A j \in S : Below(j) \in SUBSET S /\ IsFiniteSet(Below(j))
    BY <1>1, FS_Subset
  <2> QED
    BY <2>1 DEF FiniteSubsetsOf
<1>3. PICK tail \in Tails : \A other \in Tails :
        ~(<<other, tail>> \in StrictSubsetOrdering(S))
  BY <1>1, <1>2, FS_StrictSubsetOrderingWellFounded, WFMin
<1>4. PICK m \in S : tail = Below(m)
  OBVIOUS
<1>5. ASSUME NEW j \in S, j < m PROVE FALSE
  <2>0. j \in Int /\ m \in Int
    BY <1>1
  <2>1. Below(j) \subseteq Below(m) /\ j \in Below(m) /\ j \notin Below(j)
    <3>1. ASSUME NEW i \in S, i < j PROVE i < m
      <4>1. i \in Int
        BY <1>1
      <4> QED
        BY <1>5, <2>0, <3>1, <4>1
    <3>2. Below(j) \subseteq Below(m)
      BY <3>1
    <3>3. j \in Below(m)
      BY <1>5
    <3>4. ~(j < j)
      BY <2>0
    <3>5. j \notin Below(j)
      BY <3>4
    <3> QED
      BY <3>2, <3>3, <3>5
  <2>2. <<Below(j), Below(m)>> \in StrictSubsetOrdering(S)
    BY <2>1 DEF StrictSubsetOrdering
  <2> QED
    BY <1>3, <1>4, <2>2
<1> HIDE DEF Below, Tails
<1>6. \A j \in S : m <= j
  BY <1>1, <1>5
<1> QED
  BY <1>6 DEF Least

(* Trimming and taking off a prefix bring no new token.                    *)
LEMMA TrimIsPart ==
  ASSUME NEW S, NEW s \in Seq(S)
  PROVE  Trim(s) \in Seq(S)
<1> DEFINE solid == {i \in DOMAIN s : s[i] # Space}
<1>1. Len(s) \in Nat /\ DOMAIN s = 1..Len(s)
  BY LenProperties
<1>2. solid \in SUBSET (1..Len(s))
  BY <1>1
<1>3. CASE solid = {}
  BY <1>3, EmptySeq DEF Trim
<1>4. CASE solid # {}
  <2>1. Trim(s) = SubSeq(s, Least(solid), Greatest(solid))
    BY <1>4 DEF Trim
  <2> HIDE DEF solid
  <2>2. Least(solid) \in 1..Len(s) /\ Greatest(solid) \in 1..Len(s)
    BY <1>1, <1>2, <1>4, LeastIsThere, GreatestIsThere
  <2>3. \A i \in Least(solid)..Greatest(solid) : s[i] \in S
    <3>1. \A i \in Least(solid)..Greatest(solid) : i \in 1..Len(s)
      BY <1>1, <2>2
    <3> QED
      BY <3>1, ElementOfSeq
  <2>4. SubSeq(s, Least(solid), Greatest(solid)) \in Seq(S)
    BY <2>2, <2>3, SubSeqProperties
  <2> QED
    BY <2>1, <2>4
<1> QED
  BY <1>3, <1>4

LEMMA TrimPrefixIsPart ==
  ASSUME NEW S, NEW s \in Seq(S), NEW t
  PROVE  TrimPrefix(s, t) \in Seq(S)
BY HeadTailProperties DEF TrimPrefix

(* The number of a normal pair is a word of the reference.                 *)
LEMMA NumberIsPart ==
  ASSUME NEW S, NEW in \in Seq(S), NEW k \in Kinds, NEW n \in Numerals,
         NormalizePeerID(in) = <<k, Colon, n>>
  PROVE  n \in S
<1> DEFINE s      == TrimPrefix(Trim(in), Link)
           colons == {i \in DOMAIN s : s[i] = Colon}
           i      == Least(colons)
           id     == Trim(SubSeq(s, i + 1, Len(s)))
<1>1. s \in Seq(S)
  BY TrimIsPart, TrimPrefixIsPart
<1>2. Len(s) \in Nat /\ DOMAIN s = 1..Len(s)
  BY <1>1, LenProperties
<1>3. NormalPair(s, i) = <<k, Colon, n>> /\ colons # {}
  <2>1. NormalName(s) # <<k, Colon, n>>
    BY PunctuationDiffers DEF NormalName
  <2> QED
    BY <2>1 DEF NormalizePeerID
<1> HIDE DEF s
<1>4. i \in 1..Len(s)
  <2>1. colons \in SUBSET (1..Len(s))
    BY <1>2
  <2> HIDE DEF colons
  <2> QED
    BY <1>2, <1>3, <2>1, LeastIsThere
<1> HIDE DEF i
<1>5. id \in Seq(S)
  <2>1. \A j \in (i + 1)..Len(s) : s[j] \in S
    <3>1. \A j \in (i + 1)..Len(s) : j \in 1..Len(s)
      BY <1>2, <1>4
    <3> QED
      BY <1>1, <3>1, ElementOfSeq
  <2>2. SubSeq(s, i + 1, Len(s)) \in Seq(S)
    BY <1>2, <1>4, <2>1, SubSeqProperties
  <2> QED
    BY <2>2, TrimIsPart
<1>6. Len(id) = 1 /\ id[1] = n
  BY <1>3 DEF NormalPair, IsWord
<1> HIDE DEF id
<1>7. 1 \in 1..Len(id)
  BY <1>6
<1> QED
  BY <1>5, <1>6, <1>7, ElementOfSeq

LEMMA PeersAreNamed ==
  ASSUME NEW p \in Peers
  PROVE  p[1] \in Kinds /\ p[2] \in Ids /\ p = <<p[1], p[2]>>
<1>1. p \in Kinds \X Ids
  BY PeersAssumption
<1> QED
  BY <1>1

(* What is read as a peer is a pair.                                       *)
LEMMA PeersArePairs ==
  ASSUME NEW in, NEW p \in Peers, ParsePeerID(in) = p
  PROVE  \E n \in Numerals : NormalizePeerID(in) = <<p[1], Colon, n>> /\ Value[n] = p[2]
<1>1. p[1] \in Kinds /\ p = <<p[1], p[2]>>
  BY PeersAreNamed
<1>2. p # <<>> /\ p[1] # At
  BY <1>1, PunctuationDiffers
<1>3. NormalizePeerID(in) # <<>>
  BY <1>2 DEF ParsePeerID
<1>4. NormalizePeerID(in) \notin NameForms
  BY <1>2 DEF ParsePeerID, NameForms
<1>5. PICK k \in Kinds, n \in Numerals : NormalizePeerID(in) = <<k, Colon, n>>
  BY <1>3, <1>4, NormalForms DEF PairForms
<1>6. k # At
  BY PunctuationDiffers
<1>7. ParsePeerID(in) = <<k, Value[n]>>
  BY <1>5, <1>6 DEF ParsePeerID
<1>8. k = p[1] /\ Value[n] = p[2]
  BY <1>1, <1>7
<1> QED
  BY <1>5, <1>8

(* An entry lets pass the ID of the peer it names, and of no other.        *)
LEMMA EntryNamesOne ==
  ASSUME NEW in \in Seq(Tokens), NEW p \in Peers, NEW q \in Peers,
         ParsePeerID(in) = p, WrittenAsListed(in, p)
  PROVE  RecipientAllowed({in}, FormatPeerID(q[1], q[2])) <=> p = q
<1> DEFINE S == {in[i] : i \in DOMAIN in}
<1>1. in \in Seq(S)
  <2>1. Len(in) \in Nat /\ in \in [1..Len(in) -> Tokens]
    BY LenProperties
  <2>2. in \in [1..Len(in) -> S]
    BY <2>1
  <2> QED
    BY <2>1, <2>2
<1>2. /\ p[1] \in Kinds /\ p[2] \in Ids /\ p = <<p[1], p[2]>>
      /\ q[1] \in Kinds /\ q[2] \in Ids /\ q = <<q[1], q[2]>>
  BY PeersAreNamed
<1>3. PICK n \in Numerals : NormalizePeerID(in) = <<p[1], Colon, n>>
  BY PeersArePairs
<1>4. n \in S
  BY <1>1, <1>2, <1>3, NumberIsPart
<1>5. n = Decimal[p[2]]
  BY <1>3, <1>4 DEF WrittenAsListed
<1>6. NormalizePeerID(in) = FormatPeerID(p[1], p[2])
  BY <1>2, <1>3, <1>5 DEF FormatPeerID
<1>7. /\ FormatPeerID(p[1], p[2]) = <<p[1], Colon, Decimal[p[2]]>>
      /\ FormatPeerID(q[1], q[2]) = <<q[1], Colon, Decimal[q[2]]>>
  BY <1>2 DEF FormatPeerID
<1>8. AllowedPeers({in}) = {FormatPeerID(p[1], p[2])}
  <2>1. FormatPeerID(p[1], p[2]) # <<>>
    BY <1>7
  <2>2. {NormalizePeerID(e) : e \in {in}} = {FormatPeerID(p[1], p[2])}
    BY <1>6
  <2> QED
    BY <2>1, <2>2 DEF AllowedPeers
<1>9. NormalizePeerID(FormatPeerID(q[1], q[2])) = FormatPeerID(q[1], q[2])
  BY <1>2, ParseReadsFormat
<1>10. RecipientAllowed({in}, FormatPeerID(q[1], q[2]))
         <=> FormatPeerID(q[1], q[2]) = FormatPeerID(p[1], p[2])
  BY <1>8, <1>9 DEF RecipientAllowed
<1>11. Decimal[q[2]] = Decimal[p[2]] => q[2] = p[2]
  BY <1>2, IdsAssumption
<1> QED
  BY <1>2, <1>7, <1>10, <1>11

-----------------------------------------------------------------------------
(* ListChats.  The loop has gone through the dialogs in their order and    *)
(* has kept the entries that pass the filter.                              *)

EntryAt(k) == EntryOf(answer, answer.dialogs[k])
Kept(k)    == Passes(filter, EntryAt(k).peer[1], EntryAt(k).unread)

(* from[i] is the dialog that entry i of out was made of.                  *)
Origin(from, n) ==
  /\ from \in [DOMAIN out -> 1..n]
  /\ \A i \in DOMAIN out : out[i] = EntryAt(from[i])
  /\ \A i, j \in DOMAIN out : from[i] = from[j] => i = j
  /\ \A k \in 1..n : Kept(k) <=> \E i \in DOMAIN out : from[i] = k

InOrder(from) == \A i, j \in DOMAIN out : i < j => from[i] < from[j]

ByActivity(from) ==
  \A i, j \in DOMAIN out :
    i < j => out[i].at > out[j].at \/ (out[i].at = out[j].at /\ from[i] < from[j])

LoopOut ==
  pc = "loop" =>
    /\ answer \in Answers
    /\ pos - 1 <= Len(answer.dialogs)
    /\ \E from : Origin(from, pos - 1) /\ InOrder(from)

ListedOut ==
  pc = "listed" =>
    /\ answer \in Answers
    /\ \E from : Origin(from, Len(answer.dialogs)) /\ ByActivity(from)

(* What the answer brought is usable unless it was spoiled meanwhile, and  *)
(* entries with a title are about such objects.                            *)
Brought == {answer.objects[i] : i \in DOMAIN answer.objects}

BroughtIsUsable ==
  pc \in {"loop", "listed"} =>
    /\ \A p \in Brought \cap Hashed :
         cache[p] # "none" /\ (cache[p] = "full" \/ p \in spoiled)
    /\ \A i \in DOMAIN out : out[i].titled => out[i].peer \in Brought

(* Nothing leaves the cache.                                               *)
KnownIsCached == \A p \in known \cap Hashed : cache[p] # "none"

(* The agent looks at out, or at what became of its reference.             *)
IdleIsEmpty ==
  /\ pc \in {"idle", "referred"} => out = <<>>
  /\ pc = "referred" => verdict = Look(ParsePeerID(input))

IInv ==
  /\ TypeOK
  /\ LoopOut
  /\ ListedOut
  /\ BroughtIsUsable
  /\ KnownIsCached
  /\ IdleIsEmpty

LEMMA AnswerParts ==
  ASSUME NEW a \in Answers
  PROVE  a.dialogs \in Seq(Dialog) /\ a.objects \in Seq(Peers)
BY InputsAssumption DEF Answer

LEMMA ObjectsAreBrought ==
  ASSUME NEW a \in Answers \cup {Nothing}, NEW p
  PROVE  ObjectOf(a, p) \subseteq {a.objects[i] : i \in DOMAIN a.objects}
BY DEF ObjectOf

LEMMA BroughtArePeers ==
  ASSUME NEW a \in Answers, NEW i \in DOMAIN a.objects
  PROVE  a.objects[i] \in Peers
<1>1. a.objects \in Seq(Peers)
  BY AnswerParts
<1> QED
  BY <1>1, LenProperties, ElementOfSeq

LEMMA EntryType ==
  ASSUME NEW a \in Answers, NEW d \in Dialog
  PROVE  EntryOf(a, d) \in Entry
<1>1. ObjectOf(a, d.peer) \subseteq Peers
  BY BroughtArePeers DEF ObjectOf
<1>2. d.peer \in Peers /\ d.unread \in Nat /\ d.top \in Nat
  BY DEF Dialog
<1>3. EntryOf(a, d).peer \in Peers
  BY <1>1, <1>2 DEF EntryOf
<1> QED
  BY <1>2, <1>3 DEF EntryOf, Entry

LEMMA LookType ==
  ASSUME TypeOK, NEW in
  PROVE  Look(ParsePeerID(in)) \in Verdicts
BY DEF TypeOK, Look, Verdicts

LEMMA InitIInv == Init => IInv
<1> SUFFICES ASSUME Init PROVE IInv
  OBVIOUS
<1>1. TypeOK
  BY EmptySeq DEF Init, TypeOK, Verdicts
<1> QED
  BY <1>1 DEF Init, IInv, LoopOut, ListedOut, BroughtIsUsable, KnownIsCached, IdleIsEmpty

(* What the steps do to the types.                                         *)
LEMMA TypeStep ==
  ASSUME IInv, [Next]_vars
  PROVE  TypeOK'
<1>1. TypeOK
  BY DEF IInv
<1>2. ASSUME NEW a \in Answers, NEW f \in Filters, List(a, f)
      PROVE  TypeOK'
  BY <1>1, <1>2 DEF TypeOK, List, Ingested, AgentVars
<1>3. CASE Item
  <2>1. pc = "loop" /\ pos <= Len(answer.dialogs)
    BY <1>3 DEF Item
  <2>2. answer \in Answers
    BY <2>1 DEF IInv, LoopOut
  <2>3. answer.dialogs[pos] \in Dialog
    <3>1. answer.dialogs \in Seq(Dialog)
      BY <2>2, AnswerParts
    <3>2. Len(answer.dialogs) \in Nat
      BY <3>1, LenProperties
    <3>3. pos \in 1..Len(answer.dialogs)
      BY <1>1, <2>1, <3>2 DEF TypeOK
    <3> QED
      BY <3>1, <3>3, ElementOfSeq
  <2>4. EntryAt(pos) \in Entry
    BY <2>2, <2>3, EntryType DEF EntryAt
  <2>5. out' = out \/ out' = Append(out, EntryAt(pos))
    BY <1>3 DEF Item, EntryAt
  <2>6. out' \in Seq(Entry)
    BY <1>1, <2>4, <2>5 DEF TypeOK
  <2>7. cache' \in [Hashed -> {"none", "min", "full"}] /\ spoiled' \in SUBSET Peers
    BY <1>1, <1>3 DEF Item, Ingested, TypeOK
  <2>8. pos' \in Nat \ {0}
    BY <1>1, <1>3 DEF Item, TypeOK
  <2> QED
    BY <1>1, <1>3, <2>6, <2>7, <2>8 DEF Item, TypeOK, AgentVars
<1>4. CASE ReturnList
  <2>1. out \in Seq(Entry)
    BY <1>1 DEF TypeOK
  <2>2. Len(out) \in Nat /\ out \in [1..Len(out) -> Entry] /\ DOMAIN out = 1..Len(out)
    BY <2>1, LenProperties
  <2>3. out' \in [DOMAIN out -> {out[i] : i \in DOMAIN out}]
    BY <1>4 DEF ReturnList
  <2>4. out' \in [1..Len(out) -> Entry]
    BY <2>2, <2>3
  <2>5. out' \in Seq(Entry)
    BY <2>2, <2>4
  <2>6. known' \in SUBSET Peers
    <3>1. \A i \in DOMAIN out : out[i].peer \in Peers
      BY <2>2 DEF Entry
    <3> QED
      BY <1>1, <1>4, <3>1 DEF ReturnList, TypeOK
  <2> QED
    BY <1>1, <1>4, <2>5, <2>6 DEF ReturnList, TypeOK, AgentVars
<1>5. ASSUME NEW in \in Inputs, Refer(in)
      PROVE  TypeOK'
  BY <1>1, <1>5, LookType DEF TypeOK, Refer
<1>6. CASE NextCall
  BY <1>1, <1>6, EmptySeq DEF TypeOK, NextCall, Verdicts
<1>7. ASSUME NEW p \in Hashed, NEW object \in {"min", "full"}, LiveUpdate(p, object)
      PROVE  TypeOK'
  <2>1. cache' \in [Hashed -> {"none", "min", "full"}]
    BY <1>1, <1>7 DEF TypeOK, LiveUpdate
  <2>2. spoiled' \in SUBSET Peers
    BY <1>1, <1>7 DEF TypeOK, LiveUpdate, Hashed
  <2> QED
    BY <1>1, <1>7, <2>1, <2>2 DEF TypeOK, LiveUpdate, AgentVars
<1>8. CASE UNCHANGED vars
  BY <1>1, <1>8 DEF TypeOK, vars
<1> QED
  BY <1>2, <1>3, <1>4, <1>5, <1>6, <1>7, <1>8 DEF Next

(* What the steps do to the cache and to what is known of it.              *)
LEMMA CacheStep ==
  ASSUME IInv, [Next]_vars
  PROVE  BroughtIsUsable' /\ KnownIsCached' /\ IdleIsEmpty'
<1>1. /\ TypeOK /\ BroughtIsUsable /\ KnownIsCached /\ IdleIsEmpty
      /\ cache \in [Hashed -> {"none", "min", "full"}]
  BY DEF IInv, TypeOK
<1>2. ASSUME NEW a \in Answers, NEW f \in Filters, List(a, f)
      PROVE  BroughtIsUsable' /\ KnownIsCached' /\ IdleIsEmpty'
  <2>1. out = <<>> /\ out' = <<>>
    BY <1>1, <1>2 DEF IdleIsEmpty, List
  <2>2. BroughtIsUsable'
    BY <1>2, <2>1 DEF List, BroughtIsUsable, Brought, Ingested
  <2>3. KnownIsCached'
    BY <1>1, <1>2 DEF List, KnownIsCached, Ingested
  <2> QED
    BY <1>2, <2>2, <2>3 DEF List, IdleIsEmpty
<1>3. CASE Item
  <2> DEFINE found == ObjectOf(answer, answer.dialogs[pos].peer)
  <2>1. pc = "loop" /\ pc' = "loop" /\ answer' = answer /\ known' = known
    BY <1>3 DEF Item
  <2>2. /\ cache' = [p \in Hashed |-> IF p \in found THEN "full" ELSE cache[p]]
        /\ spoiled' = spoiled \ found
    BY <1>3 DEF Item, Ingested
  <2>3. found \subseteq Brought
    BY <1>1, ObjectsAreBrought DEF TypeOK, Brought
  <2>4. EntryAt(pos).titled => EntryAt(pos).peer \in Brought
    BY <2>3 DEF EntryAt, EntryOf
  <2>5. \A i \in DOMAIN out' : out'[i].titled => out'[i].peer \in Brought
    <3>1. \A i \in DOMAIN out : out[i].titled => out[i].peer \in Brought
      BY <1>1, <2>1 DEF BroughtIsUsable
    <3>2. out' = out \/ out' = Append(out, EntryAt(pos))
      BY <1>3 DEF Item, EntryAt
    <3>3. out \in Seq(Entry) /\ out' \in Seq(Entry)
      BY TypeStep DEF IInv, TypeOK
    <3>4. CASE out' = Append(out, EntryAt(pos))
      <4>1. \A i \in DOMAIN out' : out'[i] = EntryAt(pos) \/ (i \in DOMAIN out /\ out'[i] = out[i])
        BY <3>3, <3>4
      <4> QED
        BY <2>4, <3>1, <4>1
    <3> QED
      BY <3>1, <3>2, <3>4
  <2> HIDE DEF found
  <2>6. \A p \in Brought \cap Hashed :
          cache'[p] # "none" /\ (cache'[p] = "full" \/ p \in spoiled')
    BY <1>1, <2>1, <2>2 DEF BroughtIsUsable
  <2>7. \A p \in known \cap Hashed : cache'[p] # "none"
    BY <1>1, <2>2 DEF KnownIsCached
  <2>8. Brought' = Brought
    BY <2>1 DEF Brought
  <2> QED
    BY <2>1, <2>5, <2>6, <2>7, <2>8 DEF BroughtIsUsable, KnownIsCached, IdleIsEmpty
<1>4. CASE ReturnList
  <2>1. /\ pc = "loop" /\ pc' = "listed"
        /\ UNCHANGED <<cache, answer, spoiled>>
        /\ known' = known \cup {out[i].peer : i \in {j \in DOMAIN out : out[j].titled}}
        /\ out' \in [DOMAIN out -> {out[i] : i \in DOMAIN out}]
    BY <1>4 DEF ReturnList
  <2>2. Brought' = Brought
    BY <2>1 DEF Brought
  <2>3. \A p \in Brought \cap Hashed :
          cache[p] # "none" /\ (cache[p] = "full" \/ p \in spoiled)
    BY <1>1, <2>1 DEF BroughtIsUsable
  <2>4. \A i \in DOMAIN out : out[i].titled => out[i].peer \in Brought
    BY <1>1, <2>1 DEF BroughtIsUsable
  <2>5. \A i \in DOMAIN out' : out'[i].titled => out'[i].peer \in Brought
    BY <2>1, <2>4
  <2>6. KnownIsCached'
    BY <1>1, <2>1, <2>3, <2>4 DEF KnownIsCached
  <2> QED
    BY <2>1, <2>2, <2>3, <2>5, <2>6 DEF BroughtIsUsable, IdleIsEmpty
<1>5. ASSUME NEW in \in Inputs, Refer(in)
      PROVE  BroughtIsUsable' /\ KnownIsCached' /\ IdleIsEmpty'
  BY <1>1, <1>5 DEF Refer, BroughtIsUsable, KnownIsCached, IdleIsEmpty, Look
<1>6. CASE NextCall
  BY <1>1, <1>6 DEF NextCall, BroughtIsUsable, KnownIsCached, IdleIsEmpty
<1>7. ASSUME NEW p \in Hashed, NEW object \in {"min", "full"}, LiveUpdate(p, object)
      PROVE  BroughtIsUsable' /\ KnownIsCached' /\ IdleIsEmpty'
  <2>1. /\ pc \in {"idle", "loop"} /\ UNCHANGED <<pc, answer, out, known>>
        /\ cache' = [cache EXCEPT ![p] = object]
        /\ spoiled' = IF object = "full" THEN spoiled \ {p}
                      ELSE IF pc = "loop" THEN spoiled \cup {p} ELSE spoiled
    BY <1>7 DEF LiveUpdate
  <2>2. BroughtIsUsable'
    BY <1>1, <2>1 DEF BroughtIsUsable, Brought
  <2>3. KnownIsCached'
    BY <1>1, <2>1 DEF KnownIsCached
  <2> QED
    BY <1>1, <2>1, <2>2, <2>3 DEF IdleIsEmpty
<1>8. CASE UNCHANGED vars
  BY <1>1, <1>8 DEF vars, BroughtIsUsable, Brought, KnownIsCached, IdleIsEmpty, Look
<1> QED
  BY <1>2, <1>3, <1>4, <1>5, <1>6, <1>7, <1>8 DEF Next

(* A turn of the loop.                                                     *)
LEMMA ItemKeepsOrigin ==
  ASSUME IInv, Item
  PROVE  LoopOut'
<1>1. /\ pc = "loop" /\ pc' = "loop" /\ pos' = pos + 1 /\ pos <= Len(answer.dialogs)
      /\ UNCHANGED <<answer, filter>>
      /\ out' = IF Kept(pos) THEN Append(out, EntryAt(pos)) ELSE out
  BY DEF Item, Kept, EntryAt
<1>2. /\ answer \in Answers /\ pos \in Nat \ {0} /\ Len(answer.dialogs) \in Nat
      /\ out \in Seq(Entry)
  <2>1. answer \in Answers
    BY <1>1 DEF IInv, LoopOut
  <2>2. Len(answer.dialogs) \in Nat
    BY <2>1, AnswerParts, LenProperties
  <2> QED
    BY <2>1, <2>2 DEF IInv, TypeOK
<1>3. PICK from : Origin(from, pos - 1) /\ InOrder(from)
  BY <1>1 DEF IInv, LoopOut
<1>4. \A k : EntryAt(k)' = EntryAt(k) /\ Kept(k)' = Kept(k)
  BY <1>1 DEF EntryAt, Kept
<1>5. from \in [DOMAIN out -> 1..(pos - 1)]
  BY <1>3 DEF Origin
<1> DEFINE n == Len(out)
<1>6. n \in Nat /\ DOMAIN out = 1..n
  BY <1>2, LenProperties
<1>7. CASE Kept(pos)
  <2>0. PICK new : new = [i \in 1..(n + 1) |-> IF i = n + 1 THEN pos ELSE from[i]]
    OBVIOUS
  <2>1. /\ out' = Append(out, EntryAt(pos))
        /\ DOMAIN out' = 1..(n + 1)
        /\ \A i \in 1..n : out'[i] = out[i]
        /\ out'[n + 1] = EntryAt(pos)
    <3>1. out' = Append(out, EntryAt(pos)) /\ out' \in Seq(Entry)
      BY <1>1, <1>7, TypeStep DEF IInv, TypeOK, Next
    <3> QED
      BY <1>2, <3>1
  <2>2. \A i \in 1..n : from[i] \in 1..(pos - 1) /\ new[i] = from[i]
    BY <1>5, <1>6, <2>0
  <2>3. new[n + 1] = pos
    BY <1>6, <2>0
  <2>4. new \in [1..(n + 1) -> 1..pos]
    <3>1. \A i \in 1..(n + 1) : i = n + 1 \/ i \in 1..n
      BY <1>6
    <3>2. 1..(pos - 1) \subseteq 1..pos /\ pos \in 1..pos
      BY <1>2
    <3> QED
      BY <2>0, <2>2, <3>1, <3>2
  <2>5. \A i \in 1..(n + 1) : out'[i] = EntryAt(new[i])
    <3>1. \A i \in 1..n : out[i] = EntryAt(from[i])
      BY <1>3, <1>6 DEF Origin
    <3>2. \A i \in 1..(n + 1) : i = n + 1 \/ i \in 1..n
      BY <1>6
    <3> QED
      BY <2>1, <2>2, <2>3, <3>1, <3>2
  <2>6. \A i, j \in 1..(n + 1) : i < j => new[i] < new[j]
    <3>1. \A i, j \in 1..n : i < j => from[i] < from[j]
      BY <1>3, <1>6 DEF InOrder
    <3>2. \A i \in 1..n : new[i] < pos
      BY <1>2, <2>2
    <3>3. ASSUME NEW i \in 1..(n + 1), NEW j \in 1..(n + 1), i < j
          PROVE  i \in 1..n /\ (j = n + 1 \/ j \in 1..n)
      BY <1>6, <3>3
    <3> QED
      BY <2>2, <2>3, <3>1, <3>2, <3>3
  <2>7. \A i, j \in 1..(n + 1) : new[i] = new[j] => i = j
    <3>1. \A i \in 1..(n + 1) : i \in Int /\ new[i] \in Int
      BY <1>2, <1>6, <2>4
    <3> QED
      BY <2>6, <3>1
  <2>8. ASSUME NEW k \in 1..pos
        PROVE  Kept(k) <=> \E i \in 1..(n + 1) : new[i] = k
    <3>1. CASE k = pos
      BY <1>6, <1>7, <2>3, <3>1
    <3>2. CASE k # pos
      <4>1. k \in 1..(pos - 1)
        BY <1>2, <2>8, <3>2
      <4>2. Kept(k) <=> \E i \in 1..n : from[i] = k
        BY <1>3, <1>6, <4>1 DEF Origin
      <4>3. \A i \in 1..(n + 1) : i = n + 1 \/ i \in 1..n
        BY <1>6
      <4>4. 1..n \subseteq 1..(n + 1)
        BY <1>6
      <4> QED
        BY <2>2, <2>3, <3>2, <4>2, <4>3, <4>4
    <3> QED
      BY <3>1, <3>2
  <2>9. pos' - 1 = pos
    BY <1>1, <1>2
  <2>10. /\ new \in [DOMAIN out' -> 1..(pos' - 1)]
         /\ \A i \in DOMAIN out' : out'[i] = EntryAt(new[i])'
         /\ \A i, j \in DOMAIN out' : new[i] = new[j] => i = j
         /\ \A k \in 1..(pos' - 1) : Kept(k)' <=> \E i \in DOMAIN out' : new[i] = k
         /\ \A i, j \in DOMAIN out' : i < j => new[i] < new[j]
    BY <1>4, <2>1, <2>4, <2>5, <2>6, <2>7, <2>8, <2>9
  <2>11. Origin(new, pos - 1)' /\ InOrder(new)'
    BY <2>10 DEF Origin, InOrder
  <2> QED
    BY <1>1, <1>2, <2>9, <2>11 DEF LoopOut
<1>8. CASE ~Kept(pos)
  <2>1. out' = out /\ pos' - 1 = pos
    BY <1>1, <1>2, <1>8
  <2>2. 1..(pos - 1) \subseteq 1..pos /\ \A k \in 1..pos : k = pos \/ k \in 1..(pos - 1)
    BY <1>2
  <2>3. \A i \in DOMAIN out : from[i] # pos
    BY <1>2, <1>5
  <2>4. Origin(from, pos)
    BY <1>3, <1>8, <2>2, <2>3 DEF Origin
  <2>5. /\ from \in [DOMAIN out' -> 1..(pos' - 1)]
        /\ \A i \in DOMAIN out' : out'[i] = EntryAt(from[i])'
        /\ \A i, j \in DOMAIN out' : from[i] = from[j] => i = j
        /\ \A k \in 1..(pos' - 1) : Kept(k)' <=> \E i \in DOMAIN out' : from[i] = k
        /\ \A i, j \in DOMAIN out' : i < j => from[i] < from[j]
    BY <1>3, <1>4, <2>1, <2>4 DEF Origin, InOrder
  <2>6. Origin(from, pos - 1)' /\ InOrder(from)'
    BY <2>5 DEF Origin, InOrder
  <2> QED
    BY <1>1, <1>2, <2>1, <2>6 DEF LoopOut
<1> QED
  BY <1>7, <1>8

(* The end of the loop: sorting permutes the entries.                      *)
LEMMA SortKeepsOrigin ==
  ASSUME IInv, ReturnList
  PROVE  ListedOut'
<1>1. /\ pc = "loop" /\ pc' = "listed" /\ pos > Len(answer.dialogs)
      /\ UNCHANGED <<answer, filter>>
      /\ out' \in [DOMAIN out -> {out[i] : i \in DOMAIN out}]
      /\ IsSorted(out, out')
  BY DEF ReturnList
<1>2. /\ answer \in Answers /\ pos \in Nat \ {0} /\ Len(answer.dialogs) \in Nat
      /\ out \in Seq(Entry) /\ pos - 1 = Len(answer.dialogs)
  <2>1. answer \in Answers /\ pos - 1 <= Len(answer.dialogs)
    BY <1>1 DEF IInv, LoopOut
  <2>2. Len(answer.dialogs) \in Nat
    BY <2>1, AnswerParts, LenProperties
  <2>3. pos \in Nat \ {0} /\ out \in Seq(Entry)
    BY DEF IInv, TypeOK
  <2> QED
    BY <1>1, <2>1, <2>2, <2>3
<1> DEFINE D == DOMAIN out
           n == Len(answer.dialogs)
<1>3. PICK from : Origin(from, n) /\ InOrder(from)
  BY <1>1, <1>2 DEF IInv, LoopOut
<1>4. PICK place \in [D -> D] :
        /\ \A i, j \in D : i # j => (place[i] < place[j] <=> Before(out, i, j))
        /\ \A k \in D : \E i \in D : place[i] = k /\ out'[k] = out[i]
  BY <1>1 DEF IsSorted
<1>5. PICK old : old = [k \in D |-> CHOOSE i \in D : place[i] = k /\ out'[k] = out[i]]
  OBVIOUS
<1>6. old \in [D -> D] /\ \A k \in D : place[old[k]] = k /\ out'[k] = out[old[k]]
  BY <1>4, <1>5
<1>7. PICK new : new = [k \in D |-> from[old[k]]]
  OBVIOUS
<1>8. DOMAIN out' = D /\ \A k \in D : k \in Int
  <2>1. D = 1..Len(out) /\ Len(out) \in Nat
    BY <1>2, LenProperties
  <2> QED
    BY <1>1, <2>1
<1>9. /\ from \in [D -> 1..n]
      /\ \A i \in D : out[i] = EntryAt(from[i])
      /\ \A i, j \in D : from[i] = from[j] => i = j
      /\ \A k \in 1..n : Kept(k) <=> \E i \in D : from[i] = k
      /\ \A i, j \in D : i < j => from[i] < from[j]
  BY <1>3 DEF Origin, InOrder
<1>10. \A i \in D : out[i].at \in Nat
  <2>1. \A i \in D : out[i] \in Entry
    BY <1>2, LenProperties, ElementOfSeq
  <2> QED
    BY <2>1 DEF Entry
<1>11. \A k \in 1..n : Kept(k)' = Kept(k) /\ EntryAt(k)' = EntryAt(k)
  BY <1>1 DEF EntryAt, Kept
<1> HIDE DEF D, n
<1>12. new \in [D -> 1..n] /\ \A k \in D : new[k] = from[old[k]]
  BY <1>6, <1>7, <1>9
<1>13. \A k \in D : out'[k] = EntryAt(new[k])
  BY <1>6, <1>9, <1>12
<1>14. \A k, l \in D : new[k] = new[l] => k = l
  BY <1>6, <1>9, <1>12
<1>15. ASSUME NEW i \in D
       PROVE  old[place[i]] = i
  <2>1. place[i] \in D /\ place[old[place[i]]] = place[i]
    BY <1>4, <1>6
  <2>2. PICK j \in D : j = old[place[i]]
    BY <1>6, <2>1
  <2>3. place[i] = place[j] /\ place[i] \in Int
    BY <1>8, <2>1, <2>2
  <2>4. ~(place[i] < place[j]) /\ ~(place[j] < place[i])
    BY <2>3
  <2>5. i # j => ~Before(out, i, j) /\ ~Before(out, j, i)
    BY <1>4, <2>4
  <2>6. i # j => Before(out, i, j) \/ Before(out, j, i)
    BY <1>8, <1>10 DEF Before
  <2> QED
    BY <2>2, <2>5, <2>6
<1>16. \A k \in 1..n : Kept(k) <=> \E i \in D : new[i] = k
  <2>1. ASSUME NEW k \in 1..n, NEW i \in D, from[i] = k
        PROVE  \E m \in D : new[m] = k
    <3>1. place[i] \in D /\ new[place[i]] = k
      BY <1>4, <1>12, <1>15, <2>1
    <3> QED
      BY <3>1
  <2> QED
    BY <1>6, <1>9, <1>12, <2>1
<1>17. ASSUME NEW k \in D, NEW l \in D, k < l
       PROVE  out'[k].at > out'[l].at \/ (out'[k].at = out'[l].at /\ new[k] < new[l])
  <2>1. PICK i \in D, j \in D : i = old[k] /\ j = old[l]
    BY <1>6
  <2>2. place[i] = k /\ place[j] = l /\ out'[k] = out[i] /\ out'[l] = out[j]
    BY <1>6, <2>1
  <2>3. i # j
    BY <1>8, <1>17, <2>2
  <2>4. Before(out, i, j)
    BY <1>4, <1>17, <2>2, <2>3
  <2> QED
    BY <1>9, <1>12, <2>1, <2>2, <2>4 DEF Before
<1>18. /\ new \in [DOMAIN out' -> 1..Len(answer'.dialogs)]
       /\ \A i \in DOMAIN out' : out'[i] = EntryAt(new[i])'
       /\ \A i, j \in DOMAIN out' : new[i] = new[j] => i = j
       /\ \A k \in 1..Len(answer'.dialogs) : Kept(k)' <=> \E i \in DOMAIN out' : new[i] = k
  <2>1. Len(answer'.dialogs) = n
    BY <1>1 DEF n
  <2> QED
    BY <1>8, <1>11, <1>12, <1>13, <1>14, <1>16, <2>1
<1>19. Origin(new, Len(answer.dialogs))'
  BY <1>18 DEF Origin
<1>20. ByActivity(new)'
  BY <1>8, <1>17 DEF ByActivity
<1> QED
  BY <1>1, <1>2, <1>19, <1>20 DEF ListedOut

LEMMA OutStep ==
  ASSUME IInv, [Next]_vars
  PROVE  LoopOut' /\ ListedOut'
<1>1. ASSUME NEW a \in Answers, NEW f \in Filters, List(a, f)
      PROVE  LoopOut' /\ ListedOut'
  <2>1. /\ pc' = "loop" /\ answer' = a /\ pos' = 1 /\ out' = <<>>
    BY <1>1 DEF List, IInv, IdleIsEmpty
  <2>2. Len(answer'.dialogs) \in Nat
    BY <2>1, AnswerParts, LenProperties
  <2>3. PICK from : from = <<>>
    OBVIOUS
  <2>4. /\ from \in [DOMAIN out' -> 1..(pos' - 1)]
        /\ DOMAIN out' = {} /\ 1..(pos' - 1) = {}
    BY <2>1, <2>3
  <2>5. Origin(from, pos - 1)' /\ InOrder(from)'
    BY <2>4 DEF Origin, InOrder
  <2> QED
    BY <2>1, <2>2, <2>5 DEF LoopOut, ListedOut
<1>2. CASE Item
  BY <1>2, ItemKeepsOrigin DEF Item, ListedOut
<1>3. CASE ReturnList
  BY <1>3, SortKeepsOrigin DEF ReturnList, LoopOut
<1>4. ASSUME NEW in \in Inputs, Refer(in)
      PROVE  LoopOut' /\ ListedOut'
  BY <1>4 DEF Refer, LoopOut, ListedOut
<1>5. CASE NextCall
  BY <1>5 DEF NextCall, LoopOut, ListedOut
<1>6. ASSUME NEW p \in Hashed, NEW object \in {"min", "full"}, LiveUpdate(p, object)
      PROVE  LoopOut' /\ ListedOut'
  BY <1>6 DEF LiveUpdate, IInv, LoopOut, ListedOut, Origin, InOrder, EntryAt, Kept
<1>7. CASE UNCHANGED vars
  BY <1>7 DEF vars, IInv, LoopOut, ListedOut, Origin, InOrder, ByActivity, EntryAt, Kept
<1> QED
  BY <1>1, <1>2, <1>3, <1>4, <1>5, <1>6, <1>7 DEF Next

-----------------------------------------------------------------------------
(* The theorems.                                                           *)

(* All of the above holds in every reachable state.                        *)
THEOREM Invariant == Spec => []IInv
<1>1. IInv /\ [Next]_vars => IInv'
  BY TypeStep, CacheStep, OutStep DEF IInv
<1> QED
  BY InitIInv, <1>1, PTL DEF Spec

(* The types of the cache, the call and the result.                        *)
THEOREM TypeCorrect == Spec => []TypeOK
<1>1. IInv => TypeOK
  BY DEF IInv
<1> QED
  BY Invariant, <1>1, PTL

(* AllowlistKnowsSpellings: an allowed peer is recognised in its listed    *)
(* form, for every entry and every peer.                                   *)
THEOREM AllowlistKnows == Spec => []AllowlistKnowsSpellings
<1>1. TypeOK => input \in Seq(Tokens)
  BY InputsAssumption, EmptySeq DEF TypeOK
<1>2. TypeOK => AllowlistKnowsSpellings
  <2> SUFFICES ASSUME TypeOK, NEW p \in Peers, NEW q \in Peers
               PROVE  /\ ParsePeerID(input) = p /\ WrittenAsListed(input, p)
                           => (RecipientAllowed({input}, FormatPeerID(q[1], q[2])) <=> p = q)
                      /\ ParsePeerID(input) = <<>>
                           => RecipientAllowed({input}, FormatPeerID(q[1], q[2]))
    BY DEF AllowlistKnowsSpellings
  <2>1. ASSUME ParsePeerID(input) = <<>>
        PROVE  RecipientAllowed({input}, FormatPeerID(q[1], q[2]))
    <3>1. NormalizePeerID(input) = <<>>
      BY <2>1 DEF ParsePeerID
    <3> QED
      BY <3>1 DEF RecipientAllowed, AllowedPeers
  <2> QED
    BY <1>1, <2>1, EntryNamesOne
<1> QED
  BY TypeCorrect, <1>2, PTL

(* ListedPeerIsUsable: what has just been listed can be written to.        *)
THEOREM ListedUsable == Spec => []ListedPeerIsUsable
<1>1. IInv => ListedPeerIsUsable
  <2> SUFFICES ASSUME IInv, pc = "listed", NEW i \in DOMAIN out,
                      out[i].titled, out[i].peer \notin spoiled
               PROVE  Look(ParsePeerID(FormatPeerID(out[i].peer[1], out[i].peer[2]))) = "full"
    BY DEF ListedPeerIsUsable
  <2>1. PICK p : p = out[i].peer
    OBVIOUS
  <2>2. p \in Brought
    BY <2>1 DEF IInv, BroughtIsUsable
  <2>3. p \in Peers
    <3>1. answer \in Answers
      BY DEF IInv, ListedOut
    <3> QED
      BY <2>2, <3>1, BroughtArePeers DEF Brought
  <2>4. p[1] \in Kinds /\ p[2] \in Ids /\ p = <<p[1], p[2]>>
    BY <2>3, PeersAreNamed
  <2>5. ParsePeerID(FormatPeerID(p[1], p[2])) = p
    BY <2>4, ParseReadsFormat
  <2>6. p # <<>> /\ p[1] # At
    BY <2>4, PunctuationDiffers
  <2>7. p \in Hashed => cache[p] = "full"
    BY <2>1, <2>2 DEF IInv, BroughtIsUsable
  <2>8. Look(p) = "full"
    BY <2>3, <2>6, <2>7 DEF Look, Hashed
  <2> QED
    BY <2>1, <2>5, <2>8
<1> QED
  BY Invariant, <1>1, PTL

(* ListedPeerIsFound: what has once been listed is found from then on.     *)
THEOREM ListedFound == Spec => []ListedPeerIsFound
<1>1. IInv => ListedPeerIsFound
  <2> SUFFICES ASSUME IInv, pc = "referred", ParsePeerID(input) \in known
               PROVE  verdict \in {"min", "full"}
    BY DEF ListedPeerIsFound
  <2>1. PICK p \in known : p = ParsePeerID(input)
    OBVIOUS
  <2>2. p \in Peers /\ cache \in [Hashed -> {"none", "min", "full"}]
    BY DEF IInv, TypeOK
  <2>3. p[1] \in Kinds /\ p = <<p[1], p[2]>>
    BY <2>2, PeersAreNamed
  <2>4. p # <<>> /\ p[1] # At
    BY <2>3, PunctuationDiffers
  <2>5. p \in Hashed => cache[p] \in {"min", "full"}
    BY <2>2 DEF IInv, KnownIsCached
  <2>6. Look(p) \in {"min", "full"}
    BY <2>2, <2>4, <2>5 DEF Look, Hashed
  <2>7. verdict = Look(p)
    BY <2>1 DEF IInv, IdleIsEmpty
  <2> QED
    BY <2>6, <2>7
<1> QED
  BY Invariant, <1>1, PTL

(* An entry whose id no other kind shares has the peer of its dialog.      *)
LEMMA UnsharedKeepsPeer ==
  ASSUME answer \in Answers, NEW k \in DOMAIN answer.dialogs, NEW l \in DOMAIN answer.dialogs,
         Unshared(answer.dialogs[k].peer),
         EntryAt(l).peer = answer.dialogs[k].peer
  PROVE  k = l
<1> DEFINE p == answer.dialogs[k].peer
           q == answer.dialogs[l].peer
<1>1. p \in Peers /\ q \in Peers
  <2>1. answer.dialogs \in Seq(Dialog)
    BY AnswerParts
  <2>2. answer.dialogs[k] \in Dialog /\ answer.dialogs[l] \in Dialog
    BY <2>1, LenProperties, ElementOfSeq
  <2> QED
    BY <2>2 DEF Dialog
<1>2. p = <<p[1], p[2]>> /\ q = <<q[1], q[2]>>
  BY <1>1, PeersAreNamed
<1>3. p = q
  <2>1. CASE ObjectOf(answer, q) = {}
    BY <2>1 DEF EntryAt, EntryOf
  <2>2. CASE ObjectOf(answer, q) # {}
    <3>1. p \in ObjectOf(answer, q)
      BY <2>2 DEF EntryAt, EntryOf
    <3>2. Slot(p) = Slot(q)
      BY <3>1 DEF ObjectOf
    <3>3. (p[1] = "user" <=> q[1] = "user") /\ p[2] = q[2]
      BY <3>2 DEF Slot
    <3>4. CASE p[1] = "user"
      BY <1>2, <3>3, <3>4
    <3>5. CASE p[1] # "user"
      BY <1>1, <3>3, <3>5 DEF Unshared
    <3> QED
      BY <3>4, <3>5
  <2> QED
    BY <2>1, <2>2
<1> QED
  BY <1>3, AnswersAssumption

LEMMA UnsharedIsItself ==
  ASSUME answer \in Answers, NEW k \in DOMAIN answer.dialogs,
         Unshared(answer.dialogs[k].peer)
  PROVE  EntryAt(k).peer = answer.dialogs[k].peer
<1> DEFINE p == answer.dialogs[k].peer
<1>1. p \in Peers
  <2>1. answer.dialogs[k] \in Dialog
    BY AnswerParts, LenProperties, ElementOfSeq
  <2> QED
    BY <2>1 DEF Dialog
<1>2. p = <<p[1], p[2]>>
  BY <1>1, PeersAreNamed
<1>3. ASSUME NEW o \in ObjectOf(answer, p) PROVE o = p
  <2>1. PICK i \in DOMAIN answer.objects : o = answer.objects[i] /\ Slot(o) = Slot(p)
    BY DEF ObjectOf
  <2>2. o \in Peers
    BY <2>1, BroughtArePeers
  <2>3. o = <<o[1], o[2]>>
    BY <2>2, PeersAreNamed
  <2>4. (o[1] = "user" <=> p[1] = "user") /\ o[2] = p[2]
    BY <2>1 DEF Slot
  <2>5. CASE p[1] = "user"
    BY <1>2, <2>3, <2>4, <2>5
  <2>6. CASE p[1] # "user"
    BY <2>1, <2>2, <2>4, <2>6 DEF Unshared
  <2> QED
    BY <2>5, <2>6
<1> QED
  BY <1>3 DEF EntryAt, EntryOf

(* ListIsFaithful, for answers of any length and any filter.               *)
THEOREM ListFaithful == Spec => []ListIsFaithful
<1>1. IInv => ListIsFaithful
  <2> SUFFICES ASSUME IInv, pc = "listed"
               PROVE  ListIsFaithful
    BY DEF ListIsFaithful
  <2>1. answer \in Answers
    BY DEF IInv, ListedOut
  <2> DEFINE n == Len(answer.dialogs)
  <2>2. n \in Nat /\ DOMAIN answer.dialogs = 1..n
    BY <2>1, AnswerParts, LenProperties
  <2>3. PICK from : Origin(from, n) /\ ByActivity(from)
    BY DEF IInv, ListedOut
  <2>4. /\ from \in [DOMAIN out -> 1..n]
        /\ \A i \in DOMAIN out : out[i] = EntryAt(from[i])
        /\ \A i, j \in DOMAIN out : from[i] = from[j] => i = j
        /\ \A k \in 1..n : Kept(k) <=> \E i \in DOMAIN out : from[i] = k
    BY <2>3 DEF Origin
  <2>5. \A i \in DOMAIN out : i \in Int /\ out[i].at \in Nat
    <3>1. out \in Seq(Entry)
      BY DEF IInv, TypeOK
    <3>2. Len(out) \in Nat /\ DOMAIN out = 1..Len(out)
      BY <3>1, LenProperties
    <3>3. \A i \in DOMAIN out : out[i] \in Entry
      BY <3>1, <3>2, ElementOfSeq
    <3> QED
      BY <3>2, <3>3 DEF Entry
  <2> HIDE DEF n
  <2>6. \A i, j \in DOMAIN out : i < j => out[i].at >= out[j].at
    BY <2>3, <2>5 DEF ByActivity
  <2>7. ASSUME NEW k \in 1..n, Unshared(answer.dialogs[k].peer)
        PROVE  LET d    == answer.dialogs[k]
                   mine == {i \in DOMAIN out : out[i].peer = d.peer} IN
               /\ mine # {} <=> Passes(filter, d.peer[1], d.unread)
               /\ \A i, j \in mine : i = j
               /\ \A i \in mine : out[i].unread = d.unread /\ out[i].at = d.top
               /\ \A l \in 1..(k - 1) : \A i \in mine, j \in DOMAIN out :
                    /\ Unshared(answer.dialogs[l].peer)
                    /\ out[j].peer = answer.dialogs[l].peer
                    /\ out[i].at = out[j].at
                    => j < i
    <3> DEFINE d    == answer.dialogs[k]
               mine == {i \in DOMAIN out : out[i].peer = d.peer}
    <3>1. \A i \in mine : from[i] = k
      BY <2>1, <2>2, <2>4, <2>7, UnsharedKeepsPeer
    <3>2. \A i \in DOMAIN out : from[i] = k => i \in mine
      BY <2>1, <2>2, <2>4, <2>7, UnsharedIsItself
    <3>3. EntryAt(k).peer = d.peer /\ EntryAt(k).unread = d.unread /\ EntryAt(k).at = d.top
      BY <2>1, <2>2, <2>7, UnsharedIsItself DEF EntryAt, EntryOf
    <3>4. mine # {} <=> Passes(filter, d.peer[1], d.unread)
      BY <2>4, <3>1, <3>2, <3>3 DEF Kept
    <3>5. \A i, j \in mine : i = j
      BY <2>4, <3>1
    <3>6. \A i \in mine : out[i].unread = d.unread /\ out[i].at = d.top
      BY <2>4, <3>1, <3>3
    <3>7. ASSUME NEW l \in 1..(k - 1), NEW i \in mine, NEW j \in DOMAIN out,
                 Unshared(answer.dialogs[l].peer),
                 out[j].peer = answer.dialogs[l].peer,
                 out[i].at = out[j].at
          PROVE  j < i
      <4>1. l \in DOMAIN answer.dialogs /\ from[j] \in DOMAIN answer.dialogs /\ l < k
        BY <2>2, <2>4
      <4>2. EntryAt(from[j]).peer = answer.dialogs[l].peer
        BY <2>4, <3>7
      <4>3. from[j] = l
        BY <2>1, <3>7, <4>1, <4>2, UnsharedKeepsPeer
      <4>4. from[i] = k /\ i \in DOMAIN out
        BY <3>1
      <4>5. i # j
        BY <4>1, <4>3, <4>4, <2>2
      <4>6. ~(i < j)
        BY <2>2, <2>3, <2>5, <3>7, <4>1, <4>3, <4>4 DEF ByActivity
      <4> QED
        BY <2>5, <4>4, <4>5, <4>6
    <3> QED
      BY <3>4, <3>5, <3>6, <3>7
  <2> QED
    BY <2>2, <2>6, <2>7 DEF ListIsFaithful
<1> QED
  BY Invariant, <1>1, PTL

-----------------------------------------------------------------------------
(* What a reference means, read off the positions of its tokens.           *)

(* Trimming leaves the window between the solid positions.                 *)
LEMMA TrimIsWindow ==
  ASSUME NEW S, NEW s \in Seq(S), Solid(s) # {}
  PROVE  \E a, b \in Solid(s) :
           /\ 1 <= a /\ a <= b /\ b <= Len(s)
           /\ \A i \in Solid(s) : a <= i /\ i <= b
           /\ Trim(s) \in Seq(S)
           /\ Len(Trim(s)) = b - a + 1
           /\ \A i \in 1..(b - a + 1) : Trim(s)[i] = s[a + i - 1]
<1> DEFINE a == Least(Solid(s))
           b == Greatest(Solid(s))
<1>1. Len(s) \in Nat /\ Solid(s) \in SUBSET (1..Len(s))
  BY LenProperties DEF Solid
<1>2. a \in Solid(s) /\ b \in Solid(s) /\ \A i \in Solid(s) : a <= i /\ i <= b
  BY <1>1, LeastIsThere, GreatestIsThere
<1>3. Trim(s) = SubSeq(s, a, b)
  BY DEF Trim, Solid
<1> HIDE DEF a, b
<1>4. 1 <= a /\ a <= b /\ b <= Len(s) /\ a \in Int /\ b \in Int
  BY <1>1, <1>2
<1>5. \A i \in a..b : s[i] \in S
  <2>1. \A i \in a..b : i \in 1..Len(s)
    BY <1>1, <1>4
  <2> QED
    BY <2>1, ElementOfSeq
<1>6. /\ Trim(s) \in Seq(S)
      /\ Len(Trim(s)) = b - a + 1
      /\ \A i \in 1..(b - a + 1) : Trim(s)[i] = s[a + i - 1]
  BY <1>3, <1>4, <1>5, SubSeqProperties
<1> QED
  BY <1>2, <1>4, <1>6

LEMMA BlankIsTrimmed ==
  ASSUME NEW s, Solid(s) = {}
  PROVE  Trim(s) = <<>>
BY DEF Trim, Solid

(* What is trimmed to a word has it at its only solid position.            *)
LEMMA TrimmedToWord ==
  ASSUME NEW S, NEW s \in Seq(S), NEW w, w # Space
  PROVE  (Len(Trim(s)) = 1 /\ Trim(s)[1] = w)
           <=> \E i \in DOMAIN s : Solid(s) = {i} /\ s[i] = w
<1>1. CASE Solid(s) = {}
  <2>1. Len(Trim(s)) # 1
    BY <1>1, BlankIsTrimmed
  <2> QED
    BY <1>1, <2>1
<1>2. CASE Solid(s) # {}
  <2>1. PICK a \in Solid(s), b \in Solid(s) :
           /\ 1 <= a /\ a <= b /\ b <= Len(s)
           /\ \A i \in Solid(s) : a <= i /\ i <= b
           /\ Len(Trim(s)) = b - a + 1
           /\ \A i \in 1..(b - a + 1) : Trim(s)[i] = s[a + i - 1]
    BY <1>2, TrimIsWindow
  <2>2. a \in Int /\ b \in Int /\ Solid(s) \subseteq Int /\ Solid(s) \subseteq DOMAIN s
    BY LenProperties DEF Solid
  <2>3. Trim(s)[1] = s[a]
    <3>1. 1 \in 1..(b - a + 1) /\ a + 1 - 1 = a
      BY <2>1, <2>2
    <3> QED
      BY <2>1, <3>1
  <2>4. Len(Trim(s)) = 1 <=> a = b
    BY <2>1, <2>2
  <2>5. a = b <=> Solid(s) = {a}
    <3>1. ASSUME a = b, NEW i \in Solid(s) PROVE i = a
      BY <2>1, <2>2, <3>1
    <3> QED
      BY <3>1
  <2> QED
    BY <2>2, <2>3, <2>4, <2>5
<1> QED
  BY <1>1, <1>2

(* The same of a part of a sequence.                                       *)
LEMMA PartIsWord ==
  ASSUME NEW S, NEW s \in Seq(S), NEW m \in 1..(Len(s) + 1), NEW n \in 0..Len(s), NEW w, w # Space
  PROVE  (Len(Trim(SubSeq(s, m, n))) = 1 /\ Trim(SubSeq(s, m, n))[1] = w)
           <=> \E i \in m..n : s[i] = w /\ \A j \in m..n : s[j] # Space => j = i
<1> DEFINE r == SubSeq(s, m, n)
<1>1. Len(s) \in Nat /\ m \in Int /\ n \in Int
  BY LenProperties
<1>2. \A i \in m..n : s[i] \in S
  <2>1. \A i \in m..n : i \in 1..Len(s)
    BY <1>1
  <2> QED
    BY <2>1, ElementOfSeq
<1>3. /\ r \in Seq(S)
      /\ Len(r) = IF m <= n THEN n - m + 1 ELSE 0
      /\ \A i \in 1..(n - m + 1) : r[i] = s[m + i - 1]
  BY <1>1, <1>2, SubSeqProperties
<1>4. DOMAIN r = 1..(n - m + 1)
  BY <1>1, <1>3, LenProperties
<1>5. \A i \in m..n : i - m + 1 \in DOMAIN r /\ r[i - m + 1] = s[i]
  <2>1. \A i \in m..n : i - m + 1 \in 1..(n - m + 1) /\ m + (i - m + 1) - 1 = i
    BY <1>1
  <2> QED
    BY <1>3, <1>4, <2>1
<1>6. \A i \in DOMAIN r : m + i - 1 \in m..n /\ r[i] = s[m + i - 1] /\ i \in Int
  <2>1. \A i \in 1..(n - m + 1) : m + i - 1 \in m..n /\ i \in Int
    BY <1>1
  <2> QED
    BY <1>3, <1>4, <2>1
<1> HIDE DEF r
<1>7. (Len(Trim(r)) = 1 /\ Trim(r)[1] = w) <=> \E i \in DOMAIN r : Solid(r) = {i} /\ r[i] = w
  BY <1>3, TrimmedToWord
<1>8. ASSUME NEW i \in DOMAIN r, Solid(r) = {i}, r[i] = w
      PROVE  \E l \in m..n : s[l] = w /\ \A j \in m..n : s[j] # Space => j = l
  <2>1. m + i - 1 \in m..n /\ s[m + i - 1] = w
    BY <1>6, <1>8
  <2>2. ASSUME NEW j \in m..n, s[j] # Space PROVE j = m + i - 1
    <3>1. j - m + 1 \in Solid(r)
      BY <1>5, <2>2 DEF Solid
    <3>2. j - m + 1 = i /\ j \in Int /\ i \in Int
      BY <1>1, <1>6, <1>8, <3>1
    <3> QED
      BY <1>1, <3>2
  <2> QED
    BY <2>1, <2>2
<1>9. ASSUME NEW l \in m..n, s[l] = w, \A j \in m..n : s[j] # Space => j = l
      PROVE  \E i \in DOMAIN r : Solid(r) = {i} /\ r[i] = w
  <2>1. l - m + 1 \in DOMAIN r /\ r[l - m + 1] = w
    BY <1>5, <1>9
  <2>2. ASSUME NEW i \in Solid(r) PROVE i = l - m + 1
    <3>1. i \in DOMAIN r /\ r[i] # Space
      BY DEF Solid
    <3>2. m + i - 1 = l /\ i \in Int /\ l \in Int
      BY <1>1, <1>6, <1>9, <3>1
    <3> QED
      BY <1>1, <3>2
  <2>3. l - m + 1 \in Solid(r)
    BY <2>1 DEF Solid
  <2> QED
    BY <2>1, <2>2, <2>3
<1> QED
  BY <1>7, <1>8, <1>9 DEF r

(* A normal pair in terms of positions.                                    *)
LEMMA PairAt ==
  ASSUME NEW S, NEW s \in Seq(S), NEW c \in 1..Len(s), NEW k \in Kinds, NEW n \in Numerals
  PROVE  NormalPair(s, c) = <<k, Colon, n>> <=>
           \E i \in 1..(c - 1), j \in (c + 1)..Len(s) :
             /\ s[i] \in Words /\ Lower[s[i]] = k /\ s[j] = n
             /\ \A l \in 1..(c - 1) : s[l] # Space => l = i
             /\ \A l \in (c + 1)..Len(s) : s[l] # Space => l = j
<1> DEFINE kind == Trim(SubSeq(s, 1, c - 1))
           id   == Trim(SubSeq(s, c + 1, Len(s)))
           KindAt(i) == \A l \in 1..(c - 1) : s[l] # Space => l = i
           IdAt(j)   == \A l \in (c + 1)..Len(s) : s[l] # Space => l = j
<1>1. Len(s) \in Nat /\ c \in Int /\ 1 <= c /\ c <= Len(s)
  BY LenProperties
<1>2. 1 \in 1..(Len(s) + 1) /\ c - 1 \in 0..Len(s) /\ c + 1 \in 1..(Len(s) + 1) /\ Len(s) \in 0..Len(s)
  BY <1>1
<1>3. ASSUME NEW w, w # Space
      PROVE  (Len(kind) = 1 /\ kind[1] = w) <=> \E i \in 1..(c - 1) : s[i] = w /\ KindAt(i)
  <2>1. PICK m \in 1..(Len(s) + 1), e \in 0..Len(s) : m = 1 /\ e = c - 1
    BY <1>2
  <2>2. (Len(Trim(SubSeq(s, m, e))) = 1 /\ Trim(SubSeq(s, m, e))[1] = w)
          <=> \E i \in m..e : s[i] = w /\ \A j \in m..e : s[j] # Space => j = i
    BY <1>3, PartIsWord
  <2> QED
    BY <2>1, <2>2
<1>4. ASSUME NEW w, w # Space
      PROVE  (Len(id) = 1 /\ id[1] = w) <=> \E j \in (c + 1)..Len(s) : s[j] = w /\ IdAt(j)
  <2>1. PICK m \in 1..(Len(s) + 1), e \in 0..Len(s) : m = c + 1 /\ e = Len(s)
    BY <1>2
  <2>2. (Len(Trim(SubSeq(s, m, e))) = 1 /\ Trim(SubSeq(s, m, e))[1] = w)
          <=> \E i \in m..e : s[i] = w /\ \A j \in m..e : s[j] # Space => j = i
    BY <1>4, PartIsWord
  <2> QED
    BY <2>1, <2>2
<1>5. \A w \in Words : w # Space
  BY WordsAreSolid
<1>6. n \in Words /\ n # Space
  BY <1>5, WordsAssumption
<1>7. NormalPair(s, c) = <<k, Colon, n>> <=>
        /\ Len(kind) = 1 /\ kind[1] \in Words /\ Lower[kind[1]] = k
        /\ Len(id) = 1 /\ id[1] = n
  BY DEF NormalPair, IsWord
<1> HIDE DEF kind, id, KindAt, IdAt
<1>8. (Len(kind) = 1 /\ kind[1] \in Words /\ Lower[kind[1]] = k)
        <=> \E i \in 1..(c - 1) : s[i] \in Words /\ Lower[s[i]] = k /\ KindAt(i)
  BY <1>3, <1>5
<1>9. (Len(id) = 1 /\ id[1] = n) <=> \E j \in (c + 1)..Len(s) : s[j] = n /\ IdAt(j)
  BY <1>4, <1>6
<1>10. NormalPair(s, c) = <<k, Colon, n>> <=>
         \E i \in 1..(c - 1), j \in (c + 1)..Len(s) :
           s[i] \in Words /\ Lower[s[i]] = k /\ s[j] = n /\ KindAt(i) /\ IdAt(j)
  BY <1>7, <1>8, <1>9
<1> QED
  BY <1>10 DEF KindAt, IdAt

(* NormalizePeerID works on a window that holds what the reader sees.      *)
LEMMA StrippedIsBody ==
  ASSUME NEW S, NEW in \in Seq(S), NEW s, s = TrimPrefix(Trim(in), Link)
  PROVE  /\ s \in Seq(S)
         /\ \E off \in Nat :
              /\ \A i \in DOMAIN s : off + i \in DOMAIN in /\ s[i] = in[off + i]
              /\ \A i \in DOMAIN in : i \in Body(in) <=> i - off \in Solid(s)
<1> DEFINE t == Trim(in)
<1>0. Len(in) \in Nat /\ DOMAIN in = 1..Len(in) /\ Solid(in) \subseteq 1..Len(in)
  BY LenProperties DEF Solid
<1>1. s \in Seq(S)
  BY TrimIsPart, TrimPrefixIsPart
<1>2. Len(s) \in Nat /\ DOMAIN s = 1..Len(s)
  BY <1>1, LenProperties
<1>3. CASE Solid(in) = {}
  <2>1. t = <<>>
    BY <1>3, BlankIsTrimmed
  <2>2. s = <<>>
    BY <2>1 DEF TrimPrefix
  <2>3. Body(in) = {} /\ DOMAIN s = {} /\ Solid(s) = {}
    <3>1. Body(in) = {} /\ DOMAIN s = {}
      BY <1>3, <2>2 DEF Body
    <3> QED
      BY <3>1 DEF Solid
  <2> QED
    BY <1>1, <2>3
<1>4. CASE Solid(in) # {}
  <2>1. PICK a \in Solid(in), b \in Solid(in) :
           /\ 1 <= a /\ a <= b /\ b <= Len(in)
           /\ \A i \in Solid(in) : a <= i /\ i <= b
           /\ t \in Seq(S)
           /\ Len(t) = b - a + 1
           /\ \A i \in 1..(b - a + 1) : t[i] = in[a + i - 1]
    BY <1>4, TrimIsWindow
  <2>2. a \in Int /\ b \in Int /\ DOMAIN t = 1..(b - a + 1) /\ t # <<>>
    <3>1. a \in Int /\ b \in Int
      BY <1>0
    <3>2. DOMAIN t = 1..(b - a + 1)
      BY <2>1, LenProperties
    <3> QED
      BY <2>1, <3>1, <3>2, EmptySeq
  <2>3. t[1] = in[a]
    <3>1. 1 \in 1..(b - a + 1) /\ a + 1 - 1 = a
      BY <2>1, <2>2
    <3> QED
      BY <2>1, <3>1
  <2>4. s = IF t[1] = Link THEN Tail(t) ELSE t
    BY <2>2 DEF TrimPrefix
  <2> HIDE DEF t
  <2>5. CASE in[a] # Link
    <3>1. s = t
      BY <2>3, <2>4, <2>5
    <3>2. Body(in) = Solid(in)
      <4>1. ASSUME NEW i \in Solid(in), in[i] = Link PROVE \E j \in Solid(in) : j < i
        <5>1. a <= i /\ a # i /\ i \in Int
          BY <1>0, <2>1, <2>5, <4>1
        <5> QED
          BY <2>2, <5>1
      <4> QED
        BY <4>1 DEF Body
    <3>3. \A i \in DOMAIN s : (a - 1) + i \in DOMAIN in /\ s[i] = in[(a - 1) + i]
      <4>1. \A i \in 1..(b - a + 1) : (a - 1) + i \in 1..Len(in) /\ a + i - 1 = (a - 1) + i
        BY <1>0, <2>1, <2>2
      <4> QED
        BY <1>0, <2>1, <2>2, <3>1, <4>1
    <3>4. \A i \in DOMAIN in : i \in Solid(in) <=> i - (a - 1) \in Solid(s)
      <4>1. ASSUME NEW i \in Solid(in) PROVE i - (a - 1) \in Solid(s)
        <5>1. i \in Int /\ i - (a - 1) \in 1..(b - a + 1) /\ (a - 1) + (i - (a - 1)) = i
          BY <1>0, <2>1, <2>2
        <5> QED
          BY <2>2, <3>1, <3>3, <5>1 DEF Solid
      <4>2. ASSUME NEW i \in DOMAIN in, i - (a - 1) \in Solid(s) PROVE i \in Solid(in)
        <5>1. i \in Int /\ (a - 1) + (i - (a - 1)) = i
          BY <1>0, <2>2
        <5> QED
          BY <3>3, <4>2, <5>1 DEF Solid
      <4> QED
        BY <4>1, <4>2
    <3>5. a - 1 \in Nat
      BY <2>1, <2>2
    <3> QED
      BY <1>1, <3>2, <3>3, <3>4, <3>5
  <2>6. CASE in[a] = Link
    <3>1. s = Tail(t)
      BY <2>3, <2>4, <2>6
    <3>2. Body(in) = Solid(in) \ {a}
      <4>1. ASSUME NEW i \in Solid(in) PROVE i # a => \E j \in Solid(in) : j < i
        <5>1. a <= i /\ i \in Int
          BY <1>0, <2>1
        <5> QED
          BY <2>2, <5>1
      <4>2. ~ \E j \in Solid(in) : j < a
        <5>1. \A j \in Solid(in) : a <= j /\ j \in Int
          BY <1>0, <2>1
        <5> QED
          BY <2>2, <5>1
      <4> QED
        BY <2>6, <4>1, <4>2 DEF Body
    <3>3. DOMAIN s = 1..(b - a) /\ \A i \in 1..(b - a) : s[i] = t[i + 1]
      <4>1. Len(s) = Len(t) - 1 /\ \A i \in 1..Len(s) : s[i] = t[i + 1]
        BY <2>1, <2>2, <3>1, HeadTailProperties
      <4>2. Len(s) = b - a
        BY <2>1, <2>2, <4>1
      <4> QED
        BY <1>2, <4>1, <4>2
    <3>4. \A i \in DOMAIN s : a + i \in DOMAIN in /\ s[i] = in[a + i]
      <4>1. \A i \in 1..(b - a) : a + i \in 1..Len(in) /\ i + 1 \in 1..(b - a + 1) /\ a + (i + 1) - 1 = a + i
        BY <1>0, <2>1, <2>2
      <4> QED
        BY <1>0, <2>1, <3>3, <4>1
    <3>5. \A i \in DOMAIN in : i \in Body(in) <=> i - a \in Solid(s)
      <4>1. ASSUME NEW i \in Solid(in), i # a PROVE i - a \in Solid(s)
        <5>1. i \in Int /\ i - a \in 1..(b - a) /\ a + (i - a) = i
          BY <1>0, <2>1, <2>2, <4>1
        <5> QED
          BY <3>3, <3>4, <5>1 DEF Solid
      <4>2. ASSUME NEW i \in DOMAIN in, i - a \in Solid(s) PROVE i \in Solid(in) /\ i # a
        <5>1. i \in Int /\ a + (i - a) = i
          BY <1>0, <2>2
        <5>2. i - a \in DOMAIN s
          BY <4>2 DEF Solid
        <5>3. i # a
          BY <2>2, <3>3, <5>1, <5>2
        <5> QED
          BY <3>4, <4>2, <5>1, <5>3 DEF Solid
      <4> QED
        BY <3>2, <4>1, <4>2
    <3>6. a \in Nat
      BY <2>1, <2>2
    <3> QED
      BY <1>1, <3>4, <3>5, <3>6
  <2> QED
    BY <2>5, <2>6
<1> QED
  BY <1>3, <1>4

LEMMA PeerIsPair ==
  ASSUME NEW S, NEW in \in Seq(S), NEW k \in Kinds, NEW n \in Numerals
  PROVE  NormalizePeerID(in) = <<k, Colon, n>> <=>
           \E i, j, m \in Body(in) :
             /\ Body(in) = {i, j, m} /\ i < j /\ j < m
             /\ in[i] \in Words /\ Lower[in[i]] = k
             /\ in[j] = Colon
             /\ in[m] = n
<1> DEFINE s0     == TrimPrefix(Trim(in), Link)
<1>1. PICK s : s = s0
  OBVIOUS
<1>2. s \in Seq(S)
  BY <1>1, StrippedIsBody
<1>3. PICK off \in Nat :
        /\ \A i \in DOMAIN s : off + i \in DOMAIN in /\ s[i] = in[off + i]
        /\ \A i \in DOMAIN in : i \in Body(in) <=> i - off \in Solid(s)
  BY <1>1, StrippedIsBody
<1> DEFINE colons == {i \in DOMAIN s : s[i] = Colon}
           c      == Least(colons)
<1>4. Len(s) \in Nat /\ DOMAIN s = 1..Len(s) /\ DOMAIN in = 1..Len(in) /\ Len(in) \in Nat
  BY <1>2, LenProperties
<1>5. NormalizePeerID(in) = IF colons # {} /\ c > 1 THEN NormalPair(s, c) ELSE NormalName(s)
  BY <1>1 DEF NormalizePeerID
<1>6. NormalName(s) # <<k, Colon, n>>
  BY PunctuationDiffers DEF NormalName
<1>7. colons # {} => c \in colons /\ \A j \in colons : c <= j
  <2>1. colons \in SUBSET (1..Len(s))
    BY <1>4
  <2> HIDE DEF colons
  <2> QED
    BY <1>4, <2>1, LeastIsThere
<1> HIDE DEF c
<1>8. Body(in) \subseteq DOMAIN in /\ Solid(s) \subseteq DOMAIN s
  BY DEF Body, Solid
<1>9. \A i \in Body(in) : i - off \in Solid(s) /\ s[i - off] = in[i]
  <2>1. \A i \in Body(in) : i \in Int /\ off + (i - off) = i
    BY <1>4, <1>8
  <2> QED
    BY <1>3, <1>8, <2>1
<1>10. \A i \in Solid(s) : off + i \in Body(in) /\ in[off + i] = s[i]
  <2>1. \A i \in Solid(s) : i \in Int /\ (off + i) - off = i
    BY <1>4, <1>8
  <2> QED
    BY <1>3, <1>8, <2>1
<1>11. ASSUME NormalizePeerID(in) = <<k, Colon, n>>
       PROVE  \E i, j, m \in Body(in) :
                /\ Body(in) = {i, j, m} /\ i < j /\ j < m
                /\ in[i] \in Words /\ Lower[in[i]] = k
                /\ in[j] = Colon
                /\ in[m] = n
  <2>1. c \in DOMAIN s /\ s[c] = Colon /\ NormalPair(s, c) = <<k, Colon, n>>
    BY <1>5, <1>6, <1>7, <1>11
  <2>2. PICK i \in 1..(c - 1), m \in (c + 1)..Len(s) :
          /\ s[i] \in Words /\ Lower[s[i]] = k /\ s[m] = n
          /\ \A l \in 1..(c - 1) : s[l] # Space => l = i
          /\ \A l \in (c + 1)..Len(s) : s[l] # Space => l = m
    <3>1. PICK d \in 1..Len(s) : d = c
      BY <1>4, <2>1
    <3>2. NormalPair(s, d) = <<k, Colon, n>> <=>
            \E i \in 1..(d - 1), m \in (d + 1)..Len(s) :
              /\ s[i] \in Words /\ Lower[s[i]] = k /\ s[m] = n
              /\ \A l \in 1..(d - 1) : s[l] # Space => l = i
              /\ \A l \in (d + 1)..Len(s) : s[l] # Space => l = m
      BY <1>2, PairAt
    <3> QED
      BY <2>1, <3>1, <3>2
  <2>3. i \in DOMAIN s /\ m \in DOMAIN s /\ i < c /\ c < m /\ i \in Int /\ m \in Int /\ c \in Int
    BY <1>4, <2>1
  <2>4. i \in Solid(s) /\ c \in Solid(s) /\ m \in Solid(s)
    <3>1. s[m] \in Words
      BY <2>2, WordsAssumption
    <3> QED
      BY <2>1, <2>2, <2>3, <3>1, WordsAreSolid, PunctuationDiffers DEF Solid
  <2>5. ASSUME NEW l \in Solid(s) PROVE l \in {i, c, m}
    <3>1. l \in 1..Len(s) /\ s[l] # Space
      BY <1>4 DEF Solid
    <3>2. l \in 1..(c - 1) \/ l = c \/ l \in (c + 1)..Len(s)
      BY <1>4, <2>3, <3>1
    <3> QED
      BY <2>2, <3>1, <3>2
  <2>6. Body(in) = {off + i, off + c, off + m}
    <3>1. ASSUME NEW l \in Body(in) PROVE l \in {off + i, off + c, off + m}
      <4>1. l - off \in {i, c, m} /\ l \in Int
        BY <1>4, <1>8, <1>9, <2>5
      <4> QED
        BY <2>3, <4>1
    <3> QED
      BY <1>10, <2>4, <3>1
  <2>7. off + i < off + c /\ off + c < off + m
    BY <2>3
  <2> QED
    BY <1>10, <2>1, <2>2, <2>4, <2>6, <2>7
<1>12. ASSUME NEW i0 \in Body(in), NEW j0 \in Body(in), NEW m0 \in Body(in),
              Body(in) = {i0, j0, m0}, i0 < j0, j0 < m0,
              in[i0] \in Words, Lower[in[i0]] = k, in[j0] = Colon, in[m0] = n
       PROVE  NormalizePeerID(in) = <<k, Colon, n>>
  <2>1. PICK i, j, m \in Solid(s) : i = i0 - off /\ j = j0 - off /\ m = m0 - off
    BY <1>9
  <2>2. i0 \in Int /\ j0 \in Int /\ m0 \in Int /\ i \in Int /\ j \in Int /\ m \in Int
    BY <1>4, <1>8
  <2>3. i < j /\ j < m /\ i \in 1..Len(s) /\ j \in 1..Len(s) /\ m \in 1..Len(s)
    BY <1>4, <1>8, <1>12, <2>1, <2>2
  <2>4. s[i] \in Words /\ Lower[s[i]] = k /\ s[j] = Colon /\ s[m] = n
    BY <1>9, <1>12, <2>1
  <2>5. Solid(s) = {i, j, m}
    <3>1. ASSUME NEW l \in Solid(s) PROVE l \in {i, j, m}
      <4>1. off + l \in {i0, j0, m0} /\ l \in Int
        BY <1>4, <1>8, <1>10, <1>12
      <4> QED
        BY <2>1, <2>2, <4>1
    <3> QED
      BY <3>1
  <2>6. colons = {j}
    <3>1. s[m] \in Words
      BY <2>4, WordsAssumption
    <3>2. s[i] # Colon /\ s[m] # Colon
      BY <2>4, <3>1, WordsAreSolid
    <3>3. colons \subseteq Solid(s)
      BY PunctuationDiffers DEF Solid
    <3> QED
      BY <1>4, <2>3, <2>4, <2>5, <3>2, <3>3
  <2>7. c = j
    BY <1>7, <2>6
  <2>8. NormalPair(s, j) = <<k, Colon, n>>
    <3>1. i \in 1..(j - 1) /\ m \in (j + 1)..Len(s)
      BY <1>4, <2>2, <2>3
    <3>2. ASSUME NEW l \in 1..(j - 1), s[l] # Space PROVE l = i
      <4>1. l \in DOMAIN s /\ l < j /\ l \in Int
        BY <1>4, <2>2, <2>3
      <4>2. l \in {i, j, m}
        BY <2>5, <3>2, <4>1 DEF Solid
      <4> QED
        BY <2>2, <2>3, <4>1, <4>2
    <3>3. ASSUME NEW l \in (j + 1)..Len(s), s[l] # Space PROVE l = m
      <4>1. l \in DOMAIN s /\ j < l /\ l \in Int
        BY <1>4, <2>2, <2>3
      <4>2. l \in {i, j, m}
        BY <2>5, <3>3, <4>1 DEF Solid
      <4> QED
        BY <2>2, <2>3, <4>1, <4>2
    <3> QED
      BY <1>2, <2>3, <2>4, <3>1, <3>2, <3>3, PairAt
  <2>9. j > 1
    BY <1>4, <2>2, <2>3
  <2> QED
    BY <1>5, <2>6, <2>7, <2>8, <2>9
<1> QED
  BY <1>11, <1>12

(* Names.                                                                  *)
LEMMA OffPrefix ==
  ASSUME NEW S, NEW s \in Seq(S), NEW t
  PROVE  s = TrimPrefix(s, t) \/ (t \in S /\ s = <<t>> \o TrimPrefix(s, t))
<1>1. CASE s # <<>> /\ s[1] = t
  <2>1. Len(s) \in Nat \ {0} /\ 1 \in 1..Len(s)
    BY <1>1, EmptySeq
  <2>2. t \in S
    BY <1>1, <2>1, ElementOfSeq
  <2>3. Tail(s) \in Seq(S) /\ Len(Tail(s)) = Len(s) - 1 /\ \A i \in 1..Len(Tail(s)) : Tail(s)[i] = s[i + 1]
    BY <1>1, HeadTailProperties
  <2>4. <<t>> \in Seq(S) /\ Len(<<t>>) = 1 /\ <<t>>[1] = t
    BY <2>2
  <2> DEFINE u == <<t>>
             r == Tail(s)
  <2> HIDE DEF u, r
  <2>5. /\ u \o r \in Seq(S)
        /\ Len(u \o r) = Len(u) + Len(r)
        /\ \A i \in 1..(Len(u) + Len(r)) : (u \o r)[i] = IF i <= Len(u) THEN u[i] ELSE r[i - Len(u)]
    BY <2>3, <2>4, ConcatProperties DEF u, r
  <2>6. Len(u) = 1 /\ u[1] = t /\ Len(r) = Len(s) - 1 /\ \A i \in 1..(Len(s) - 1) : r[i] = s[i + 1]
    BY <2>3, <2>4 DEF u, r
  <2>7. ASSUME NEW i \in 1..Len(s) PROVE s[i] = (u \o r)[i]
    <3>1. CASE i = 1
      BY <1>1, <2>1, <2>5, <2>6, <3>1
    <3>2. CASE i # 1
      <4>1. i - 1 \in 1..(Len(s) - 1) /\ (i - 1) + 1 = i /\ ~(i <= 1)
        BY <2>1, <3>2
      <4>2. (u \o r)[i] = r[i - 1]
        BY <2>1, <2>5, <2>6, <4>1
      <4>3. r[i - 1] = s[(i - 1) + 1]
        BY <2>6, <4>1
      <4> QED
        BY <4>1, <4>2, <4>3
    <3> QED
      BY <3>1, <3>2
  <2>8. s = u \o r
    <3>1. Len(s) = Len(u \o r)
      BY <2>1, <2>5, <2>6
    <3> QED
      BY <2>5, <2>7, <3>1, SeqEqual
  <2> QED
    BY <1>1, <2>2, <2>8 DEF TrimPrefix, u, r
<1>2. CASE ~(s # <<>> /\ s[1] = t)
  BY <1>2 DEF TrimPrefix
<1> QED
  BY <1>1, <1>2

LEMMA OffSuffix ==
  ASSUME NEW S, NEW s \in Seq(S), NEW t
  PROVE  /\ TrimSuffix(s, t) \in Seq(S)
         /\ s = TrimSuffix(s, t) \/ (t \in S /\ s = TrimSuffix(s, t) \o <<t>>)
<1>1. CASE s # <<>> /\ s[Len(s)] = t
  <2>1. Len(s) \in Nat \ {0} /\ Len(s) \in 1..Len(s) /\ 1 \in 1..Len(s)
    BY <1>1, EmptySeq
  <2>2. SubSeq(s, 1, Len(s)) = SubSeq(s, 1, Len(s) - 1) \o <<s[Len(s)]>>
    BY <2>1, SubSeqRecursiveSecond
  <2>3. SubSeq(s, 1, Len(s)) = s
    BY SubSeqFull
  <2>4. \A i \in 1..(Len(s) - 1) : s[i] \in S
    <3>1. \A i \in 1..(Len(s) - 1) : i \in 1..Len(s)
      BY <2>1
    <3> QED
      BY <3>1, ElementOfSeq
  <2>5. SubSeq(s, 1, Len(s) - 1) \in Seq(S)
    BY <2>1, <2>4, SubSeqProperties
  <2>6. t \in S
    BY <1>1, <2>1, ElementOfSeq
  <2> QED
    BY <1>1, <2>2, <2>3, <2>5, <2>6 DEF TrimSuffix
<1>2. CASE ~(s # <<>> /\ s[Len(s)] = t)
  BY <1>2 DEF TrimSuffix
<1> QED
  BY <1>1, <1>2

LEMMA PrefixOff ==
  ASSUME NEW S, NEW x \in Seq(S), NEW t \in S, x # <<>>, x[1] # t
  PROVE  TrimPrefix(<<t>> \o x, t) = x /\ TrimPrefix(x, t) = x
<1>1. Tail(<<t>> \o x) = x
  OBVIOUS
<1>2. <<t>> \o x # <<>> /\ (<<t>> \o x)[1] = t
  OBVIOUS
<1> QED
  BY <1>1, <1>2 DEF TrimPrefix

LEMMA SuffixOff ==
  ASSUME NEW w, w # Slash
  PROVE  TrimSuffix(<<w>> \o <<Slash>>, Slash) = <<w>> /\ TrimSuffix(<<w>>, Slash) = <<w>>
<1>1. TrimSuffix(<<w>>, Slash) = <<w>>
  BY DEF TrimSuffix
<1>2. PICK S : S = {w, Slash}
  OBVIOUS
<1>3. w \in S /\ Slash \in S
  BY <1>2
<1>4. PICK z : z = <<w>> \o <<Slash>>
  OBVIOUS
<1>5. <<w>> \in Seq(S) /\ <<Slash>> \in Seq(S) /\ Len(<<w>>) = 1 /\ <<w>>[1] = w
  BY <1>3
<1>6. z \in Seq(S) /\ Len(z) = 2 /\ z[1] = w /\ z[2] = Slash /\ z # <<>>
  BY <1>3, <1>4
<1>7. /\ SubSeq(z, 1, 1) \in Seq(S)
      /\ Len(SubSeq(z, 1, 1)) = 1
      /\ SubSeq(z, 1, 1)[1] = w
  BY <1>3, <1>6
<1>8. SubSeq(z, 1, 1) = <<w>>
  <2>1. PICK u \in Seq(S), v \in Seq(S) : u = SubSeq(z, 1, 1) /\ v = <<w>>
    BY <1>5, <1>7
  <2>2. Len(u) = Len(v) /\ \A i \in 1..Len(u) : u[i] = v[i]
    BY <1>5, <1>7, <2>1
  <2> QED
    BY <2>1, <2>2, SeqEqual
<1>9. TrimSuffix(z, Slash) = <<w>>
  BY <1>6, <1>8 DEF TrimSuffix
<1> QED
  BY <1>1, <1>4, <1>9

LEMMA NameIsName ==
  ASSUME NEW S, NEW in \in Seq(S), NEW name \in Usernames
  PROVE  NormalizePeerID(in) = <<At, name>> <=> IsName(in, name)
<1> DEFINE t == Trim(in)
           s == TrimPrefix(t, Link)
           r == TrimPrefix(s, At)
           q == TrimSuffix(r, Slash)
<1>1. t \in Seq(S) /\ s \in Seq(S) /\ r \in Seq(S) /\ q \in Seq(S)
  <2>1. t \in Seq(S)
    BY TrimIsPart
  <2>2. s \in Seq(S)
    BY <2>1, TrimPrefixIsPart
  <2>3. r \in Seq(S)
    BY <2>2, TrimPrefixIsPart
  <2> QED
    BY <2>1, <2>2, <2>3, OffSuffix
<1>2. name \in Words /\ name \notin Punctuation
  BY WordsAssumption
<1>3. name # Link /\ name # At /\ name # Slash /\ name # Colon
  BY <1>2, WordsAreSolid
<1>4. ASSUME NormalizePeerID(in) = <<At, name>>
      PROVE  IsName(in, name)
  <2>1. NormalName(s) = <<At, name>>
    <3>1. \A c : NormalPair(s, c) # <<At, name>>
      BY DEF NormalPair
    <3> QED
      BY <1>4, <3>1 DEF NormalizePeerID
  <2>2. Len(q) = 1 /\ q[1] = name
    BY <2>1 DEF NormalName, IsWord
  <2> HIDE DEF t, s, r, q
  <2>3. q = <<name>>
    BY <1>1, <2>2
  <2>4. PICK slash \in {<<>>, <<Slash>>} : slash \in Seq(S) /\ r = <<name>> \o slash
    <3>1. r = q \/ (Slash \in S /\ r = q \o <<Slash>>)
      BY <1>1, OffSuffix DEF q
    <3>2. q = q \o <<>> /\ <<>> \in Seq(S)
      BY <1>1, ConcatEmptySeq
    <3>3. Slash \in S => <<Slash>> \in Seq(S)
      OBVIOUS
    <3> QED
      BY <2>3, <3>1, <3>2, <3>3
  <2>5. PICK at \in {<<>>, <<At>>} : at \in Seq(S) /\ s = at \o r
    <3>1. s = r \/ (At \in S /\ s = <<At>> \o r)
      BY <1>1, OffPrefix DEF r
    <3>2. r = <<>> \o r /\ <<>> \in Seq(S)
      BY <1>1, ConcatEmptySeq
    <3>3. At \in S => <<At>> \in Seq(S)
      OBVIOUS
    <3> QED
      BY <3>1, <3>2, <3>3
  <2>6. PICK link \in {<<>>, <<Link>>} : link \in Seq(S) /\ t = link \o s
    <3>1. t = s \/ (Link \in S /\ t = <<Link>> \o s)
      BY <1>1, OffPrefix DEF s
    <3>2. s = <<>> \o s /\ <<>> \in Seq(S)
      BY <1>1, ConcatEmptySeq
    <3>3. Link \in S => <<Link>> \in Seq(S)
      OBVIOUS
    <3> QED
      BY <3>1, <3>2, <3>3
  <2>7. PICK a \in Seq(S), b \in Seq(S), c \in Seq(S), d \in Seq(S) :
          a = link /\ b = at /\ c = <<name>> /\ d = slash
    BY <1>1, <2>3, <2>4, <2>5, <2>6
  <2>8. t = a \o (b \o (c \o d))
    BY <2>4, <2>5, <2>6, <2>7
  <2>9. t = ((a \o b) \o c) \o d
    <3>1. a \o (b \o (c \o d)) = (a \o b) \o (c \o d)
      OBVIOUS
    <3>2. (a \o b) \o (c \o d) = ((a \o b) \o c) \o d
      OBVIOUS
    <3> QED
      BY <2>8, <3>1, <3>2
  <2>10. t = link \o at \o <<name>> \o slash
    BY <2>7, <2>9
  <2> QED
    BY <2>10 DEF IsName, t
<1>5. ASSUME IsName(in, name)
      PROVE  NormalizePeerID(in) = <<At, name>>
  <2> DEFINE T == {Link, At, name, Slash}
             U == {At, name, Slash}
  <2>1. PICK link \in {<<>>, <<Link>>}, at \in {<<>>, <<At>>}, slash \in {<<>>, <<Slash>>} :
          t = link \o at \o <<name>> \o slash
    BY <1>5 DEF IsName
  <2>2. \A V : \A e \in V : <<e>> \in Seq(V) /\ <<>> \in Seq(V)
    OBVIOUS
  <2>0. PICK one : one = <<name>>
    OBVIOUS
  <2>3. /\ one \in Seq(U) /\ at \in Seq(U) /\ slash \in Seq(U)
        /\ one \in Seq(T) /\ at \in Seq(T) /\ slash \in Seq(T) /\ link \in Seq(T)
    <3>1. At \in U /\ name \in U /\ Slash \in U /\ U \subseteq T /\ Link \in T
      OBVIOUS
    <3> HIDE DEF T, U
    <3> QED
      BY <2>0, <2>2, <3>1
  <2>4. PICK w : w = one \o slash
    OBVIOUS
  <2>5. w \in Seq(U) /\ w # <<>> /\ w[1] = name /\ TrimSuffix(w, Slash) = <<name>>
    <3>1. name \in U /\ Slash \in U
      OBVIOUS
    <3> HIDE DEF U
    <3>2. w = <<name>> \/ w = <<name>> \o <<Slash>>
      <4>1. <<name>> \o <<>> = <<name>>
        OBVIOUS
      <4> QED
        BY <2>0, <2>4, <4>1
    <3>3. /\ <<name>> \in Seq(U) /\ <<name>> # <<>> /\ <<name>>[1] = name
          /\ <<name>> \o <<Slash>> \in Seq(U) /\ <<name>> \o <<Slash>> # <<>>
          /\ (<<name>> \o <<Slash>>)[1] = name
      BY <3>1
    <3>4. TrimSuffix(w, Slash) = <<name>>
      BY <1>3, <3>2, SuffixOff
    <3> QED
      BY <3>2, <3>3, <3>4
  <2>6. PICK v : v = at \o w
    OBVIOUS
  <2>7. v \in Seq(U) /\ v # <<>> /\ v[1] \in {At, name} /\ TrimPrefix(v, At) = w
    <3>1. w[1] # At /\ At \in U
      BY <1>3, <2>5
    <3> HIDE DEF U
    <3>2. v = w \/ v = <<At>> \o w
      <4>1. <<>> \o w = w
        BY <2>5
      <4> QED
        BY <2>6, <4>1
    <3>3. <<At>> \o w \in Seq(U) /\ <<At>> \o w # <<>> /\ (<<At>> \o w)[1] = At
      BY <2>5, <3>1
    <3>4. TrimPrefix(v, At) = w
      <4>1. PICK x \in Seq(U), e \in U : x = w /\ e = At
        BY <2>5, <3>1
      <4>2. TrimPrefix(<<e>> \o x, e) = x /\ TrimPrefix(x, e) = x
        BY <2>5, <3>1, <4>1, PrefixOff
      <4> QED
        BY <3>2, <4>1, <4>2
    <3> QED
      BY <2>5, <3>2, <3>3, <3>4
  <2>8. v \in Seq(T)
    BY <2>7, SeqMonotonic
  <2>9. TrimPrefix(link \o v, Link) = v
    <3>1. v[1] # Link /\ Link \in T
      BY <1>3, <2>7, PunctuationDiffers
    <3> HIDE DEF T
    <3>2. link \o v = v \/ link \o v = <<Link>> \o v
      <4>1. <<>> \o v = v
        BY <2>8
      <4> QED
        BY <4>1
    <3> QED
      BY <2>7, <2>8, <3>1, <3>2, PrefixOff
  <2>10. t = link \o v
    <3>1. PICK a \in Seq(T), b \in Seq(T), c \in Seq(T), d \in Seq(T) :
            a = link /\ b = at /\ c = one /\ d = slash
      BY <2>3
    <3>2. a \o (b \o (c \o d)) = a \o b \o c \o d
      OBVIOUS
    <3> QED
      BY <2>0, <2>1, <2>4, <2>6, <3>1, <3>2
  <2>11. s = v
    BY <2>9, <2>10
  <2>12. {i \in DOMAIN v : v[i] = Colon} = {}
    <3>1. Colon \notin U
      BY <1>3 DEF Colon, At, Slash
    <3>2. \A i \in DOMAIN v : v[i] \in U
      BY <2>7, LenProperties, ElementOfSeq
    <3> QED
      BY <3>1, <3>2
  <2>13. NormalName(v) = <<At, name>>
    <3>1. Len(<<name>>) = 1 /\ <<name>>[1] = name
      OBVIOUS
    <3> QED
      BY <2>5, <2>7, <3>1 DEF NormalName, IsWord
  <2> QED
    BY <2>11, <2>12, <2>13 DEF NormalizePeerID
<1> QED
  BY <1>4, <1>5

(* SpellingIsUnderstood: every spelling of a peer or a username is read as *)
(* that peer or username, and nothing else is.                             *)
THEOREM SpellingUnderstood == Spec => []SpellingIsUnderstood
<1>1. TypeOK => input \in Seq(Tokens)
  BY InputsAssumption, EmptySeq DEF TypeOK
<1>2. TypeOK => SpellingIsUnderstood
  <2> SUFFICES ASSUME TypeOK
               PROVE  SpellingIsUnderstood
    OBVIOUS
  <2>1. ASSUME NEW p \in Peers
        PROVE  ParsePeerID(input) = p <=> IsPair(input, p)
    <3>0. p[1] \in Kinds /\ p = <<p[1], p[2]>> /\ p[1] # At
      BY PeersAreNamed, PunctuationDiffers
    <3>1. ASSUME ParsePeerID(input) = p PROVE IsPair(input, p)
      <4>1. PICK n \in Numerals : NormalizePeerID(input) = <<p[1], Colon, n>> /\ Value[n] = p[2]
        BY <3>1, PeersArePairs
      <4> QED
        BY <1>1, <3>0, <4>1, PeerIsPair DEF IsPair
    <3>2. ASSUME IsPair(input, p) PROVE ParsePeerID(input) = p
      <4>1. PICK n \in Numerals :
              /\ Value[n] = p[2]
              /\ \E i, j, m \in Body(input) :
                   /\ Body(input) = {i, j, m} /\ i < j /\ j < m
                   /\ input[i] \in Words /\ Lower[input[i]] = p[1]
                   /\ input[j] = Colon
                   /\ input[m] = n
        BY <3>2 DEF IsPair
      <4>2. NormalizePeerID(input) = <<p[1], Colon, n>>
        BY <1>1, <3>0, <4>1, PeerIsPair
      <4> QED
        BY <3>0, <4>1, <4>2 DEF ParsePeerID
    <3> QED
      BY <3>1, <3>2
  <2>2. ASSUME NEW name \in Usernames
        PROVE  ParsePeerID(input) = <<At, name>> <=> IsName(input, name)
    <3>1. ParsePeerID(input) = <<At, name>> <=> NormalizePeerID(input) = <<At, name>>
      <4>1. CASE NormalizePeerID(input) = <<>>
        BY <4>1 DEF ParsePeerID
      <4>2. CASE NormalizePeerID(input) \in PairForms
        BY <4>2, PunctuationDiffers DEF ParsePeerID, PairForms
      <4>3. CASE NormalizePeerID(input) \in NameForms
        BY <4>3 DEF ParsePeerID, NameForms
      <4> QED
        BY <4>1, <4>2, <4>3, NormalForms
    <3> QED
      BY <1>1, <3>1, NameIsName
  <2> QED
    BY <2>1, <2>2 DEF SpellingIsUnderstood
<1> QED
  BY TypeCorrect, <1>2, PTL
=============================================================================
