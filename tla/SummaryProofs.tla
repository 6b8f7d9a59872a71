---------------------------- MODULE SummaryProofs ----------------------------
(***************************************************************************)
(* Theorems about the aggregation engine of module Summary, for every      *)
(* value of its constants.                                                 *)
(***************************************************************************)
EXTENDS Summary, SequenceTheorems, FiniteSetTheorems, TLAPS

USE ConstAssumption

-----------------------------------------------------------------------------
(* Helpers on the data the fold writes.                                    *)

(* updateSummary keeps a count map a count map.                            *)
LEMMA BumpType ==
  ASSUME NEW D, NEW m \in [D -> Nat], NEW key \in D \cup {Empty}
  PROVE  Bump(m, key) \in [D -> Nat]
<1>1. CASE key = Empty
  BY <1>1 DEF Bump
<1>2. CASE key \in D /\ key # Empty
  BY <1>2 DEF Bump
<1>. QED BY <1>1, <1>2

(* The ring of a rule stays a sequence of packet ids after the append and  *)
(* the cut of updateMatchSummary.                                          *)
LEMMA RingCutType ==
  ASSUME NEW s \in Seq(1..MaxPackets)
  PROVE  RingCut(s) \in Seq(1..MaxPackets)
<1>1. CASE Len(s) > MaxPacketCount - 1
  <2> DEFINE m == Len(s) - MaxPacketCount + 2
  <2>1. m \in Int /\ Len(s) \in Int /\ m >= 1
    BY <1>1
  <2>2. \A i \in m..Len(s) : s[i] \in 1..MaxPackets
    <3> SUFFICES ASSUME NEW i \in m..Len(s) PROVE s[i] \in 1..MaxPackets
      OBVIOUS
    <3>1. i \in 1..Len(s)
      BY <2>1
    <3>. QED BY <3>1, ElementOfSeq
  <2>3. SubSeq(s, m, Len(s)) \in Seq(1..MaxPackets)
    BY <2>1, <2>2, SubSeqProperties
  <2>. QED BY <1>1, <2>3 DEF RingCut
<1>2. CASE ~(Len(s) > MaxPacketCount - 1)
  BY <1>2 DEF RingCut
<1>. QED BY <1>1, <1>2

(* The entry updateInputPacket writes for a packet is a well-formed        *)
(* InputPacket.                                                            *)
LEMMA TouchedType ==
  ASSUME TypeOK, NEW p \in Packet
  PROVE  Touched(p) \in InputPacket
<1> DEFINE old == IF p.src \in DOMAIN inputPackets
                    THEN inputPackets[p.src]
                    ELSE [count |-> 0, start |-> now, last |-> now,
                          country |-> p.country]
<1>1. old \in InputPacket
  <2>1. CASE p.src \in DOMAIN inputPackets
    BY <2>1 DEF TypeOK
  <2>2. CASE p.src \notin DOMAIN inputPackets
    BY <2>2 DEF TypeOK, InputPacket, Packet
  <2>. QED BY <2>1, <2>2
<1>2. p.country \in CountryNames /\ now \in Nat
  BY DEF Packet, TypeOK
<1>. QED BY <1>1, <1>2 DEF Touched, InputPacket

(* The table after the write, and after an eviction from it, maps sources  *)
(* to InputPackets.                                                        *)
LEMMA UpsertedType ==
  ASSUME TypeOK, NEW p \in Packet
  PROVE  /\ DOMAIN Upserted(p) \subseteq Sources
         /\ \A k \in DOMAIN Upserted(p) : Upserted(p)[k] \in InputPacket
         /\ \A k \in DOMAIN Upserted(p) :
               /\ DOMAIN Without(Upserted(p), k) \subseteq Sources
               /\ \A j \in DOMAIN Without(Upserted(p), k) :
                     Without(Upserted(p), k)[j] \in InputPacket
<1>1. DOMAIN Upserted(p) = DOMAIN inputPackets \cup {p.src}
  BY DEF Upserted
<1>2. \A k \in DOMAIN Upserted(p) : Upserted(p)[k] \in InputPacket
  BY TouchedType DEF Upserted, TypeOK
<1>. QED BY <1>1, <1>2 DEF TypeOK, Packet, Without

(* A suffix of a sequence, from position m on.                            *)
LEMMA SuffixProperties ==
  ASSUME NEW S, NEW t \in Seq(S), NEW m \in 1..(Len(t) + 1)
  PROVE  /\ SubSeq(t, m, Len(t)) \in Seq(S)
         /\ Len(SubSeq(t, m, Len(t))) = Len(t) - m + 1
         /\ \A i \in 1..(Len(t) - m + 1) : SubSeq(t, m, Len(t))[i] = t[m + i - 1]
<1>1. Len(t) \in Nat
  BY LenProperties
<1>2. \A i \in m..Len(t) : t[i] \in S
  BY <1>1, ElementOfSeq
<1>. QED BY <1>1, <1>2, SubSeqProperties

(* Cutting a history to its last n elements and then appending and cutting *)
(* again keeps the same elements as appending to the whole history and     *)
(* cutting once: the ring never needs the history it dropped.              *)
LEMMA LastNAppend ==
  ASSUME NEW S, NEW s \in Seq(S), NEW x \in S, NEW n \in Nat
  PROVE  LastN(Append(LastN(s, n), x), n) = LastN(Append(s, x), n)
<1>1. CASE Len(s) <= n
  BY <1>1 DEF LastN
<1>2. CASE Len(s) > n
  <2>1. Len(s) \in Nat
    BY LenProperties
  <2> DEFINE u == SubSeq(s, Len(s) - n + 1, Len(s))
             a == Append(u, x)
             b == Append(s, x)
  <2>2. Len(s) - n + 1 \in 1..(Len(s) + 1)
    BY <1>2, <2>1
  <2>3. /\ u \in Seq(S)
        /\ Len(u) = Len(s) - (Len(s) - n + 1) + 1
        /\ \A i \in 1..(Len(s) - (Len(s) - n + 1) + 1) :
              u[i] = s[(Len(s) - n + 1) + i - 1]
    BY <2>2, SuffixProperties
  <2>4. /\ a \in Seq(S) /\ Len(a) = Len(u) + 1
        /\ \A i \in 1..Len(u) : a[i] = u[i]
        /\ a[Len(u) + 1] = x
    BY <2>3, AppendProperties
  <2>5. /\ b \in Seq(S) /\ Len(b) = Len(s) + 1
        /\ \A i \in 1..Len(s) : b[i] = s[i]
        /\ b[Len(s) + 1] = x
    BY AppendProperties
  <2>6. 2 \in 1..(Len(a) + 1) /\ Len(b) - n + 1 \in 1..(Len(b) + 1)
    BY <1>2, <2>1, <2>3, <2>4, <2>5
  <2>7. /\ SubSeq(a, 2, Len(a)) \in Seq(S)
        /\ Len(SubSeq(a, 2, Len(a))) = Len(a) - 2 + 1
        /\ \A i \in 1..(Len(a) - 2 + 1) : SubSeq(a, 2, Len(a))[i] = a[2 + i - 1]
    BY <2>4, <2>6, SuffixProperties
  <2>8. /\ SubSeq(b, Len(b) - n + 1, Len(b)) \in Seq(S)
        /\ Len(SubSeq(b, Len(b) - n + 1, Len(b))) = Len(b) - (Len(b) - n + 1) + 1
        /\ \A i \in 1..(Len(b) - (Len(b) - n + 1) + 1) :
              SubSeq(b, Len(b) - n + 1, Len(b))[i] = b[(Len(b) - n + 1) + i - 1]
    BY <2>5, <2>6, SuffixProperties
  <2>9. LastN(s, n) = u
    BY <1>2 DEF LastN
  <2>10. LastN(a, n) = SubSeq(a, 2, Len(a))
    BY <2>1, <2>3, <2>4 DEF LastN
  <2>11. LastN(b, n) = SubSeq(b, Len(b) - n + 1, Len(b))
    BY <1>2, <2>1, <2>5 DEF LastN
  <2>15. /\ Len(a) - 2 + 1 = n
         /\ Len(b) - (Len(b) - n + 1) + 1 = n
         /\ Len(b) = Len(s) + 1
    BY <2>1, <2>3, <2>4, <2>5
  <2>12. \A i \in 1..n : SubSeq(a, 2, Len(a))[i]
                          = SubSeq(b, Len(b) - n + 1, Len(b))[i]
    <3> SUFFICES ASSUME NEW i \in 1..n
                 PROVE  SubSeq(a, 2, Len(a))[i]
                          = SubSeq(b, Len(b) - n + 1, Len(b))[i]
      OBVIOUS
    <3>1. SubSeq(a, 2, Len(a))[i] = a[i + 1]
      BY <2>7, <2>15
    <3>2. SubSeq(b, Len(b) - n + 1, Len(b))[i] = b[Len(s) - n + 1 + i]
      <4>1. SubSeq(b, Len(b) - n + 1, Len(b))[i] = b[(Len(b) - n + 1) + i - 1]
        BY <2>8, <2>15
      <4>2. (Len(b) - n + 1) + i - 1 = Len(s) - n + 1 + i
        BY <2>1, <2>15
      <4>. QED BY <4>1, <4>2
    <3>3. CASE i < n
      BY <3>1, <3>2, <3>3, <1>2, <2>1, <2>3, <2>4, <2>5
    <3>4. CASE i = n
      <4>1. Len(u) = n
        BY <2>1, <2>3
      <4>2. a[i + 1] = x
        BY <3>4, <4>1, <2>4
      <4>3. b[Len(s) - n + 1 + i] = x
        BY <3>4, <2>1, <2>5
      <4>. QED BY <3>1, <3>2, <4>2, <4>3
    <3>5. i < n \/ i = n
      OBVIOUS
    <3>. QED BY <3>3, <3>4, <3>5
  <2>13. /\ Len(SubSeq(a, 2, Len(a))) = n
         /\ Len(SubSeq(b, Len(b) - n + 1, Len(b))) = n
    BY <2>1, <2>3, <2>4, <2>5, <2>7, <2>8
  <2>14. SubSeq(a, 2, Len(a)) = SubSeq(b, Len(b) - n + 1, Len(b))
    BY <2>7, <2>8, <2>12, <2>13, SeqEqual
  <2>. QED BY <2>9, <2>10, <2>11, <2>14
<1>. QED BY <1>1, <1>2

(* The cut of updateMatchSummary is the last MaxPacketCount - 1 elements.  *)
LEMMA RingCutIsLastN ==
  ASSUME NEW s
  PROVE  RingCut(s) = LastN(s, MaxPacketCount - 1)
BY DEF RingCut, LastN

-----------------------------------------------------------------------------
(* Every reachable state has the shape the code gives its variables.       *)
-----------------------------------------------------------------------------
(* Counting the packets of one EtherType in a slice of packets.            *)

(* The count is a natural number.                                          *)
LEMMA CountType ==
  ASSUME NEW S, NEW s \in Seq(S), NEW e
  PROVE  /\ IsFiniteSet({i \in 1..Len(s) : s[i].eth = e})
         /\ CountOf(s, e) \in Nat
<1>1. IsFiniteSet(1..Len(s))
  BY FS_Interval
<1>2. IsFiniteSet({i \in 1..Len(s) : s[i].eth = e})
  BY <1>1, FS_Subset
<1>. QED BY <1>2, FS_CardinalityType DEF CountOf

(* A fresh slice holds no packet of any EtherType.                         *)
LEMMA CountEmpty ==
  ASSUME NEW e
  PROVE  CountOf(<<>>, e) = 0
<1>1. {i \in 1..Len(<<>>) : <<>>[i].eth = e} = {}
  OBVIOUS
<1>. QED BY <1>1, FS_EmptySet DEF CountOf

(* handlePacket's append adds one to the count of the packet's EtherType   *)
(* and leaves every other count as it was.                                 *)
LEMMA CountAppend ==
  ASSUME NEW S, NEW s \in Seq(S), NEW x \in S, NEW e
  PROVE  CountOf(Append(s, x), e) = CountOf(s, e) + (IF x.eth = e THEN 1 ELSE 0)
<1> DEFINE n == Len(s)
           I == {i \in 1..n : s[i].eth = e}
           I2 == {i \in 1..Len(Append(s, x)) : Append(s, x)[i].eth = e}
<1>1. n \in Nat /\ Len(Append(s, x)) = n + 1 /\ Append(s, x)[n + 1] = x
      /\ \A i \in 1..n : Append(s, x)[i] = s[i]
  BY AppendProperties
<1>2. IsFiniteSet(I) /\ Cardinality(I) \in Nat
  BY CountType DEF CountOf
<1>3. CountOf(Append(s, x), e) = Cardinality(I2) /\ CountOf(s, e) = Cardinality(I)
  BY DEF CountOf
<1>4. CASE x.eth = e
  <2>1. I2 = I \cup {n + 1} /\ n + 1 \notin I
    BY <1>1, <1>4
  <2>2. Cardinality(I2) = Cardinality(I) + 1
    BY <1>2, <2>1, FS_AddElement
  <2>. QED BY <1>3, <1>4, <2>2
<1>5. CASE x.eth # e
  <2>1. I2 = I
    BY <1>1, <1>5
  <2>2. Cardinality(I2) = Cardinality(I)
    BY <2>1
  <2>3. (IF x.eth = e THEN 1 ELSE 0) = 0
    BY <1>5
  <2>4. CountOf(Append(s, x), e) = CountOf(s, e) /\ CountOf(s, e) \in Nat
    BY <1>2, <1>3, <2>2
  <2>. QED BY <2>3, <2>4
<1>. QED BY <1>4, <1>5

(* The fold's step from a batch to its tail takes one off the count of the *)
(* head's EtherType and leaves every other count as it was.                *)
LEMMA CountTail ==
  ASSUME NEW S, NEW s \in Seq(S), s # <<>>, NEW e
  PROVE  CountOf(s, e) = CountOf(Tail(s), e) + (IF Head(s).eth = e THEN 1 ELSE 0)
<1> DEFINE n == Len(s)
           t == Tail(s)
           I == {i \in 1..n : s[i].eth = e}
           J == {i \in 2..n : s[i].eth = e}
           K == {i \in 1..Len(t) : t[i].eth = e}
<1>1. /\ n \in Nat /\ n >= 1 /\ Head(s) = s[1]
      /\ t \in Seq(S) /\ Len(t) = n - 1
      /\ \A i \in 1..n - 1 : t[i] = s[i + 1]
  BY HeadTailProperties, EmptySeq, LenProperties
<1>2. IsFiniteSet(J)
  <2>1. IsFiniteSet(1..n) /\ J \in SUBSET (1..n)
    BY <1>1, FS_Interval
  <2>. QED BY <2>1, FS_Subset
<1>3. IsFiniteSet(K) /\ Cardinality(K) \in Nat
  BY <1>1, CountType DEF CountOf
<1>4. CountOf(s, e) = Cardinality(I) /\ CountOf(t, e) = Cardinality(K)
  BY DEF CountOf
<1>5. Cardinality(K) = Cardinality(J)
  <2> DEFINE f == [i \in K |-> i + 1]
  <2>1. \A i \in K : i + 1 \in J
    BY <1>1
  <2>2. \A j \in J : j - 1 \in K /\ j - 1 + 1 = j
    BY <1>1
  <2>3. f \in [K -> J]
    BY <2>1
  <2>4. \A a, b \in K : f[a] = f[b] => a = b
    BY <1>1
  <2>5. \A j \in J : \E i \in K : f[i] = j
    BY <2>2
  <2>6. f \in Bijection(K, J)
    BY <2>3, <2>4, <2>5, Zenon DEF Bijection, Injection, Surjection, IsInjective
  <2>7. ExistsBijection(K, J)
    BY <2>6 DEF ExistsBijection
  <2>. QED BY <1>3, <2>7, FS_Bijection
<1>6. CASE Head(s).eth = e
  <2>1. I = J \cup {1} /\ 1 \notin J
    BY <1>1, <1>6
  <2>2. Cardinality(I) = Cardinality(J) + 1
    BY <1>2, <2>1, FS_AddElement
  <2>. QED BY <1>3, <1>4, <1>5, <1>6, <2>2
<1>7. CASE Head(s).eth # e
  <2>1. I = J
    BY <1>1, <1>7
  <2>2. Cardinality(I) = Cardinality(J)
    BY <2>1
  <2>3. (IF Head(s).eth = e THEN 1 ELSE 0) = 0
    BY <1>7
  <2>4. CountOf(s, e) = CountOf(Tail(s), e) /\ CountOf(Tail(s), e) \in Nat
    BY <1>3, <1>4, <1>5, <2>2
  <2>. QED BY <2>3, <2>4
<1>. QED BY <1>6, <1>7

THEOREM TypeCorrect == Spec => []TypeOK
<1>1. Init => TypeOK
  <2> SUFFICES ASSUME Init PROVE TypeOK
    OBVIOUS
  <2>1. <<>> \in Seq(Packet) /\ <<>> \in Seq(1..MaxPackets)
    BY EmptySeq
  <2>2. DOMAIN inputPackets = {}
    BY DEF Init
  <2>3. /\ now \in 0..MaxTime /\ lastTick \in 0..MaxTime
        /\ nextId \in 0..MaxPackets
    BY DEF Init
  <2>6. aggPc \in {"idle", "fold"} /\ reading \subseteq Readers
        /\ crashed \in BOOLEAN
    BY Zenon DEF Init
  <2>4. /\ ethTypeSummary \in [EthTypes -> Nat]
        /\ countrySummary \in [CountryNames \ {Empty} -> Nat]
        /\ matchSummary \in [Rules -> Nat]
        /\ received \in [EthTypes -> Nat]
    BY DEF Init
  <2>5. /\ cachePacket \in Seq(Packet) /\ batch \in Seq(Packet)
        /\ matchPackets \in [Rules -> Seq(1..MaxPackets)]
        /\ matchHist \in [Rules -> Seq(1..MaxPackets)]
    BY <2>1 DEF Init
  <2>. QED BY <2>2, <2>3, <2>4, <2>5, <2>6 DEF TypeOK
<1>2. TypeOK /\ [Next]_vars => TypeOK'
  <2> SUFFICES ASSUME TypeOK, [Next]_vars PROVE TypeOK'
    OBVIOUS
  <2>1. CASE AdvanceClock
    BY <2>1 DEF AdvanceClock, TypeOK
  <2>2. CASE HandlePacket
    <3>1. PICK src \in Sources, ip \in IPKinds, eth \in EthTypes,
               rule \in Rules \cup {NoRule}, res \in GeoResults :
            LET p == [id |-> nextId + 1, src |-> src, eth |-> eth,
                      rule |-> rule, country |-> Enrich(ip, res)]
            IN /\ cachePacket' = Append(cachePacket, p)
               /\ received' = [received EXCEPT ![eth] = @ + 1]
      BY <2>2 DEF HandlePacket
    <3>2. Enrich(ip, res) \in CountryNames
      BY DEF Enrich, GeoResults, CountryNames
    <3>3. [id |-> nextId + 1, src |-> src, eth |-> eth, rule |-> rule,
           country |-> Enrich(ip, res)] \in Packet
      BY <2>2, <3>2 DEF HandlePacket, TypeOK, Packet
    <3>4. cachePacket' \in Seq(Packet)
      BY <3>1, <3>3, AppendProperties DEF TypeOK
    <3>5. received' \in [EthTypes -> Nat]
      BY <3>1 DEF TypeOK
    <3>6. nextId' \in 0..MaxPackets
      BY <2>2 DEF HandlePacket, TypeOK
    <3>7. UNCHANGED <<now, lastTick, aggPc, batch, ethTypeSummary, countrySummary,
                      inputPackets, matchSummary, matchPackets, reading, crashed,
                      matchHist>>
      BY <2>2 DEF HandlePacket
    <3>. QED BY <3>4, <3>5, <3>6, <3>7 DEF TypeOK
  <2>3. CASE HandleBlackEvent
    BY <2>3 DEF HandleBlackEvent, TypeOK
  <2>4. CASE SummarizeStart
    BY <2>4 DEF SummarizeStart, TypeOK
  <2>5. CASE SummarizeStep
    <3> DEFINE p == Head(batch)
               ring == Append(matchPackets[p.rule], p.id)
    <3>1. p \in Packet
      BY <2>5, HeadTailProperties DEF SummarizeStep, TypeOK
    <3>2. batch' \in Seq(Packet)
      BY <2>5, HeadTailProperties DEF SummarizeStep, TypeOK
    <3>3. /\ ethTypeSummary' \in [EthTypes -> Nat]
          /\ countrySummary' \in [CountryNames \ {Empty} -> Nat]
      <4>1. /\ ethTypeSummary' = Bump(ethTypeSummary, p.eth)
            /\ countrySummary' = Bump(countrySummary, p.country)
        BY <2>5 DEF SummarizeStep
      <4>2. p.eth \in EthTypes /\ p.country \in (CountryNames \ {Empty}) \cup {Empty}
        BY <3>1 DEF Packet
      <4>. QED BY <4>1, <4>2, BumpType DEF TypeOK
    <3>4. /\ DOMAIN inputPackets' \subseteq Sources
          /\ \A k \in DOMAIN inputPackets' : inputPackets'[k] \in InputPacket
      <4>1. Evictable(Upserted(p)) \subseteq DOMAIN Upserted(p)
        BY DEF Evictable
      <4>. QED BY <2>5, <3>1, <4>1, UpsertedType DEF SummarizeStep
    <3>5. CASE p.rule = NoRule
      BY <2>5, <3>2, <3>3, <3>4, <3>5 DEF SummarizeStep, TypeOK
    <3>6. CASE p.rule # NoRule
      <4>1. p.rule \in Rules /\ p.id \in 1..MaxPackets
        BY <3>1, <3>6 DEF Packet
      <4>2. ring \in Seq(1..MaxPackets)
        BY <4>1, AppendProperties DEF TypeOK
      <4>3. RingCut(ring) \in Seq(1..MaxPackets)
        BY <4>2, RingCutType
      <4>4. /\ matchSummary' = [matchSummary EXCEPT ![p.rule] = @ + 1]
            /\ matchHist' = [matchHist EXCEPT ![p.rule] = Append(@, p.id)]
            /\ crashed' = RingPanics(ring)
            /\ matchPackets' = [matchPackets EXCEPT
                                  ![p.rule] = IF RingPanics(ring)
                                                THEN ring
                                                ELSE RingCut(ring)]
        BY <2>5, <3>6 DEF SummarizeStep
      <4>5. matchPackets' \in [Rules -> Seq(1..MaxPackets)]
        BY <4>1, <4>2, <4>3, <4>4 DEF TypeOK
      <4>6. Append(matchHist[p.rule], p.id) \in Seq(1..MaxPackets)
        BY <4>1, AppendProperties DEF TypeOK
      <4>7. matchHist' \in [Rules -> Seq(1..MaxPackets)]
        BY <4>4, <4>6 DEF TypeOK
      <4>8. matchSummary' \in [Rules -> Nat]
        BY <4>1, <4>4 DEF TypeOK
      <4>9. crashed' \in BOOLEAN
        BY <4>4 DEF RingPanics
      <4>. QED BY <2>5, <3>2, <3>3, <3>4, <4>5, <4>7, <4>8, <4>9
                  DEF SummarizeStep, TypeOK
    <3>. QED BY <3>5, <3>6
  <2>6. CASE SummarizeEnd
    BY <2>6 DEF SummarizeEnd, TypeOK
  <2>7. CASE \E r \in Readers : ReadBegin(r) \/ ReadEnd(r)
    BY <2>7 DEF ReadBegin, ReadEnd, TypeOK
  <2>8. CASE UNCHANGED vars
    BY <2>8 DEF vars, TypeOK
  <2>. QED BY <2>1, <2>2, <2>3, <2>4, <2>5, <2>6, <2>7, <2>8 DEF Next
<1>. QED BY <1>1, <1>2, PTL DEF Spec

-----------------------------------------------------------------------------
(* While the process runs, the ring of every rule is the suffix of length  *)
(* MaxPacketCount - 1 of everything that rule matched, for every value of  *)
(* MaxPacketCount: updateMatchSummary's append and trim never lose a       *)
(* recent packet nor keep an old one.  The invariant is inductive once     *)
(* TypeOK holds, because LastNAppend lets the trimmed ring stand for the   *)
(* whole history.                                                          *)
THEOREM MatchRingCorrect == Spec => []MatchRingIsRecentSuffix
<1>1. Init => MatchRingIsRecentSuffix
  <2> SUFFICES ASSUME Init, NEW r \in Rules
               PROVE  matchPackets[r] = LastN(matchHist[r], MaxPacketCount - 1)
    BY DEF MatchRingIsRecentSuffix
  <2>1. matchPackets[r] = <<>> /\ matchHist[r] = <<>>
    BY DEF Init
  <2>. QED BY <2>1, EmptySeq DEF LastN
<1>2. TypeOK /\ MatchRingIsRecentSuffix /\ [Next]_vars
        => MatchRingIsRecentSuffix'
  <2> SUFFICES ASSUME TypeOK, MatchRingIsRecentSuffix, [Next]_vars
               PROVE  MatchRingIsRecentSuffix'
    OBVIOUS
  <2>1. CASE UNCHANGED <<matchPackets, matchHist>>
              /\ (crashed' = crashed \/ crashed' = TRUE)
    BY <2>1 DEF MatchRingIsRecentSuffix
  <2>2. CASE SummarizeStep
    <3> DEFINE p == Head(batch)
               ring == Append(matchPackets[p.rule], p.id)
    <3>1. p \in Packet /\ ~crashed
      BY <2>2, HeadTailProperties DEF SummarizeStep, TypeOK
    <3>2. CASE p.rule = NoRule
      BY <2>2, <3>2 DEF SummarizeStep, MatchRingIsRecentSuffix
    <3>3. CASE p.rule # NoRule
      <4>1. p.rule \in Rules /\ p.id \in 1..MaxPackets
        BY <3>1, <3>3 DEF Packet
      <4>2. /\ matchHist' = [matchHist EXCEPT ![p.rule] = Append(@, p.id)]
            /\ crashed' = RingPanics(ring)
            /\ matchPackets' = [matchPackets EXCEPT
                                  ![p.rule] = IF RingPanics(ring)
                                                THEN ring
                                                ELSE RingCut(ring)]
        BY <2>2, <3>3 DEF SummarizeStep
      <4>3. CASE RingPanics(ring)
        BY <4>2, <4>3 DEF MatchRingIsRecentSuffix
      <4>4. CASE ~RingPanics(ring)
        <5> DEFINE n == MaxPacketCount - 1
                   h == matchHist[p.rule]
        <5>1. n \in Nat
          <6>1. Len(ring) \in Nat
            BY <4>1, AppendProperties, LenProperties DEF TypeOK
          <6>. QED BY <4>4, <6>1 DEF RingPanics
        <5>2. h \in Seq(1..MaxPackets) /\ matchPackets[p.rule] = LastN(h, n)
          BY <3>1, <4>1 DEF TypeOK, MatchRingIsRecentSuffix
        <5>3. matchPackets'[p.rule] = LastN(Append(h, p.id), n)
          <6>1. matchPackets'[p.rule] = RingCut(ring)
            BY <4>1, <4>2, <4>4 DEF TypeOK
          <6>2. RingCut(ring) = LastN(ring, n)
            BY RingCutIsLastN
          <6>3. LastN(ring, n) = LastN(Append(LastN(h, n), p.id), n)
            BY <5>2
          <6>4. LastN(Append(LastN(h, n), p.id), n) = LastN(Append(h, p.id), n)
            BY <4>1, <5>1, <5>2, LastNAppend
          <6>. QED BY <6>1, <6>2, <6>3, <6>4
        <5>4. matchHist'[p.rule] = Append(h, p.id)
          BY <4>1, <4>2 DEF TypeOK
        <5>5. ASSUME NEW r \in Rules, r # p.rule
              PROVE  matchPackets'[r] = LastN(matchHist'[r], n)
          BY <3>1, <4>2, <5>5 DEF TypeOK, MatchRingIsRecentSuffix
        <5>. QED BY <5>3, <5>4, <5>5 DEF MatchRingIsRecentSuffix
      <4>. QED BY <4>3, <4>4
    <3>. QED BY <3>2, <3>3
  <2>3. QED
    <3>1. AdvanceClock \/ HandlePacket \/ HandleBlackEvent \/ SummarizeStart
          \/ SummarizeEnd \/ (\E r \in Readers : ReadBegin(r) \/ ReadEnd(r))
          \/ UNCHANGED vars
          => UNCHANGED <<matchPackets, matchHist>>
             /\ (crashed' = crashed \/ crashed' = TRUE)
      BY DEF AdvanceClock, HandlePacket, HandleBlackEvent, SummarizeStart,
             SummarizeEnd, ReadBegin, ReadEnd, vars
    <3>. QED BY <2>1, <2>2, <3>1 DEF Next
<1>. QED BY <1>1, <1>2, TypeCorrect, PTL DEF Spec

-----------------------------------------------------------------------------
(* SummaryConservation is not inductive alone: summarizeData's swap        *)
(* (batch' = cachePacket) would lose a batch still being folded.  It is    *)
(* kept because the ticker case runs only from the select loop, after the  *)
(* previous fold has emptied its batch.                                    *)
ConsInv ==
  /\ aggPc = "idle" => batch = <<>>
  /\ SummaryConservation

(* Every packet handlePacket receives is counted exactly once, in          *)
(* sm.cachePacket, in the batch summarizeData is folding, or in            *)
(* ethTypeSummary, for every bound and every set of EtherTypes.            *)
THEOREM ConservationCorrect == Spec => []SummaryConservation
<1>1. Init => ConsInv
  <2> SUFFICES ASSUME Init, NEW e \in EthTypes
               PROVE  ethTypeSummary[e] + CountOf(cachePacket, e) + CountOf(batch, e)
                        = received[e]
    BY DEF ConsInv, SummaryConservation, Init
  <2>1. CountOf(<<>>, e) = 0
    BY CountEmpty
  <2>. QED BY <2>1 DEF Init
<1>2. TypeOK /\ ConsInv /\ [Next]_vars => ConsInv'
  <2> SUFFICES ASSUME TypeOK, ConsInv, [Next]_vars PROVE ConsInv'
    OBVIOUS
  <2> USE DEF TypeOK
  <2>1. CASE HandlePacket
    <3>1. PICK src \in Sources, ip \in IPKinds, eth \in EthTypes,
               rule \in Rules \cup {NoRule}, res \in GeoResults :
            LET p == [id |-> nextId + 1, src |-> src, eth |-> eth, rule |-> rule,
                      country |-> Enrich(ip, res)]
            IN /\ cachePacket' = Append(cachePacket, p)
               /\ received' = [received EXCEPT ![eth] = @ + 1]
      BY <2>1 DEF HandlePacket
    <3> DEFINE p == [id |-> nextId + 1, src |-> src, eth |-> eth, rule |-> rule,
                     country |-> Enrich(ip, res)]
    <3>2. cachePacket' = Append(cachePacket, p)
          /\ received' = [received EXCEPT ![eth] = @ + 1]
      BY <3>1
    <3>3. UNCHANGED <<aggPc, batch, ethTypeSummary>>
      BY <2>1 DEF HandlePacket
    <3>5. p \in Packet
      BY <2>1 DEF HandlePacket, Packet, Enrich, CountryNames, GeoResults
    <3>4. ASSUME NEW e \in EthTypes
          PROVE  ethTypeSummary'[e] + CountOf(cachePacket', e) + CountOf(batch', e)
                   = received'[e]
      <4>0. ethTypeSummary[e] + CountOf(cachePacket, e) + CountOf(batch, e) = received[e]
            /\ ethTypeSummary[e] \in Nat
        BY DEF ConsInv, SummaryConservation
      <4>1. CountOf(cachePacket', e) = CountOf(cachePacket, e) + (IF eth = e THEN 1 ELSE 0)
        BY <3>2, <3>5, CountAppend
      <4>2. received'[e] = received[e] + (IF eth = e THEN 1 ELSE 0)
        BY <3>2
      <4>3. CountOf(cachePacket, e) \in Nat /\ CountOf(batch, e) \in Nat
        BY CountType
      <4>4. ethTypeSummary' = ethTypeSummary /\ batch' = batch
        BY <3>3
      <4>. QED BY ONLY <4>0, <4>1, <4>2, <4>3, <4>4
    <3>. QED BY <3>3, <3>4 DEF ConsInv, SummaryConservation
  <2>2. CASE SummarizeStart
    <3>1. batch = <<>> /\ batch' = cachePacket /\ cachePacket' = <<>>
          /\ UNCHANGED <<ethTypeSummary, received>> /\ aggPc' = "fold"
      BY <2>2 DEF SummarizeStart, ConsInv
    <3>2. ASSUME NEW e \in EthTypes
          PROVE  ethTypeSummary'[e] + CountOf(cachePacket', e) + CountOf(batch', e)
                   = received'[e]
      <4>1. CountOf(<<>>, e) = 0 /\ CountOf(cachePacket, e) \in Nat
        BY CountEmpty, CountType
      <4>. QED BY <3>1, <4>1 DEF ConsInv, SummaryConservation
    <3>. QED BY <3>1, <3>2 DEF ConsInv, SummaryConservation
  <2>3. CASE SummarizeStep
    <3> DEFINE p == Head(batch)
    <3>1. aggPc = "fold" /\ batch # <<>> /\ p \in Packet
      BY <2>3, HeadTailProperties DEF SummarizeStep
    <3>2. /\ ethTypeSummary' = Bump(ethTypeSummary, p.eth)
          /\ batch' = Tail(batch)
          /\ UNCHANGED <<aggPc, cachePacket, received>>
      BY <2>3 DEF SummarizeStep
    <3>3. p.eth \in EthTypes /\ p.eth # Empty
      BY <3>1 DEF Packet
    <3>4. ASSUME NEW e \in EthTypes
          PROVE  ethTypeSummary'[e] + CountOf(cachePacket', e) + CountOf(batch', e)
                   = received'[e]
      <4>1. ethTypeSummary'[e] = ethTypeSummary[e] + (IF p.eth = e THEN 1 ELSE 0)
        BY <3>2, <3>3 DEF Bump
      <4>2. CountOf(batch, e) = CountOf(Tail(batch), e) + (IF p.eth = e THEN 1 ELSE 0)
        BY <3>1, CountTail
      <4>3. CountOf(cachePacket, e) \in Nat /\ CountOf(Tail(batch), e) \in Nat
        BY <3>1, HeadTailProperties, CountType
      <4>0. ethTypeSummary[e] + CountOf(cachePacket, e) + CountOf(batch, e) = received[e]
            /\ ethTypeSummary[e] \in Nat
        BY DEF ConsInv, SummaryConservation
      <4>4. batch' = Tail(batch) /\ cachePacket' = cachePacket /\ received' = received
        BY <3>2
      <4>. QED BY ONLY <4>0, <4>1, <4>2, <4>3, <4>4
    <3>. QED BY <3>1, <3>2, <3>4 DEF ConsInv, SummaryConservation
  <2>4. CASE SummarizeEnd
    BY <2>4 DEF SummarizeEnd, ConsInv, SummaryConservation
  <2>5. CASE AdvanceClock \/ HandleBlackEvent
             \/ (\E r \in Readers : ReadBegin(r) \/ ReadEnd(r))
             \/ UNCHANGED vars
    <3>1. UNCHANGED <<aggPc, batch, cachePacket, ethTypeSummary, received>>
      BY <2>5 DEF AdvanceClock, HandleBlackEvent, ReadBegin, ReadEnd, vars
    <3>. QED BY <3>1 DEF ConsInv, SummaryConservation
  <2>. QED BY <2>1, <2>2, <2>3, <2>4, <2>5 DEF Next
<1>. QED BY <1>1, <1>2, TypeCorrect, PTL DEF Spec, ConsInv
=============================================================================
