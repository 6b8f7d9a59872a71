--------------------------- MODULE BlacklistProofs ---------------------------
(***************************************************************************)
(* Theorems about the blacklist store and its synchronizer (module         *)
(* Blacklist), for every value of the constants.                           *)
(***************************************************************************)
EXTENDS Blacklist, SequenceTheorems, WellFoundedInduction, TLAPS

USE BlacklistAssumption

-----------------------------------------------------------------------------
(* Helpers on the list operations of UpdateBlackList.                      *)

(* SelectInSeq's Min of a non-empty set of indices is its least element.   *)
LEMMA MinIsLeast ==
  ASSUME NEW I \in SUBSET Nat, I # {}
  PROVE  Min(I) \in I /\ \A y \in I : Min(I) <= y
<1>1. \E x \in I : \A y \in I : ~(<<y, x>> \in OpToRel(<, Nat))
  BY NatLessThanWellFounded, WFMin
<1>2. \A x, y \in Nat : <<y, x>> \in OpToRel(<, Nat) <=> y < x
  BY DEF OpToRel
<1>3. \E x \in I : \A y \in I : x <= y
  <2>1. PICK x \in I : \A y \in I : ~(<<y, x>> \in OpToRel(<, Nat))
    BY <1>1
  <2>2. \A y \in I : ~(y < x)
    BY <2>1, <1>2
  <2>. QED BY <2>2
<1>. QED BY <1>3 DEF Min

(* RemoveStringFromSlice of an address that is listed drops exactly the    *)
(* first copy: the result is the list with index j cut out, where s[j] = a *)
(* is the first copy.                                                      *)
LEMMA RemoveFirstCut ==
  ASSUME NEW S, NEW s \in Seq(S), NEW a, \E i \in 1..Len(s) : s[i] = a
  PROVE  \E j \in 1..Len(s) :
            /\ s[j] = a
            /\ RemoveFirst(s, a) = SubSeq(s, 1, j - 1) \o SubSeq(s, j + 1, Len(s))
<1> DEFINE I == {i \in 1..Len(s) : s[i] = a}
<1>1. I \in SUBSET Nat /\ I # {}
  OBVIOUS
<1>2. Min(I) \in I
  BY <1>1, MinIsLeast
<1>3. RemoveFirst(s, a) = SubSeq(s, 1, Min(I) - 1) \o SubSeq(s, Min(I) + 1, Len(s))
  BY DEF RemoveFirst, RemoveAt, SelectInSeq
<1>. QED BY <1>2, <1>3

(* RemoveStringFromSlice keeps a list of addresses a list of addresses and *)
(* loses no address other than the one removed.                            *)
LEMMA RemoveFirstFacts ==
  ASSUME NEW S, NEW s \in Seq(S), NEW a
  PROVE  /\ RemoveFirst(s, a) \in Seq(S)
         /\ ToSet(s) \ {a} \subseteq ToSet(RemoveFirst(s, a))
<1>1. CASE ~\E i \in 1..Len(s) : s[i] = a
  BY <1>1 DEF RemoveFirst
<1>2. CASE \E i \in 1..Len(s) : s[i] = a
  <2>1. PICK j \in 1..Len(s) :
          /\ s[j] = a
          /\ RemoveFirst(s, a) = SubSeq(s, 1, j - 1) \o SubSeq(s, j + 1, Len(s))
    BY <1>2, RemoveFirstCut
  <2> USE <2>1
  <2> DEFINE u == SubSeq(s, 1, j - 1)
             v == SubSeq(s, j + 1, Len(s))
  <2>0. j \in Nat /\ Len(s) \in Nat /\ 1 <= j /\ j <= Len(s)
    BY LenProperties
  <2>2. \A q \in 1..Len(s) : s[q] \in S
    BY ElementOfSeq
  <2>3. /\ u \in Seq(S) /\ Len(u) = j - 1
        /\ \A q \in 1..j - 1 : u[q] = s[q]
    BY <2>2, SubSeqProperties
  <2>4. /\ v \in Seq(S) /\ Len(v) = Len(s) - j
        /\ \A q \in 1..Len(s) - j : v[q] = s[j + q]
    BY <2>2, SubSeqProperties
  <2> HIDE DEF u, v
  <2>5. /\ u \o v \in Seq(S) /\ Len(u \o v) = Len(s) - 1
        /\ \A q \in 1..Len(s) - 1 : (u \o v)[q] = IF q < j THEN s[q] ELSE s[q + 1]
    <3>1. /\ u \o v \in Seq(S) /\ Len(u \o v) = Len(u) + Len(v)
          /\ \A q \in 1..Len(u) + Len(v) :
                (u \o v)[q] = IF q <= Len(u) THEN u[q] ELSE v[q - Len(u)]
      BY <2>3, <2>4, ConcatProperties
    <3>2. Len(u) + Len(v) = Len(s) - 1
      BY <2>3, <2>4
    <3>3. ASSUME NEW q \in 1..Len(s) - 1
          PROVE  (u \o v)[q] = IF q < j THEN s[q] ELSE s[q + 1]
      <4>1. CASE q < j
        BY <3>1, <3>2, <4>1, <2>3
      <4>2. CASE q >= j
        <5>1. /\ q - Len(u) = (q + 1) - j /\ (q + 1) - j \in 1..Len(s) - j
              /\ j + ((q + 1) - j) = q + 1
          BY <2>0, <2>3, <4>2
        <5>2. (u \o v)[q] = v[(q + 1) - j]
          BY <3>1, <3>2, <2>0, <2>3, <4>2, <5>1
        <5>3. v[(q + 1) - j] = s[q + 1]
          BY <2>0, <2>4, <5>1
        <5>. QED BY <4>2, <5>2, <5>3
      <4>3. q < j \/ q >= j
        BY <2>0
      <4>. QED BY <4>1, <4>2, <4>3, Zenon
    <3>. QED BY <3>1, <3>2, <3>3
  <2>7. DOMAIN (u \o v) = 1..Len(s) - 1
    BY <2>5, LenProperties
  <2>6. ASSUME NEW n \in 1..Len(s), s[n] # a
        PROVE  s[n] \in ToSet(u \o v)
    <3>1. n # j
      BY <2>1, <2>6
    <3>2. CASE n < j
      <4>1. n \in DOMAIN (u \o v) /\ (u \o v)[n] = s[n]
        BY <2>5, <2>7, <3>2
      <4>. QED BY <4>1 DEF ToSet
    <3>3. CASE n > j
      <4>0. n - 1 \in 1..Len(s) - 1 /\ ~(n - 1 < j) /\ (n - 1) + 1 = n
        BY <2>0, <3>3
      <4>1. n - 1 \in DOMAIN (u \o v) /\ (u \o v)[n - 1] = s[n]
        BY <2>5, <2>7, <4>0
      <4>. QED BY <4>1 DEF ToSet
    <3>. QED BY <3>1, <3>2, <3>3
  <2>8. ToSet(s) \ {a} \subseteq ToSet(u \o v)
    <3> SUFFICES ASSUME NEW n \in 1..Len(s), s[n] # a
                 PROVE  s[n] \in ToSet(u \o v)
      BY LenProperties DEF ToSet
    <3>. QED BY <2>6
  <2>. QED BY <2>1, <2>5, <2>8 DEF u, v
<1>. QED BY <1>1, <1>2

(* UpdateBlackList keeps Config.Black a list of addresses.                 *)
LEMMA MutatedType ==
  ASSUME NEW s \in Seq(Addrs), NEW m \in Msg
  PROVE  Mutated(s, m) \in Seq(Addrs)
BY RemoveFirstFacts DEF Mutated, RemoveStringFromSlice, Msg

(* monitorBlackList keeps the kernel maps sets of addresses.               *)
LEMMA AppliedType ==
  ASSUME NEW k \in SUBSET Addrs, NEW m \in Msg
  PROVE  Applied(k, m) \in SUBSET Addrs
BY DEF Applied, Msg

-----------------------------------------------------------------------------
(* The type invariant, strengthened: a caller blocked in its send holds a  *)
(* real message (the one UpdateBlackList mutated the list with).           *)
TypeInv ==
  /\ TypeOK
  /\ \A c \in Callers : upc[c] = "send" => umsg[c] \in Msg

LEMMA TypeInvInit == Init => TypeInv
<1> SUFFICES ASSUME Init PROVE TypeInv
  OBVIOUS
<1>1. black \in Seq(Addrs) /\ saved \in Seq(Addrs) /\ ops \in 0..MaxOps
  BY DEF Init
<1>2. chan \in Seq(Msg) /\ Len(chan) <= BlackChanCap
  BY DEF Init, BlackChanCap
<1>3. upc \in [Callers -> {"idle", "send"}] /\ umsg \in [Callers -> Msg \cup {NoMsg}]
  BY DEF Init
<1>4. \A c \in Callers : upc[c] # "send"
  BY DEF Init
<1>. QED BY <1>1, <1>2, <1>3, <1>4 DEF Init, TypeInv, TypeOK

LEMMA TypeInvStep == TypeInv /\ [Next]_vars => TypeInv'
<1> SUFFICES ASSUME TypeInv, [Next]_vars PROVE TypeInv'
  OBVIOUS
<1> USE DEF TypeInv, TypeOK
<1>1. ASSUME NEW c \in Callers, UpdateBlackList(c) PROVE TypeInv'
  <2>1. PICK m \in Msg :
          /\ black' = Mutated(black, m)
          /\ \/ /\ saved' = black'
                /\ upc' = [upc EXCEPT ![c] = "send"]
                /\ umsg' = [umsg EXCEPT ![c] = m]
             \/ /\ SaveMayFail
                /\ UNCHANGED <<saved, upc, umsg>>
    BY <1>1 DEF UpdateBlackList
  <2>2. black' \in Seq(Addrs)
    BY <2>1, MutatedType
  <2>3. ops' \in 0..MaxOps
    BY <1>1 DEF UpdateBlackList
  <2>4. saved' \in Seq(Addrs)
    BY <2>1, <2>2
  <2>5. /\ upc' \in [Callers -> {"idle", "send"}]
        /\ umsg' \in [Callers -> Msg \cup {NoMsg}]
        /\ \A d \in Callers : upc'[d] = "send" => umsg'[d] \in Msg
    BY <2>1
  <2>. QED BY <1>1, <2>2, <2>3, <2>4, <2>5 DEF UpdateBlackList
<1>2. ASSUME NEW c \in Callers, SendBlack(c) PROVE TypeInv'
  <2>1. umsg[c] \in Msg /\ Len(chan) = 0
    BY <1>2 DEF SendBlack, BlackChanCap
  <2>2. chan' \in Seq(Msg) /\ Len(chan') <= BlackChanCap
    BY <1>2, <2>1, AppendProperties DEF SendBlack, BlackChanCap
  <2>. QED BY <1>2, <2>2 DEF SendBlack, NoMsg, Msg
<1>3. CASE MonitorBlackList
  <2>1. Head(chan) \in Msg /\ Tail(chan) \in Seq(Msg) /\ Len(Tail(chan)) <= Len(chan)
    BY <1>3, HeadTailProperties DEF MonitorBlackList
  <2>2. kernel' \in SUBSET Addrs
    BY <1>3, <2>1, AppliedType DEF MonitorBlackList
  <2>3. chan' \in Seq(Msg) /\ Len(chan') <= BlackChanCap
    BY <1>3, <2>1 DEF MonitorBlackList, BlackChanCap
  <2>. QED BY <1>3, <2>2, <2>3 DEF MonitorBlackList
<1>4. CASE MonitorBlackListExit
  BY <1>4 DEF MonitorBlackListExit
<1>5. CASE AppShutdown
  BY <1>5 DEF AppShutdown, EmShutdown
<1>6. CASE MainExit
  BY <1>6 DEF MainExit
<1>7. CASE EventsSelect
  BY <1>7 DEF EventsSelect
<1>8. CASE EventsRecord
  BY <1>8 DEF EventsRecord
<1>9. CASE EventsReadError
  BY <1>9 DEF EventsReadError, EmShutdown
<1>10. CASE UNCHANGED vars
  BY <1>10 DEF vars
<1>. QED BY <1>1, <1>2, <1>3, <1>4, <1>5, <1>6, <1>7, <1>8, <1>9, <1>10 DEF Next

(* Every state the daemon reaches has the shapes of TypeOK: the lists are  *)
(* lists of addresses, blackChannel never holds more than its one buffered *)
(* message, and the change_black count stays within its bound.             *)
THEOREM TypeCorrect == Spec => []TypeOK
<1>1. Spec => []TypeInv
  BY TypeInvInit, TypeInvStep, PTL DEF Spec
<1>. QED BY <1>1, PTL DEF TypeInv
=============================================================================
