--------------------------- MODULE RuleMatchProofs ---------------------------
(***************************************************************************)
(* Theorems about the rule matcher's state (module RuleMatch), for every   *)
(* rule set in the config file, every set of payloads and every bound.     *)
(***************************************************************************)
EXTENDS RuleMatch, SequenceTheorems, WellFoundedInduction, TLAPS

USE RuleMatchAssumption

(* The uint16 bound is kept by name: the provers are handed 1..MaxPort,   *)
(* never the 65536 numbers of 1..65535.                                    *)
LEMMA MaxPortPositive == MaxPort \in Nat \ {0}
BY DEF MaxPort
USE MaxPortPositive

-----------------------------------------------------------------------------
(* Every compiled predicate is one the matcher can evaluate.  ParseRules  *)
(* drops the nil results of the constructors by flattening, so the facts  *)
(* needed are what FlattenSeq returns, proved by least counterexample on  *)
(* the recursive function it is built from.                               *)

(* Every non-empty set of naturals has a least element.                   *)
LEMMA NatLeast ==
  ASSUME NEW I \in SUBSET Nat, I # {}
  PROVE  \E m \in I : \A y \in I : m <= y
<1>1. \E x \in I : \A y \in I : ~(<<y, x>> \in OpToRel(<, Nat))
  BY NatLessThanWellFounded, WFMin
<1>2. \A x, y \in Nat : <<y, x>> \in OpToRel(<, Nat) <=> y < x
  BY DEF OpToRel
<1>3. PICK x \in I : \A y \in I : ~(<<y, x>> \in OpToRel(<, Nat))
  BY <1>1
<1>4. \A y \in I : ~(y < x)
  BY <1>2, <1>3
<1>. QED BY <1>4

(* Flattening a sequence of sequences over X gives a sequence over X: the *)
(* concatenation ParseRules' loops make of the constructors' results.     *)
LEMMA FlattenType ==
  ASSUME NEW X, NEW seqs \in Seq(Seq(X))
  PROVE  FlattenSeq(seqs) \in Seq(X)
<1>0. Len(seqs) \in Nat
  BY LenProperties
<1>1. CASE Len(seqs) = 0
  <2>1. seqs = <<>>
    BY <1>1, EmptySeq
  <2>. QED BY <1>1, <2>1, EmptySeq DEF FlattenSeq
<1>2. CASE Len(seqs) > 0
  <2> DEFINE n == Len(seqs)
             Body(f) == [i \in 1..n |-> IF i = 1 THEN seqs[i] ELSE f[i-1] \o seqs[i]]
             fl == CHOOSE f : f = Body(f)
             Eqn(g, m) == \A i \in 1..m : g[i] = IF i = 1 THEN seqs[i] ELSE g[i-1] \o seqs[i]
             P(m) == \E g \in [1..m -> Seq(X)] : Eqn(g, m)
             Bad == {k \in 1..n : ~P(k)}
  <2>0. n \in Nat /\ n >= 1 /\ \A i \in 1..n : seqs[i] \in Seq(X)
    BY <1>0, <1>2
  <2>1. FlattenSeq(seqs) = fl[n]
    BY <1>2 DEF FlattenSeq
  <2> HIDE DEF fl, Body, P, Eqn, Bad
  <2>2. \A m \in 1..n : P(m)
    <3> SUFFICES ASSUME Bad # {} PROVE FALSE
      BY Zenon DEF Bad
    <3>0. Bad \subseteq 1..n
      BY Zenon DEF Bad
    <3>1. PICK m \in Bad : \A y \in Bad : m <= y
      BY <2>0, <3>0, NatLeast
    <3>2. m \in 1..n /\ ~P(m)
      BY <3>1, Zenon DEF Bad
    <3>3. ASSUME NEW y \in 1..m-1 PROVE P(y)
      <4>1. y \in 1..n /\ y < m
        BY <2>0, <3>2
      <4>2. ~P(y) => y \in Bad
        BY <4>1, Zenon DEF Bad
      <4>. QED BY <3>1, <3>2, <4>1, <4>2
    <3>4. CASE m = 1
      <4> DEFINE g1 == [i \in 1..1 |-> seqs[1]]
      <4>1. g1 \in [1..1 -> Seq(X)]
        BY <2>0
      <4>2. Eqn(g1, 1)
        BY DEF Eqn
      <4>. QED BY <3>2, <3>4, <4>1, <4>2 DEF P
    <3>5. CASE m # 1
      <4>0. m \in 2..n /\ m - 1 \in 1..m-1
        BY <3>2, <3>5, <2>0
      <4>1. P(m - 1)
        BY <3>3, <4>0
      <4>2. PICK g \in [1..m-1 -> Seq(X)] : Eqn(g, m - 1)
        BY <4>1 DEF P
      <4>3. g[m-1] \in Seq(X) /\ seqs[m] \in Seq(X) /\ g[m-1] \o seqs[m] \in Seq(X)
        BY <4>0, <2>0, ConcatProperties
      <4>7. PICK t \in Seq(X) : t = g[m-1] \o seqs[m]
        BY <4>3
      <4> DEFINE h == [i \in 1..m |-> IF i < m THEN g[i] ELSE t]
      <4>4. h \in [1..m -> Seq(X)]
        BY <4>0, <4>3
      <4>5. ASSUME NEW i \in 1..m
            PROVE  h[i] = IF i = 1 THEN seqs[i] ELSE h[i-1] \o seqs[i]
        <5>1. CASE i < m
          <6>1. h[i] = g[i] /\ (i # 1 => h[i-1] = g[i-1])
            BY <4>0, <5>1
          <6>0. i \in 1..m-1
            BY <4>0, <5>1
          <6>2. g[i] = IF i = 1 THEN seqs[i] ELSE g[i-1] \o seqs[i]
            BY <6>0, <4>2, Zenon DEF Eqn
          <6>. QED BY <6>1, <6>2
        <5>2. CASE i = m
          <6>1. h[i] = t /\ h[m-1] = g[m-1]
            BY <4>0, <5>2
          <6>. QED BY <4>0, <4>7, <5>2, <6>1
        <5>. QED BY <4>0, <5>1, <5>2
      <4>6. Eqn(h, m)
        BY <4>5 DEF Eqn
      <4>. QED BY <3>2, <4>4, <4>6 DEF P
    <3>. QED BY <3>4, <3>5
  <2>3. \E f : f = Body(f)
    <3>0. P(n)
      BY <2>0, <2>2
    <3>1. PICK g \in [1..n -> Seq(X)] : Eqn(g, n)
      BY <3>0 DEF P
    <3>2. g = Body(g)
      BY <2>0, <3>1 DEF Body, Eqn
    <3>. QED BY <3>2
  <2>4. fl = Body(fl)
    BY <2>3 DEF fl
  <2>6. \A i \in 1..n : fl[i] = IF i = 1 THEN seqs[i] ELSE fl[i-1] \o seqs[i]
    BY <2>4 DEF Body
  <2>5. \A i \in 1..n : fl[i] \in Seq(X)
    <3> DEFINE Bad2 == {i \in 1..n : fl[i] \notin Seq(X)}
    <3> SUFFICES ASSUME Bad2 # {} PROVE FALSE
      OBVIOUS
    <3> HIDE DEF Bad2
    <3>0. Bad2 \subseteq 1..n
      BY DEF Bad2
    <3>1. PICK m \in Bad2 : \A y \in Bad2 : m <= y
      BY <2>0, <3>0, NatLeast
    <3>2. m \in 1..n /\ fl[m] \notin Seq(X)
      BY <3>1 DEF Bad2
    <3>3. fl[m] = IF m = 1 THEN seqs[m] ELSE fl[m-1] \o seqs[m]
      BY <2>6, <3>2
    <3>4. CASE m = 1
      BY <2>0, <3>2, <3>3, <3>4
    <3>5. CASE m # 1
      <4>1. m - 1 \in 1..n /\ m - 1 < m
        BY <3>2, <3>5, <2>0
      <4>2. m - 1 \notin Bad2
        BY <3>1, <3>2, <4>1
      <4>3. fl[m-1] \in Seq(X)
        BY <4>1, <4>2 DEF Bad2
      <4>. QED BY <2>0, <3>2, <3>3, <3>5, <4>1, <4>3, ConcatProperties
    <3>. QED BY <3>4, <3>5
  <2>. QED BY <2>0, <2>1, <2>5
<1>. QED BY <1>0, <1>1, <1>2

(* A function on 1..n is a sequence.                                      *)
LEMMA FunIsSeq ==
  ASSUME NEW T, NEW n \in Nat, NEW f \in [1..n -> T]
  PROVE  f \in Seq(T)
OBVIOUS

(* The ports of a list text are each in 1..MaxPort (lines 115-124).     *)
LEMMA PortListType ==
  ASSUME NEW parts \in Seq(Int)
  PROVE  PortList(parts) \in Seq(1..MaxPort)
<1> DEFINE seqs == [i \in DOMAIN parts |-> IF PortOK(parts[i]) THEN <<parts[i]>> ELSE <<>>]
<1>1. seqs \in Seq(Seq(1..MaxPort))
  <2>1. ASSUME NEW i \in DOMAIN parts, PortOK(parts[i])
        PROVE  parts[i] \in 1..MaxPort
    BY <2>1 DEF PortOK, BadTok
  <2>2. ASSUME NEW i \in DOMAIN parts
        PROVE  (IF PortOK(parts[i]) THEN <<parts[i]>> ELSE <<>>) \in Seq(1..MaxPort)
    <3>1. CASE PortOK(parts[i])
      <4>1. parts[i] \in 1..MaxPort
        BY <2>1, <3>1
      <4>. QED BY <3>1, <4>1
    <3>2. CASE ~PortOK(parts[i])
      BY <3>2
    <3>. QED BY <3>1, <3>2
  <2>3. seqs \in [1..Len(parts) -> Seq(1..MaxPort)]
    BY <2>2
  <2>. QED BY <2>3, FunIsSeq
<1>. QED BY <1>1, FlattenType DEF PortList

(* NewMatchRuleIP returns nil or a predicate of types 1-4 over a word.     *)
LEMMA IPCompiledType ==
  ASSUME NEW e \in RawIPEntry
  PROVE  NewMatchRuleIP(e) \in Seq(IPPred)
<1>1. Upper(e.t) \in [w : STRING, up : BOOLEAN] /\ e.t \in [w : STRING, up : BOOLEAN]
  <2>1. e.t \in [w : STRING, up : BOOLEAN]
    BY DEF RawIPEntry
  <2>3. [e.t EXCEPT !.up = TRUE] \in [w : STRING, up : BOOLEAN]
    BY <2>1, Zenon
  <2>. QED BY <2>1, <2>3 DEF Upper
<1>2. /\ <<[type |-> 3, not |-> e.not, t |-> Upper(e.t)]>> \in Seq(IPPred)
      /\ <<[type |-> 4, not |-> e.not, t |-> Upper(e.t)]>> \in Seq(IPPred)
      /\ <<[type |-> 2, not |-> FALSE, t |-> e.t]>> \in Seq(IPPred)
      /\ <<[type |-> 1, not |-> FALSE, t |-> Upper(e.t)]>> \in Seq(IPPred)
      /\ <<>> \in Seq(IPPred)
  BY <1>1 DEF RawIPEntry, IPPred
<1>. QED BY <1>2 DEF NewMatchRuleIP

(* NewMatchRulePort returns nil or a predicate whose ports fit a uint16,  *)
(* and a range it returns is not empty.                                   *)
LEMMA PortCompiledType ==
  ASSUME NEW e \in RawPortEntry
  PROVE  NewMatchRulePort(e) \in Seq(PortPreds)
<1> DEFINE a == e.parts[1]
           b == e.parts[2]
<1>0. /\ \A x \in PortPreds : <<x>> \in Seq(PortPreds)
      /\ <<>> \in Seq(PortPreds)
  OBVIOUS
<1>1. /\ e.parts \in Seq(Int) /\ e.val \in Int
      /\ e.prov = "string" => Len(e.parts) >= IF e.sep = "-" THEN 2 ELSE 1
  BY DEF RawPortEntry
<1>6. "-" # "," /\ "string" # "uint32"
  OBVIOUS
<1>2. CASE e.prov = "string" /\ e.sep = "-"
  <2>1. a \in Int /\ b \in Int
    BY <1>1, <1>2 DEF RawPortEntry
  <2>2. PortOK(a) /\ PortOK(b) /\ a <= b => PortPred(2, 0, a, b, <<>>) \in PortPreds
    BY <2>1 DEF PortOK, BadTok, PortPred, PortPreds
  <2>3. NewMatchRulePort(e) = IF PortOK(a) /\ PortOK(b) /\ a <= b
                                THEN <<PortPred(2, 0, a, b, <<>>)>> ELSE <<>>
    BY <1>2, <1>6, Zenon DEF NewMatchRulePort
  <2>. QED BY <1>0, <2>2, <2>3
<1>3. CASE e.prov = "string" /\ e.sep # "-" /\ e.sep = ","
  <2>1. PortList(e.parts) \in Seq(1..MaxPort)
    BY <1>1, PortListType
  <2>2. Len(PortList(e.parts)) > 0 => PortPred(1, 0, 0, 0, PortList(e.parts)) \in PortPreds
    BY <2>1 DEF PortPred, PortPreds
  <2>3. NewMatchRulePort(e) = IF Len(PortList(e.parts)) > 0
                                THEN <<PortPred(1, 0, 0, 0, PortList(e.parts))>> ELSE <<>>
    BY <1>3, <1>6, Zenon DEF NewMatchRulePort
  <2>. QED BY <1>0, <2>2, <2>3
<1>4. CASE e.prov = "string" /\ e.sep \notin {"-", ","}
  <2>a. e.prov = "string" /\ e.sep # "-"
    BY <1>4, Zenon
  <2>0. Len(e.parts) >= 1
    BY <1>1, <2>a
  <2>1. a \in Int
    BY <1>1, <2>0
  <2>2. PortOK(a) => PortPred(0, a, 0, 0, <<>>) \in PortPreds
    BY <2>1 DEF PortOK, BadTok, PortPred, PortPreds
  <2>3. NewMatchRulePort(e) = IF PortOK(a) THEN <<PortPred(0, a, 0, 0, <<>>)>> ELSE <<>>
    BY <1>4, <1>6, Zenon DEF NewMatchRulePort
  <2>. QED BY <1>0, <2>2, <2>3
<1>5. CASE e.prov # "string"
  <2>1. PortOK(e.val) => PortPred(0, e.val, 0, 0, <<>>) \in PortPreds
    BY <1>1 DEF PortOK, BadTok, PortPred, PortPreds
  <2>2. NewMatchRulePort(e) = IF e.prov = "uint32" /\ PortOK(e.val)
                                THEN <<PortPred(0, e.val, 0, 0, <<>>)>> ELSE <<>>
    BY <1>5, <1>6, Zenon DEF NewMatchRulePort
  <2>. QED BY <1>0, <2>1, <2>2
<1>. QED BY <1>2, <1>3, <1>4, <1>5, Zenon

(* The loops of ParseRules (lines 280-333) keep only such predicates.      *)
LEMMA RuleCompiledType ==
  ASSUME NEW r \in RawRule
  PROVE  /\ CompileRule(r).ip \in Seq(IPPred)
         /\ CompileRule(r).port \in Seq(PortPreds)
<1>1. [i \in DOMAIN r.ip |-> NewMatchRuleIP(r.ip[i])] \in Seq(Seq(IPPred))
  <2>1. r.ip \in Seq(RawIPEntry)
    BY DEF RawRule
  <2>2. \A i \in DOMAIN r.ip : NewMatchRuleIP(r.ip[i]) \in Seq(IPPred)
    BY <2>1, IPCompiledType
  <2>. QED BY <2>1, <2>2
<1>2. [i \in DOMAIN r.port |-> NewMatchRulePort(r.port[i])] \in Seq(Seq(PortPreds))
  <2>1. r.port \in Seq(RawPortEntry)
    BY DEF RawRule
  <2>2. \A i \in DOMAIN r.port : NewMatchRulePort(r.port[i]) \in Seq(PortPreds)
    BY <2>1, PortCompiledType
  <2>. QED BY <2>1, <2>2
<1>. QED BY <1>1, <1>2, FlattenType DEF CompileRule

(* rm.rules is always the compilation of some raw rule list: the config    *)
(* file's at startup, then a set_rules payload's.                          *)
TypeInv ==
  /\ \E rs \in Seq(RawRule) : rules = CompileRules(rs)
  /\ pc \in [Callers -> {"idle", "parsed", "commit"}]
  /\ ops \in 0..MaxOps

LEMMA TypeInvInit == Init => TypeInv
<1> SUFFICES ASSUME Init PROVE TypeInv
  OBVIOUS
<1>1. InitRules \in Seq(RawRule) /\ rules = CompileRules(InitRules)
  BY RulesAssumption DEF Init
<1>2. pc \in [Callers -> {"idle", "parsed", "commit"}] /\ ops \in 0..MaxOps
  BY DEF Init
<1>. QED BY <1>1, <1>2 DEF TypeInv

LEMMA TypeInvStep == TypeInv /\ [Next]_vars => TypeInv'
<1> SUFFICES ASSUME TypeInv, [Next]_vars PROVE TypeInv'
  OBVIOUS
<1>1. ASSUME NEW c \in Callers, NEW d \in Payloads, ParseRulesStore(c, d)
      PROVE  TypeInv'
  <2>1. d \in Seq(RawRule)
    BY RulesAssumption, Zenon DEF RulesAssumption
  <2>. QED BY <1>1, <2>1 DEF ParseRulesStore, TypeInv
<1>2. ASSUME NEW c \in Callers, ParseRulesOld(c) PROVE TypeInv'
  BY <1>2 DEF ParseRulesOld, TypeInv
<1>3. ASSUME NEW c \in Callers, CommitRules(c) PROVE TypeInv'
  BY <1>3 DEF CommitRules, TypeInv
<1>4. CASE UNCHANGED vars
  BY <1>4 DEF vars, TypeInv
<1>. QED BY <1>1, <1>2, <1>3, <1>4 DEF Next

(* Every predicate the matcher walks, whichever rule set the config file  *)
(* held and whatever set_rules payloads arrive, is one the IsMatch methods *)
(* can evaluate: a port predicate fits the uint16 NewMatchRulePort converts *)
(* it to and a range is not empty; and the callers' phases and the call   *)
(* count keep their types.                                                 *)
THEOREM TypeCorrect == Spec => []TypeOK
<1>1. Init => TypeInv
  BY TypeInvInit
<1>2. TypeInv => TypeOK
  <2> SUFFICES ASSUME TypeInv PROVE TypeOK
    OBVIOUS
  <2>1. PICK rs \in Seq(RawRule) : rules = CompileRules(rs)
    BY DEF TypeInv
  <2>2. ASSUME NEW i \in DOMAIN rules
        PROVE  /\ \A j \in DOMAIN rules[i].ip : rules[i].ip[j] \in IPPred
               /\ \A j \in DOMAIN rules[i].port : rules[i].port[j] \in PortPreds
    <3>1. rs[i] \in RawRule /\ rules[i] = CompileRule(rs[i])
      BY <2>1, <2>2 DEF CompileRules
    <3>. QED BY <3>1, RuleCompiledType
  <2>. QED BY <2>2 DEF TypeInv, TypeOK
<1>. QED BY <1>1, <1>2, TypeInvStep, PTL DEF Spec

-----------------------------------------------------------------------------
(* The first-match walk of MatchPacket, for every list of compiled rules. *)

(* The least of a set of integers is the element no other is below.        *)
LEMMA MinIs ==
  ASSUME NEW T \in SUBSET Int, NEW i \in T, \A y \in T : i <= y
  PROVE  Min(T) = i
<1>1. \E x \in T : \A y \in T : x <= y
  OBVIOUS
<1>2. Min(T) \in T /\ \A y \in T : Min(T) <= y
  BY <1>1, Zenon DEF Min
<1>3. Min(T) <= i /\ i <= Min(T) /\ Min(T) \in Int
  BY <1>2, Zenon
<1>. QED BY <1>3

(* MatchPacket's loop (rule_matcher.go 258-270) tries the rules in order   *)
(* and returns at the first whose IsMatch holds: for every list of rules   *)
(* and every packet it names the rule of least index among those that      *)
(* match, and reports no match when none does.                             *)
THEOREM MatchPacketIsFirstMatch ==
  ASSUME NEW S, NEW rs \in Seq(S), NEW p
  PROVE  MatchPacket(rs, p) = FirstHolding(rs, p, RuleIsMatch)
<1> DEFINE n == Len(rs)
           M(i) == RuleIsMatch(rs[i], p)
           Hits(i) == {j \in i..n : M(j)}
           First(i) == IF Hits(i) = {} THEN NoMatch
                       ELSE [matched |-> TRUE, name |-> rs[Min(Hits(i))].name]
           w0 == [i \in 1..n + 1 |-> First(i)]
           Body(f) == [i \in 1..n + 1 |->
                         IF i > n THEN NoMatch
                         ELSE IF M(i) THEN [matched |-> TRUE, name |-> rs[i].name]
                         ELSE f[i + 1]]
           wk == CHOOSE f : f = Body(f)
<1>0. n \in Nat /\ DOMAIN rs = 1..n
  OBVIOUS
<1>1. MatchPacket(rs, p) = wk[1]
  BY DEF MatchPacket
<1>2. FirstHolding(rs, p, RuleIsMatch) = First(1)
  BY <1>0 DEF FirstHolding
<1> HIDE DEF wk, Hits, First, w0, Body
<1>3. w0 = Body(w0)
  <2>1. ASSUME NEW i \in 1..n + 1
        PROVE  First(i) = IF i > n THEN NoMatch
                          ELSE IF M(i) THEN [matched |-> TRUE, name |-> rs[i].name]
                          ELSE First(i + 1)
    <3>1. CASE i > n
      <4>1. Hits(i) = {}
        BY <1>0, <3>1 DEF Hits
      <4>. QED BY <3>1, <4>1 DEF First
    <3>2. CASE i <= n /\ M(i)
      <4>1. Hits(i) \subseteq Int /\ i \in Hits(i) /\ \A y \in Hits(i) : i <= y
        BY <1>0, <3>2 DEF Hits
      <4>2. Min(Hits(i)) = i
        BY <4>1, MinIs
      <4>. QED BY <3>2, <4>1, <4>2 DEF First
    <3>3. CASE i <= n /\ ~M(i)
      <4>1. Hits(i) = Hits(i + 1)
        BY <1>0, <3>3 DEF Hits
      <4>. QED BY <3>3, <4>1 DEF First
    <3>. QED BY <3>1, <3>2, <3>3
  <2>2. \A i \in 1..n + 1 : i <= n => i + 1 \in 1..n + 1
    BY <1>0
  <2>. QED BY <2>1, <2>2 DEF w0, Body
<1>4. wk = Body(wk)
  BY <1>3 DEF wk
<1>5. \A i \in 1..n + 1 : wk[i] = w0[i]
  <2> DEFINE Bad == {k \in 0..n : wk[n + 1 - k] # w0[n + 1 - k]}
  <2> SUFFICES ASSUME Bad # {} PROVE FALSE
    <3>1. \A i \in 1..n + 1 : n + 1 - i \in 0..n /\ n + 1 - (n + 1 - i) = i
      BY <1>0
    <3>. QED BY <3>1
  <2> HIDE DEF Bad
  <2>0. Bad \subseteq Nat
    BY <1>0 DEF Bad
  <2>1. PICK k \in Bad : \A y \in Bad : k <= y
    BY <2>0, NatLeast
  <2>2. k \in 0..n /\ wk[n + 1 - k] # w0[n + 1 - k]
    BY <2>1 DEF Bad
  <2>3. CASE k = 0
    <3>1. wk[n + 1] = NoMatch /\ w0[n + 1] = NoMatch
      BY <1>0, <1>3, <1>4 DEF Body
    <3>. QED BY <2>2, <2>3, <3>1
  <2>4. CASE k # 0
    <3> DEFINE i == n + 1 - k
    <3>1. i \in 1..n /\ i + 1 = n + 1 - (k - 1) /\ k - 1 \in 0..n /\ k - 1 < k
      BY <1>0, <2>2, <2>4
    <3>2. wk[i + 1] = w0[i + 1]
      <4>1. k - 1 \notin Bad
        BY <2>1, <2>2, <3>1
      <4>. QED BY <3>1, <4>1 DEF Bad
    <3>5. ASSUME NEW f
          PROVE  Body(f)[i] = IF M(i) THEN [matched |-> TRUE, name |-> rs[i].name]
                              ELSE f[i + 1]
      <4>1. i \in 1..n + 1 /\ ~(i > n)
        BY <1>0, <3>1
      <4>. QED BY <4>1 DEF Body
    <3>3. wk[i] = IF M(i) THEN [matched |-> TRUE, name |-> rs[i].name] ELSE wk[i + 1]
      BY <1>4, <3>5
    <3>4. w0[i] = IF M(i) THEN [matched |-> TRUE, name |-> rs[i].name] ELSE w0[i + 1]
      BY <1>3, <3>5
    <3>. QED BY <2>2, <3>2, <3>3, <3>4
  <2>. QED BY <2>3, <2>4
<1>. QED BY <1>0, <1>1, <1>2, <1>5 DEF w0
====
