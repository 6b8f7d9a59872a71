------------------------------ MODULE RuleMatch ------------------------------
(***************************************************************************)
(* The rule matcher of internal/processor/rule_matcher.go: the predicate   *)
(* compilers NewMatchRuleIP, NewMatchRulePort, NewMatchRuleMAC,            *)
(* NewMatchRuleEthType and NewMatchRuleIPProtocol, the IsMatch methods,    *)
(* MatchPacket's first-match walk, and ParseRules, run at startup by       *)
(* NewRuleMatcher on Config.Rules and by message.go handleSetRules, which  *)
(* then stores the rules in the config and saves it.                       *)
(*                                                                         *)
(* Data abstraction.  A text is a word and whether it is written in upper  *)
(* case: strings.ToUpper sets the flag of every word that has case         *)
(* (IPv4 literals, ISO codes, Chinese names and "-" have none).  An IP     *)
(* literal, a CIDR block or a MAC is a word the Go parser accepts or not.  *)
(* A port string is the list of tokens strings.Split leaves, each an      *)
(* integer strconv.Atoi returns or BadTok when Atoi fails.  A non-string  *)
(* port (YAML int, JSON float64, uint16, uint32) keeps its Go type.        *)
(***************************************************************************)
EXTENDS Naturals, Sequences, SequencesExt, FiniteSetsExt

CONSTANTS
  Caseless,     \* words strings.ToUpper leaves unchanged
  Addrs,        \* words net.ParseIP accepts
  NetOf,        \* CIDR words net.ParseCIDR accepts -> the addresses inside
  Macs,         \* words net.ParseMAC accepts (canonical form)
  EthTable,     \* enum.EthernetTypeMap: name -> EtherType
  ProtoTable,   \* enum.IPProtocolMap: name -> IP protocol
  Packets,      \* enriched packets the aggregator matches
  InitRules,    \* Config.Rules as loaded from the config file
  Payloads,     \* []types.Rule payloads of set_rules
  Callers,      \* client read loops running set_rules
  PayloadTyped, \* whether a set_rules payload passes the []types.Rule assertion
  SaveMayFail,  \* whether SaveConfig's os.WriteFile can fail
  MaxOps        \* bound on the set_rules calls

ASSUME RuleMatchAssumption ==
  /\ PayloadTyped \in BOOLEAN /\ SaveMayFail \in BOOLEAN /\ MaxOps \in Nat

(* The largest uint16, the type every port of the matcher is kept in.    *)
MaxPort == 65535

(* The raw rules the decoders can hand to ParseRules: the fields of        *)
(* types.Rule, an IP entry a parsed word, a port entry its Go type with    *)
(* the tokens of a string.  strings.Split leaves at least two tokens of a  *)
(* text that contains "-" (lines 103-106) and at least one of any text.    *)
RawIPEntry == [kind : STRING, not : BOOLEAN, t : [w : STRING, up : BOOLEAN]]
RawPortEntry ==
  {e \in [prov : STRING, sep : STRING, parts : Seq(Int), val : Int] :
     e.prov = "string" => Len(e.parts) >= IF e.sep = "-" THEN 2 ELSE 1}
RawRule ==
  [name : STRING, ip : Seq(RawIPEntry), port : Seq(RawPortEntry),
   mac : Seq(STRING), eth : Seq(STRING), proto : Seq(STRING)]

(* A packet's ports are the uint16 SrcPort and DstPort (types.go 56-57). *)
ASSUME RulesAssumption ==
  /\ InitRules \in Seq(RawRule) /\ Payloads \subseteq Seq(RawRule)
  /\ \A p \in Packets : {p.sport, p.dport} \subseteq 0..MaxPort

(* strconv.Atoi failed on the token.  Tokens are split on "-" first, so   *)
(* Atoi never sees a sign and every token it accepts is >= 0.             *)
BadTok == -1
Empty == [w |-> "", up |-> FALSE]
NoMatch == [matched |-> FALSE, name |-> ""]

Upper(t) == IF t.w \in Caseless THEN t ELSE [t EXCEPT !.up = TRUE]

(* port > 0 && port <= 65535 (rule_matcher.go 110, 121, 133, 139).        *)
PortOK(n) == n # BadTok /\ n > 0 /\ n <= MaxPort

-----------------------------------------------------------------------------
(* Compilation.  A constructor returns <<pred>>, or <<>> for nil; the      *)
(* loops of ParseRules keep the non-nil results in order.                  *)

(* NewMatchRuleIP: Type 3 GEOIP, 4 CITY, 2 CIDR, 1 literal; the whole      *)
(* entry is upper-cased first (line 22).                                   *)
NewMatchRuleIP(e) ==
  CASE e.kind = "geo"  -> <<[type |-> 3, not |-> e.not, t |-> Upper(e.t)]>>
    [] e.kind = "city" -> <<[type |-> 4, not |-> e.not, t |-> Upper(e.t)]>>
    [] e.kind = "cidr" /\ e.t.w \in DOMAIN NetOf ->
                          <<[type |-> 2, not |-> FALSE, t |-> e.t]>>
    [] e.kind = "ip" /\ e.t.w \in Addrs ->
                          <<[type |-> 1, not |-> FALSE, t |-> Upper(e.t)]>>
    [] OTHER -> <<>>

(* The loop of lines 115-124: each token Atoi accepts and PortOK admits   *)
(* is appended to ports, in order; the others are skipped.                 *)
PortList(parts) ==
  FlattenSeq([i \in DOMAIN parts |-> IF PortOK(parts[i]) THEN <<parts[i]>> ELSE <<>>])

PortPred(type, port, start, end, ports) ==
  [type |-> type, port |-> port, start |-> start, end |-> end, ports |-> ports]

(* Mutation: the range's end is not checked against 1..65535.             *)
NewMatchRulePortNoEndCheck(e) ==
  LET a == e.parts[1]
      b == e.parts[2]
      ok == PortList(e.parts)
  IN CASE e.prov = "string" /\ e.sep = "-" ->
            IF PortOK(a) /\ b # BadTok /\ a <= b
              THEN <<PortPred(2, 0, a, b, <<>>)>> ELSE <<>>
       [] e.prov = "string" /\ e.sep = "," ->
            IF Len(ok) > 0 THEN <<PortPred(1, 0, 0, 0, ok)>> ELSE <<>>
       [] e.prov = "string" /\ e.sep \notin {"-", ","} ->
            IF PortOK(a) THEN <<PortPred(0, a, 0, 0, <<>>)>> ELSE <<>>
       [] e.prov = "uint32" /\ PortOK(e.val) ->
            <<PortPred(0, e.val, 0, 0, <<>>)>>
       [] OTHER -> <<>>

(* NewMatchRulePort: the type switch on the decoded value; a string is a  *)
(* range if it contains "-", else a list if it contains ",", else a port. *)
(* The uint16 case has an empty body and, like every other type, is nil.  *)
NewMatchRulePort(e) ==
  LET a == e.parts[1]
      b == e.parts[2]
      ok == PortList(e.parts)
  IN CASE e.prov = "string" /\ e.sep = "-" ->
            IF PortOK(a) /\ PortOK(b) /\ a <= b
              THEN <<PortPred(2, 0, a, b, <<>>)>> ELSE <<>>
       [] e.prov = "string" /\ e.sep = "," ->
            IF Len(ok) > 0 THEN <<PortPred(1, 0, 0, 0, ok)>> ELSE <<>>
       [] e.prov = "string" /\ e.sep \notin {"-", ","} ->
            IF PortOK(a) THEN <<PortPred(0, a, 0, 0, <<>>)>> ELSE <<>>
       [] e.prov = "uint32" /\ PortOK(e.val) ->
            <<PortPred(0, e.val, 0, 0, <<>>)>>
       [] OTHER -> <<>>

NewMatchRuleMAC(m) == IF m \in Macs THEN <<m>> ELSE <<>>
NewMatchRuleEthType(n) == IF n \in DOMAIN EthTable THEN <<EthTable[n]>> ELSE <<>>
NewMatchRuleIPProtocol(n) ==
  IF n \in DOMAIN ProtoTable THEN <<ProtoTable[n]>> ELSE <<>>

(* The body of ParseRules' loop, lines 280-333: each field's entries are  *)
(* compiled in order and the nil results dropped.                          *)
CompileRule(r) ==
  [name  |-> r.name,
   ip    |-> FlattenSeq([i \in DOMAIN r.ip |-> NewMatchRuleIP(r.ip[i])]),
   port  |-> FlattenSeq([i \in DOMAIN r.port |-> NewMatchRulePort(r.port[i])]),
   mac   |-> FlattenSeq([i \in DOMAIN r.mac |-> NewMatchRuleMAC(r.mac[i])]),
   eth   |-> FlattenSeq([i \in DOMAIN r.eth |-> NewMatchRuleEthType(r.eth[i])]),
   proto |-> FlattenSeq([i \in DOMAIN r.proto |-> NewMatchRuleIPProtocol(r.proto[i])])]

CompileRules(rs) == [i \in DOMAIN rs |-> CompileRule(rs[i])]

-----------------------------------------------------------------------------
(* Matching.                                                               *)

(* Go's bool result of a match, inverted by a "!" predicate.               *)
Polarity(match, not) == IF not THEN ~match ELSE match

(* MatchRuleIP.IsMatch: a CIDR tests SrcIP when it is set, else DstIP;     *)
(* GEOIP and CITY never match a packet without a code or a city.           *)
IPIsMatch(m, p) ==
  CASE m.type = 1 -> m.t = p.src \/ m.t = p.dst
    [] m.type = 2 -> IF p.src # Empty THEN p.src.w \in NetOf[m.t.w]
                     ELSE p.dst # Empty /\ p.dst.w \in NetOf[m.t.w]
    [] m.type = 3 -> p.code # Empty /\ Polarity(m.t = Upper(p.code), m.not)
    [] m.type = 4 -> p.city # Empty /\ Polarity(m.t = p.city, m.not)

(* MatchRulePort.IsMatch.                                                  *)
PortIsMatch(m, port) ==
  CASE m.type = 0 -> m.port = port
    [] m.type = 1 -> \E i \in DOMAIN m.ports : m.ports[i] = port
    [] m.type = 2 -> port >= m.start /\ port <= m.end

(* MatchRule.IsMatch: any predicate of any field, lines 219-256.  A MAC   *)
(* is compared after IsMatchIgnoreFormat strips the colons and lowers the  *)
(* case of the packet's net.HardwareAddr string: the canonical word.       *)
RuleIsMatch(r, p) ==
  \/ \E i \in DOMAIN r.ip : IPIsMatch(r.ip[i], p)
  \/ \E i \in DOMAIN r.port :
       PortIsMatch(r.port[i], p.sport) \/ PortIsMatch(r.port[i], p.dport)
  \/ \E i \in DOMAIN r.mac : r.mac[i] \in {p.smac, p.dmac}
  \/ \E i \in DOMAIN r.eth : r.eth[i] = p.eth
  \/ \E i \in DOMAIN r.proto : r.proto[i] = p.proto

(* RuleMatcher.MatchPacket: the first rule, in order, that matches.        *)
MatchPacket(rs, p) ==
  LET walk[i \in 1..Len(rs) + 1] ==
        IF i > Len(rs) THEN NoMatch
        ELSE IF RuleIsMatch(rs[i], p) THEN [matched |-> TRUE, name |-> rs[i].name]
        ELSE walk[i + 1]
  IN walk[1]

-----------------------------------------------------------------------------
VARIABLES
  rules,     \* rm.rules, the compiled rules MatchPacket walks
  oldRules,  \* rm.oldRules, what get_rules returns
  cfgRules,  \* cm.Config.Rules in memory
  saved,     \* the rules in the config file
  pc,        \* per caller: "idle", "parsed" (rm.rules stored), "commit"
  arg,       \* per caller: the payload of its set_rules
  ops        \* set_rules calls so far

vars == <<rules, oldRules, cfgRules, saved, pc, arg, ops>>

(* main.go:73, NewRuleMatcher(configManager.Config.Rules).                 *)
Init ==
  /\ rules = CompileRules(InitRules)
  /\ oldRules = InitRules
  /\ cfgRules = InitRules
  /\ saved = InitRules
  /\ pc = [c \in Callers |-> "idle"]
  /\ arg = [c \in Callers |-> <<>>]
  /\ ops = 0

(* handleSetRules passes a non-nil []types.Rule to ParseRules, which       *)
(* compiles it and stores rm.rules (line 336).  A nil or untyped payload   *)
(* returns an error and changes nothing.                                   *)
ParseRulesStore(c, d) ==
  /\ PayloadTyped
  /\ pc[c] = "idle"
  /\ ops < MaxOps
  /\ rules' = CompileRules(d)
  /\ pc' = [pc EXCEPT ![c] = "parsed"]
  /\ arg' = [arg EXCEPT ![c] = d]
  /\ ops' = ops + 1
  /\ UNCHANGED <<oldRules, cfgRules, saved>>

(* ParseRules stores rm.oldRules and returns len(list) (lines 337-338);    *)
(* handleSetRules replies "no rules parsed" when that is 0 (line 100).     *)
ParseRulesOld(c) ==
  /\ pc[c] = "parsed"
  /\ oldRules' = arg[c]
  /\ pc' = [pc EXCEPT ![c] = IF Len(arg[c]) > 0 THEN "commit" ELSE "idle"]
  /\ UNCHANGED <<rules, cfgRules, saved, arg, ops>>

(* Config.Rules = data, then SaveConfig writes the whole config, or fails  *)
(* and the error is the reply (message.go 92-97).                          *)
CommitRules(c) ==
  /\ pc[c] = "commit"
  /\ cfgRules' = arg[c]
  /\ \/ saved' = arg[c]
     \/ SaveMayFail /\ UNCHANGED saved
  /\ pc' = [pc EXCEPT ![c] = "idle"]
  /\ UNCHANGED <<rules, oldRules, arg, ops>>

Next ==
  \E c \in Callers :
    \/ \E d \in Payloads : ParseRulesStore(c, d)
    \/ ParseRulesOld(c)
    \/ CommitRules(c)

Spec == Init /\ [][Next]_vars

-----------------------------------------------------------------------------
(* Properties.                                                             *)

IPPred == [type : 1..4, not : BOOLEAN, t : [w : STRING, up : BOOLEAN]]
PortPreds ==
  {m \in [type : 0..2, port : 0..MaxPort, start : 0..MaxPort, end : 0..MaxPort,
          ports : Seq(1..MaxPort)] :
     m.type = 2 => 0 < m.start /\ m.start <= m.end}

(* Every compiled predicate is one the matcher can evaluate: a port        *)
(* predicate fits the uint16 the code converts it to, and a range is not   *)
(* empty.                                                                  *)
TypeOK ==
  /\ \A i \in DOMAIN rules :
       /\ \A j \in DOMAIN rules[i].ip : rules[i].ip[j] \in IPPred
       /\ \A j \in DOMAIN rules[i].port : rules[i].port[j] \in PortPreds
  /\ pc \in [Callers -> {"idle", "parsed", "commit"}]
  /\ ops \in 0..MaxOps

(* The reading of a rule list as a first-match table: the first rule, in  *)
(* order, for which Holds is true, or no rule.                             *)
FirstHolding(rs, p, Holds(_, _)) ==
  LET hits == {i \in DOMAIN rs : Holds(rs[i], p)}
  IN IF hits = {} THEN NoMatch ELSE [matched |-> TRUE, name |-> rs[Min(hits)].name]

(* Rules written in the config file or sent by set_rules match packets as *)
(* section 4.1 says: CITY and IP literals compare the text as given, a     *)
(* port range is exactly two numbers, a numeric port (section 9) counts    *)
(* like its string, and ill-formed entries are discarded.                  *)
SpecPorts(e) ==
  LET a == e.parts[1]
      b == e.parts[2]
  IN CASE e.prov # "string" -> IF PortOK(e.val) THEN {e.val} ELSE {}
       [] e.prov = "string" /\ e.sep = "-" ->
            IF Len(e.parts) = 2 /\ PortOK(a) /\ PortOK(b) THEN a .. b ELSE {}
       [] e.prov = "string" /\ e.sep = "," -> {x \in ToSet(e.parts) : PortOK(x)}
       [] OTHER -> IF PortOK(a) THEN {a} ELSE {}
SpecEntryHolds(e, p) ==
  LET target == IF p.src # Empty THEN p.src ELSE p.dst
  IN CASE e.kind = "geo" -> p.code # Empty /\ ((Upper(e.t) = Upper(p.code)) # e.not)
       [] e.kind = "city" -> p.city # Empty /\ ((e.t = p.city) # e.not)
       [] e.kind = "cidr" -> /\ e.t.w \in DOMAIN NetOf /\ target # Empty
                            /\ target.w \in NetOf[e.t.w]
       [] e.kind = "ip" -> e.t.w \in Addrs /\ e.t \in {p.src, p.dst}
       [] OTHER -> FALSE
SpecRawRuleHolds(r, p) ==
  \/ \E e \in ToSet(r.ip) : SpecEntryHolds(e, p)
  \/ \E e \in ToSet(r.port) : {p.sport, p.dport} \cap SpecPorts(e) # {}
  \/ {p.smac, p.dmac} \cap ToSet(r.mac) \cap Macs # {}
  \/ \E n \in ToSet(r.eth) \cap DOMAIN EthTable : EthTable[n] = p.eth
  \/ \E n \in ToSet(r.proto) \cap DOMAIN ProtoTable : ProtoTable[n] = p.proto

RuleMatchAsSpecified ==
  (\A c \in Callers : pc[c] = "idle") =>
    \A p \in Packets :
      MatchPacket(rules, p) = FirstHolding(oldRules, p, SpecRawRuleHolds)

=============================================================================
