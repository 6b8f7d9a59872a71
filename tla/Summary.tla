------------------------------- MODULE Summary -------------------------------
(***************************************************************************)
(* The aggregation engine: SummaryManager in internal/ebpf/summary.go.     *)
(*                                                                         *)
(* One goroutine (processPackets) selects on the packet channel, the drop  *)
(* channel and the summary ticker.  A packet is geo-enriched and appended  *)
(* to cachePacket; on a tick the cache is swapped out under the mutex and  *)
(* then folded, one packet after the other and without the mutex, into the *)
(* summary maps, the per-source inputPackets table (with its eviction) and *)
(* the per-rule matchPackets ring.  The maps are handed out by reference   *)
(* (GetSummary, GetMatchList) to goroutines that serialise them while the  *)
(* fold goes on: those readers are modelled as Readers that are either     *)
(* idle or in the middle of reading.                                       *)
(*                                                                         *)
(* Data is abstracted: a packet is a record of the fields the folds tell   *)
(* apart; the rule it matches is an input (the matcher is in RuleMatch);   *)
(* Summary{Count,Size} is kept as its Count.                               *)
(***************************************************************************)
EXTENDS Naturals, Sequences, FiniteSets

CONSTANTS
  Sources,         \* source keys SrcMAC + "-" + SrcIP
  EthTypes,        \* EtherType names
  Rules,           \* rule names
  NoRule,          \* MatchPacket returned (false, "")
  Countries,       \* country names a GeoIP hit can return
  Readers,         \* goroutines that serialise the maps handed out
  GeoIP,           \* geoipDB != nil
  MaxPacketCount,  \* Config.MaxPacketCount
  SummaryTime,     \* Config.SummaryTime, seconds
  MaxTime,         \* bound on the clock (seconds)
  MaxPackets       \* bound on the packets the ingest delivers

(* The Go empty string "", as a country or summary key.                    *)
Empty == "empty"

ASSUME ConstAssumption ==
  /\ NoRule \notin Rules
  /\ GeoIP \in BOOLEAN
  /\ MaxPacketCount \in Nat
  /\ SummaryTime \in Nat \ {0}
  /\ MaxTime \in Nat
  /\ MaxPackets \in Nat
  /\ {Empty, "-", "LAN"} \cap Countries = {}
  /\ Empty \notin EthTypes   \* EthernetType.String never returns ""

VARIABLES
  now,             \* time.Now().Unix()
  lastTick,        \* time of the last summary tick
  aggPc,           \* "idle": in the select loop; "fold": inside summarizeData
  cachePacket,     \* sm.cachePacket
  batch,           \* the packets summarizeData swapped out and is folding
  ethTypeSummary,  \* sm.ethTypeSummary (Count per key)
  countrySummary,  \* sm.countrySummary (Count per key)
  inputPackets,    \* sm.inputPackets
  matchSummary,    \* sm.matchSummary (Count per rule)
  matchPackets,    \* sm.matchPackets (packet ids per rule)
  reading,         \* the readers currently iterating the maps
  crashed,         \* the process died on a runtime panic
  nextId,          \* history: packets delivered so far
  received,        \* history: packets delivered per EtherType
  matchHist        \* history: every packet id matched, per rule

vars == <<now, lastTick, aggPc, cachePacket, batch, ethTypeSummary,
          countrySummary, inputPackets, matchSummary, matchPackets, reading,
          crashed, nextId, received, matchHist>>

IPKinds == {"none", "local", "public"}   \* SrcIP empty, in localIPs, other
GeoResults == Countries \cup {"-", Empty}    \* a lookup: miss, or a name
CountryNames == Countries \cup {"-", Empty, "LAN"}

Packet == [id : 1..MaxPackets, src : Sources, eth : EthTypes,
           rule : Rules \cup {NoRule}, country : CountryNames]

InputPacket == [count : Nat, start : Nat, last : Nat, country : CountryNames]

-----------------------------------------------------------------------------
(* handlePacket lines 98-123: the country a packet is stamped with.        *)
Enrich(ip, res) ==
  IF ~GeoIP \/ ip = "none" THEN Empty
  ELSE IF ip = "local" THEN "LAN"
  ELSE res

(* Mutation: updateSummary without its key == "" return; the Go map write  *)
(* adds the key.                                                           *)
BumpNoSkip(m, key) ==
  [k \in DOMAIN m \cup {key} |->
     IF k = key THEN (IF k \in DOMAIN m THEN m[k] ELSE 0) + 1 ELSE m[k]]

(* updateSummary: an empty key is not counted.                             *)
Bump(m, key) == IF key = Empty THEN m ELSE [m EXCEPT ![key] = @ + 1]

(* updateInputPacket lines 221-245: the entry of the packet's source.      *)
Touched(p) ==
  LET old == IF p.src \in DOMAIN inputPackets
               THEN inputPackets[p.src]
               ELSE [count |-> 0, start |-> now, last |-> now,
                     country |-> p.country]
  IN [count |-> old.count + 1, start |-> old.start, last |-> now,
      country |-> IF p.country # Empty THEN p.country ELSE old.country]

(* The table after the packet's entry is written (line 283).               *)
Upserted(p) == [k \in DOMAIN inputPackets \cup {p.src} |->
                  IF k = p.src THEN Touched(p) ELSE inputPackets[k]]

(* Lines 286-302: the key evicted from table t, if any.  The scan keeps a  *)
(* key only when now - LastTime is strictly above the best so far, which   *)
(* starts at 0; map order is random, so any key of greatest age can win.   *)
Evictable(t) ==
  IF Cardinality(DOMAIN t) <= MaxPacketCount THEN {}
  ELSE {k \in DOMAIN t : /\ now - t[k].last > 0
                         /\ \A j \in DOMAIN t : t[j].last >= t[k].last}

Without(t, k) == [j \in DOMAIN t \ {k} |-> t[j]]

(* Mutation: the trim keeps MaxPacketCount packets, one too many.         *)
RingCutOffByOne(s) ==
  IF Len(s) > MaxPacketCount
    THEN SubSeq(s, Len(s) - MaxPacketCount + 1, Len(s))
    ELSE s

(* updateMatchSummary lines 316-322: the rule's ring after the append.     *)
(* It is cut to its last MaxPacketCount - 1 packets; with MaxPacketCount 0 *)
(* the slice start len+1 exceeds len and Go panics.                        *)
RingCut(s) ==
  IF Len(s) > MaxPacketCount - 1
    THEN SubSeq(s, Len(s) - MaxPacketCount + 2, Len(s))
    ELSE s

RingPanics(s) == Len(s) - MaxPacketCount + 1 > Len(s)

-----------------------------------------------------------------------------
Init ==
  /\ now = 0
  /\ lastTick = 0
  /\ aggPc = "idle"
  /\ cachePacket = <<>>
  /\ batch = <<>>
  /\ ethTypeSummary = [e \in EthTypes |-> 0]
  /\ countrySummary = [c \in CountryNames \ {Empty} |-> 0]
  /\ inputPackets = [k \in {} |-> 0]
  /\ matchSummary = [r \in Rules |-> 0]
  /\ matchPackets = [r \in Rules |-> <<>>]
  /\ reading = {}
  /\ crashed = FALSE
  /\ nextId = 0
  /\ received = [e \in EthTypes |-> 0]
  /\ matchHist = [r \in Rules |-> <<>>]

(* The clock advances; the ticker fires every SummaryTime seconds.         *)
AdvanceClock ==
  /\ ~crashed
  /\ now < MaxTime
  /\ now < lastTick + SummaryTime
  /\ now' = now + 1
  /\ UNCHANGED <<lastTick, aggPc, cachePacket, batch, ethTypeSummary,
                 countrySummary, inputPackets, matchSummary, matchPackets,
                 reading, crashed, nextId, received, matchHist>>

(* monitorEvents hands a decoded packet over the unbuffered packetChan and *)
(* processPackets runs handlePacket: enrich, append to cachePacket.        *)
HandlePacket ==
  /\ ~crashed
  /\ aggPc = "idle"
  /\ nextId < MaxPackets
  /\ \E src \in Sources, ip \in IPKinds, eth \in EthTypes,
        rule \in Rules \cup {NoRule}, res \in GeoResults :
       LET p == [id |-> nextId + 1, src |-> src, eth |-> eth, rule |-> rule,
                 country |-> Enrich(ip, res)]
       IN /\ cachePacket' = Append(cachePacket, p)
          /\ received' = [received EXCEPT ![eth] = @ + 1]
  /\ nextId' = nextId + 1
  /\ UNCHANGED <<now, lastTick, aggPc, batch, ethTypeSummary, countrySummary,
                 inputPackets, matchSummary, matchPackets, reading, crashed,
                 matchHist>>

(* handleBlackEvent: the kernel only sends IpVersion 0, 1 or 2, each with  *)
(* a non-empty key, and sm.blackSummary was never made: the write to the   *)
(* nil map panics and the process exits.                                   *)
HandleBlackEvent ==
  /\ ~crashed
  /\ aggPc = "idle"
  /\ crashed' = TRUE
  /\ UNCHANGED <<now, lastTick, aggPc, cachePacket, batch, ethTypeSummary,
                 countrySummary, inputPackets, matchSummary, matchPackets,
                 reading, nextId, received, matchHist>>

(* Mutation: the cache is read but not replaced by a fresh slice.         *)
SummarizeStartNoSwap ==
  /\ ~crashed
  /\ aggPc = "idle"
  /\ now = lastTick + SummaryTime
  /\ lastTick' = now
  /\ batch' = cachePacket
  /\ aggPc' = "fold"
  /\ UNCHANGED <<now, cachePacket, ethTypeSummary, countrySummary,
                 inputPackets, matchSummary, matchPackets, reading, crashed,
                 nextId, received, matchHist>>

(* summarizeData lines 170-173: swap the cache out under the mutex.        *)
SummarizeStart ==
  /\ ~crashed
  /\ aggPc = "idle"
  /\ now = lastTick + SummaryTime
  /\ lastTick' = now
  /\ batch' = cachePacket
  /\ cachePacket' = <<>>
  /\ aggPc' = "fold"
  /\ UNCHANGED <<now, ethTypeSummary, countrySummary, inputPackets,
                 matchSummary, matchPackets, reading, crashed, nextId,
                 received, matchHist>>

(* One iteration of the loop at lines 175-191, for the head of the batch:  *)
(* the summaries, updateInputPacket with its eviction, updateMatchSummary. *)
SummarizeStep ==
  /\ ~crashed
  /\ aggPc = "fold"
  /\ batch # <<>>
  /\ LET p == Head(batch)
         t == Upserted(p)
         ring == Append(matchPackets[p.rule], p.id)
     IN /\ ethTypeSummary' = Bump(ethTypeSummary, p.eth)
        /\ countrySummary' = Bump(countrySummary, p.country)
        /\ \/ /\ Evictable(t) = {}
              /\ inputPackets' = t
           \/ \E k \in Evictable(t) : inputPackets' = Without(t, k)
        /\ IF p.rule = NoRule
             THEN UNCHANGED <<matchSummary, matchPackets, matchHist, crashed>>
           ELSE /\ matchSummary' = [matchSummary EXCEPT ![p.rule] = @ + 1]
                /\ matchHist' = [matchHist EXCEPT ![p.rule] = Append(@, p.id)]
                /\ crashed' = RingPanics(ring)
                /\ matchPackets' = [matchPackets EXCEPT
                                      ![p.rule] = IF RingPanics(ring)
                                                    THEN ring
                                                    ELSE RingCut(ring)]
        /\ batch' = Tail(batch)
  /\ UNCHANGED <<now, lastTick, aggPc, cachePacket, reading, nextId, received>>

(* Lines 193-196: the batch is folded; broadcastSummary, when inputPackets *)
(* is non-empty, hands the maps by reference to the WebSocket server, one  *)
(* of the Readers.                                                         *)
SummarizeEnd ==
  /\ ~crashed
  /\ aggPc = "fold"
  /\ batch = <<>>
  /\ aggPc' = "idle"
  /\ UNCHANGED <<now, lastTick, cachePacket, batch, ethTypeSummary,
                 countrySummary, inputPackets, matchSummary, matchPackets,
                 reading, crashed, nextId, received, matchHist>>

(* A goroutine holding the maps from GetSummary or GetMatchList starts and *)
(* ends its walk over them (conn.WriteJSON, the filter loop); neither      *)
(* takes sm.mutex.                                                         *)
ReadBegin(r) ==
  /\ ~crashed
  /\ r \notin reading
  /\ reading' = reading \cup {r}
  /\ UNCHANGED <<now, lastTick, aggPc, cachePacket, batch, ethTypeSummary,
                 countrySummary, inputPackets, matchSummary, matchPackets,
                 crashed, nextId, received, matchHist>>

ReadEnd(r) ==
  /\ ~crashed
  /\ r \in reading
  /\ reading' = reading \ {r}
  /\ UNCHANGED <<now, lastTick, aggPc, cachePacket, batch, ethTypeSummary,
                 countrySummary, inputPackets, matchSummary, matchPackets,
                 crashed, nextId, received, matchHist>>

Next ==
  \/ AdvanceClock
  \/ HandlePacket
  \/ HandleBlackEvent
  \/ SummarizeStart
  \/ SummarizeStep
  \/ SummarizeEnd
  \/ \E r \in Readers : ReadBegin(r) \/ ReadEnd(r)

Spec == Init /\ [][Next]_vars

-----------------------------------------------------------------------------
(* Every variable has the shape the code gives it.                         *)
TypeOK ==
  /\ now \in 0..MaxTime
  /\ lastTick \in 0..MaxTime
  /\ aggPc \in {"idle", "fold"}
  /\ cachePacket \in Seq(Packet)
  /\ batch \in Seq(Packet)
  /\ ethTypeSummary \in [EthTypes -> Nat]
  /\ countrySummary \in [CountryNames \ {Empty} -> Nat]
  /\ DOMAIN inputPackets \subseteq Sources
  /\ \A k \in DOMAIN inputPackets : inputPackets[k] \in InputPacket
  /\ matchSummary \in [Rules -> Nat]
  /\ matchPackets \in [Rules -> Seq(1..MaxPackets)]
  /\ reading \subseteq Readers
  /\ crashed \in BOOLEAN
  /\ nextId \in 0..MaxPackets
  /\ received \in [EthTypes -> Nat]
  /\ matchHist \in [Rules -> Seq(1..MaxPackets)]

(* Spec section 8: every packet delivered to the aggregator is counted in  *)
(* ethTypeSummary exactly once, once a tick has folded it.  Breaks if the  *)
(* swap in summarizeData loses or re-folds packets.                        *)
CountOf(s, e) == Cardinality({i \in 1..Len(s) : s[i].eth = e})

SummaryConservation ==
  \A e \in EthTypes :
    ethTypeSummary[e] + CountOf(cachePacket, e) + CountOf(batch, e)
      = received[e]

(* While the process runs, the ring of a rule holds exactly the last       *)
(* MaxPacketCount - 1 packets the rule matched, oldest first, however many *)
(* ticks appended to it (updateMatchSummary's append and trim).            *)
LastN(s, n) == IF Len(s) <= n THEN s ELSE SubSeq(s, Len(s) - n + 1, Len(s))

MatchRingIsRecentSuffix ==
  ~crashed =>
    \A r \in Rules :
      matchPackets[r] = LastN(matchHist[r], MaxPacketCount - 1)

(* Spec section 3: the table of input packets never holds more than        *)
(* MaxPacketCount sources.                                                 *)
InputPacketsBounded == Cardinality(DOMAIN inputPackets) <= MaxPacketCount

(* No goroutine walks the summary maps while summarizeData writes them     *)
(* (Go aborts with "concurrent map iteration and map write").              *)
NoDataRace == ~(aggPc = "fold" /\ batch # <<>> /\ reading # {})
=============================================================================
