# TLA+ models of the ebpf-firewall control plane

This directory holds TLA+ models of the userspace side of `src/ebpf-firewall`. That side is a Go daemon. It receives per-packet and per-drop events from an XDP program, aggregates them, keeps the kernel blacklist maps in step with its configuration, and streams state to dashboards over WebSocket.

It contains:

- the modules;
- the TLC configurations that check them;
- TLAPS proofs for the aggregation engine;
- `PROJECT.json`, the machine-readable index of components, runs, mutants, the definition-to-source map, findings and hazards.

## 1. The system

### Components and their state

| Component | Code | State it owns |
|---|---|---|
| Event ingest | `internal/ebpf/ebpf.go` `monitorEvents`, `monitorBlackEvents` | perf readers; blocks sending on `packetChan`/`blackChan` |
| Aggregation engine | `internal/ebpf/summary.go` `SummaryManager` | `cachePacket`, nine summary maps, `inputPackets` (LRU by source), `matchPackets` (a ring per rule), `blackSummary`, `mutex` |
| Rule matcher | `internal/processor/rule_matcher.go` | compiled `rules` |
| Config store | `internal/config/config.go` | `Config` (including `Black`), the config file, the capacity-1 `blackChannel` |
| Blacklist synchronizer | `ebpf.go` `monitorBlackList` | the three kernel maps `MacBlacklist`, `Ipv4Blacklist`, `Ipv6Blacklist` |
| Broadcast server | `internal/websocket/websocket.go`, `message.go` | `manager.Clients`, the `Register`, `Unregister` and `Broadcast` channels, one `readPump` per connection |
| Supervisor | `main.go`, `EBPFManager.Start`/`Shutdown` | `isRunning`, `shutdownChannel`, the XDP link |

### Goroutines and operations

- **Ingest.** `monitorEvents` reads a perf record, decodes it and sends it on the unbuffered `packetChan`. `monitorBlackEvents` does the same for drop events. When the packet reader reports `perf.ErrClosed`, `monitorEvents` calls `Shutdown` and then `Start` again.
- **Aggregation.** `processPackets` selects on the packet channel, the drop channel, the summary ticker and shutdown.
  - `handlePacket` geo-enriches a packet and appends it to `cachePacket`.
  - `handleBlackEvent` increments `blackSummary`.
  - On a tick, `summarizeData` swaps the cache out under the mutex and then, without it, folds every packet into the summaries, into `inputPackets` (with eviction) and into the per-rule match ring.
  - If `inputPackets` is non-empty, it then broadcasts.
  - `GetSummary` and `GetMatchList` return or walk these maps from other goroutines.
- **Blacklist.** `change_black` runs `UpdateBlackList` in a client's read loop. It validates the address, appends it or removes its first copy, saves the config, then sends the delta on `blackChannel`. `monitorBlackList` turns each delta into a `Put` or a `Delete` on a kernel map.
- **Broadcast.** The `run` loop owns `manager.Clients`:
  - it registers and unregisters connections;
  - it writes each broadcast to every client with `ReceiveBroadcast` set;
  - every 30 s it drops clients idle for more than 60 s;
  - it returns on shutdown.

  Each `readPump` reads requests, passes them to `Handle` and writes the reply. After more than 10 consecutive read errors it breaks and sends on `Unregister`.
- **Supervisor.** On interrupt, `Application.Shutdown` runs `em.Shutdown` and then `wsServer.Shutdown`, and `main` returns.

### The hard behaviours

- Interleavings of the fold with map readers, of concurrent `change_black` calls, of broadcast writes with reply writes, and of the housekeeping tick with read loops.
- The swap of `cachePacket`.
- The eviction at the `MaxPacketCount` limit and the ring trim arithmetic.
- Failures between steps: a save that fails after the list changed.
- Lifecycle: restart with fresh kernel maps, and a second `Shutdown` from the ingest loop.
- Blocking channel sends that must eventually be received.
- The first drop event, which panics on the never-allocated `blackSummary` (spec section 9 records this). `HandleBlackEvent` models the panic, and no run is spent on it.

## 2. Modules

| Module | Models | Checked by |
|---|---|---|
| `Summary` | `SummaryManager`: `handlePacket`, `handleBlackEvent`, `summarizeData` (one action to swap, one per folded packet, one to end), the map readers | `MCSummary` |
| `SummaryProofs` | TLAPS proofs about `Summary` | `tlapm` |
| `BlacklistProofs` | TLAPS proofs about `Blacklist`: types, for any number of callers | `tlapm` |
| `BlacklistSync` | the abstract promise of the blacklist synchronizer: an in-order channel of insert/delete deltas applied to the kernel maps | refined by `Blacklist` in `MCBlacklist` |
| `Blacklist` | `UpdateBlackList`, `blackChannel`, `monitorBlackList`, `EBPFManager.Start`/`Shutdown`, `monitorEvents`' read loop, the interrupt handler | `MCBlacklist` |
| `RuleMatch` | the predicate compilers, the `IsMatch` methods, `MatchPacket`, `NewRuleMatcher`, `ParseRules` and the rest of `handleSetRules` | `MCRuleMatch` |
| `WebSocket` | the `run` loop, `HandleWebSocket`, `readPump`, `Handle`'s effect on the client record, `BroadcastSummary`, `Shutdown` | `MCWebSocket` |
| `WebSocketProofs` | TLAPS proofs about `WebSocket`: types, including `readPump`'s error bound | `tlapm` |
| `RuleMatchProofs` | TLAPS proofs about `RuleMatch`: types of the compiled predicates, and `MatchPacket`'s walk against the least matching index | `tlapm` |

`PROJECT.json` `map` names, for every definition that models code, the file and lines it translates.

### Summary

**Data abstraction.** A packet is a record of the fields the fold distinguishes: id, source key, EtherType, matched rule and country. The rule matcher is not in this module, so the matched rule is an input, chosen when the packet arrives. A `types.Summary` is kept as its count.

**Summary maps.** The country and EtherType summaries stand for all five `updateSummary` maps. The omitted ones (city, IP protocol, day, port) follow the same code path.

**Geo enrichment.** `Enrich` maps the three cases of `handlePacket` onto a country:

- no GeoIP database or an empty source IP gives the empty string, which `updateSummary` skips;
- a local IP gives "LAN";
- otherwise the lookup result, which can be "-" or a name.

**Eviction.** `Evictable` translates the eviction loop. The entry with the largest `now - LastTime` is deleted, but only if that age is `> 0`. Ties between entries of equal age are a nondeterministic choice, because Go map iteration order is unspecified.

**Match ring.** `RingCut` is the slice at line 321, and `RingPanics` is its out-of-range case. When `MaxPacketCount = 0` the slice panics.

**Readers.** A reader is a goroutine walking the shared maps, and `reading` is the set of readers inside a walk. `ReadBegin` is `GetSummary` handing the live maps out. `ReadEnd` is only the end of the walk, such as the range over `sm.matchPackets` at line 346. `GetMatchList`'s filter, sort and page are not modelled.

**History variables.** `received` counts the packets delivered per EtherType. `matchHist` records every packet matched per rule. Properties are stated against them.

### Blacklist

**Data abstraction.** Addresses are model values. The MAC, IPv4 and IPv6 lists and maps are disjoint by kind, so one list and one set stand for all three. Validation is not modelled, because an invalid address returns before anything changes. `RemoveStringFromSlice` is SequencesExt's `RemoveFirst`.

**Operations.** `UpdateBlackList` mutates the list and then saves. A save either succeeds or, when `SaveMayFail`, fails and returns. `SendBlack` is the channel send, which blocks while the channel holds its one message.

**Start.** `Init` is the state after `Start`: the kernel maps are fresh and empty, whatever the config lists.

**Shutdown and the ErrClosed path.** `EmShutdown` is `em.Shutdown`. Closing an already closed channel sets `crashed`. `EventsReadError` is the `perf.ErrClosed` branch. Whether the error compares equal to the sentinel depends on the cilium/ebpf version, so `ErrClosedMatches` chooses.

**Refinement.** `BlacklistSync` states what the synchronizer promises, with no list, no save and no capacity. Each `change_black` emits a delta `[inc, data]` onto an unbounded FIFO. The synchronizer applies the oldest delta to the kernel set, unless the maps are already closed. Shutdown empties the kernel set. `Blacklist` implements it through `Sync == INSTANCE BlacklistSync WITH pending <- Pending, stopped <- ~loaded, InitListed <- ToSet(InitBlack)`, and `SyncRefined == Sync!Spec` is a `PROPERTY` of `blacklist_sync`:
- `Pending` is the channel's contents followed by the message of every caller blocked in its send. Those callers have already mutated `Config.Black`, so their delta is emitted in the abstract sense.
- The send is the `Emit` step.
- The receive that applies a delta is `Consume`.
- `EmShutdown` is `Stop`.
- Every other step stutters.

The refinement holds for one caller starting from an empty list. It fails for two callers, checked by hand with `Callers <- MCTwoCallers`: two blocked senders enter `Pending` in `SetToSeq` order, but the runtime may wake either first, so the kernel applies deltas out of the order the mapping gave them. This is the same race that `blacklist_two_callers` shows through `KernelBlocksOnlyListed`. It also fails for a non-empty start list, because `Start` leaves the kernel maps empty while the abstract `Init` has them hold the list. The list is kept out of the abstract spec on purpose: the spec's set semantics for the list already disagree with the code on duplicates.

### RuleMatch

**Data abstraction.** A string is abstracted to a word and a flag saying whether it is written in upper case. `strings.ToUpper` sets the flag of every word that has case; IPv4 literals, ISO codes, Chinese names and `-` have none. The Go parsers (`net.ParseIP`, `net.ParseCIDR`, `net.ParseMAC`) and the name tables become the sets of words they accept. A CIDR block is the set of addresses inside it. A port string is the list of tokens `strings.Split` leaves, each the integer `strconv.Atoi` returns or `BadTok` when it fails. A non-string port (a YAML `int`, a JSON `float64`, a `uint16`, a `uint32`) keeps its Go type, because the type switch decides on it.

**Compilation.** Each `NewMatchRule...` constructor returns `<<pred>>` or `<<>>` for `nil`, and `CompileRule` keeps the non-nil results in order (a `FlattenSeq`), as the loops of `ParseRules` do. `PortList` is the loop that gathers the ports of a list text (lines 115-124), written the same way. The guards of `NewMatchRulePort`'s `CASE` are disjoint, as in the code's `if`/`else if` chain. A TLA+ `CASE` whose guards overlap may take any true arm, not the first. `MaxPort` names 65535, the largest `uint16`. `MatchPacket` is the first-match walk, written as a recursive function over the rule index.

**Inputs.** `RulesAssumption` says what the decoders can hand to `ParseRules`:
- the config's rules and every payload are lists of `RawRule`, the fields of `types.Rule`;
- a port text is split into at least two tokens when it contains `-` and into at least one otherwise, as `strings.Split` does;
- a packet's ports are `uint16`s.

TLC checks the assumption on every `MCRuleMatch` run.

**State.** `rules` and `oldRules` are the two fields `ParseRules` stores one after the other (lines 336-337). `cfgRules` and `saved` are `Config.Rules` and the file. `Init` is `NewRuleMatcher(Config.Rules)` at startup. `ParseRulesStore`, `ParseRulesOld` and `CommitRules` are `handleSetRules`: compile and store, store the raw list and count, then write the config and save it, which may fail. `PayloadTyped` says whether a `set_rules` payload passes the `[]types.Rule` assertion. In the deployed daemon it never does (section 5), so the pass run sets it to `TRUE` to explore the handler as the spec describes it.

**References.** `FirstHolding(rs, p, Holds)` reads a rule list as a first-match table: the rule of least index for which `Holds` is true. `RuleMatchAsSpecified` compares the compiled matcher with `SpecRawRuleHolds`, which reads the raw config entries as section 4.1 and the port note of section 9 describe them.

### WebSocket

**Time.** Time is counted in units of 30 s, the housekeeping period, so "idle > 60 s" becomes `IdleLimit = 2` units.

**The read loop.** `loc` is `readPump`'s local copy of the client record (line 139). `Handle` works on that copy: `PumpMessage` stamps it and applies `change_broadcast_status` to it, and the map entry the `run` loop reads never sees either change. `PumpReply` is the write of the callback.

**Read errors.** `PumpReadError` is the error path. An unexpected close code breaks at once, and any other error breaks after `MaxReadErrors = 10` consecutive errors.

**History variable.** `active` records when the client last sent a request.

## 3. Runs

### Pass runs

| Run | Properties | What it shows |
|---|---|---|
| `summary_fold` | `TypeOK`, `SummaryConservation`, `MatchRingIsRecentSuffix` | every delivered packet is counted exactly once across cache, batch and summary; each ring is the last `MaxPacketCount - 1` matches |
| `blacklist_sync` | `TypeOK`, `KernelBlocksOnlyListed`, `UpdateEventuallyReturns`, `SyncRefined` | with one client and successful saves, the kernel never blocks an unlisted address once deltas are applied, every send returns, and the code implements `BlacklistSync` |
| `websocket_pumps` | `TypeOK`, `PumpEventuallyExits` | `readPump`'s error count stays within its bound; every read loop whose connection closes ends, including when housekeeping or a failed broadcast removed it first |
| `rule_match` | `TypeOK` | with two concurrent `set_rules` callers, every compiled port predicate fits a `uint16` and every range is non-empty |

### Violation runs

Each violation run checks one property, and each one is a finding in `PROJECT.json`.

| Run | Property | What TLC finds |
|---|---|---|
| `summary_lru_bound` | `InputPacketsBounded` | three sources in one second leave three entries with `MaxPacketCount = 2` (strict `> 0` age test) |
| `summary_map_race` | `NoDataRace` | a map reader is inside its walk while the fold writes |
| `blacklist_two_callers` | `KernelBlocksOnlyListed` | two unlocked `change_black` calls send in the opposite order to their mutations |
| `blacklist_start_unloaded` | `ListedAreBlocked` | an address in the config file at start is not in the kernel |
| `lifecycle_double_close` | `NoShutdownPanic` | the ErrClosed path closes the closed shutdown channel |
| `websocket_evicts_active` | `EvictsOnlyIdle` | a client that sent a request recently is dropped, because `LastTime` is stamped on a copy; the same copy makes `change_broadcast_status` ineffective |
| `websocket_concurrent_write` | `NoConcurrentWrite` | a broadcast write and a reply write on one connection overlap |
| `rule_city_case` | `RuleMatchAsSpecified` | in the initial state of the deployed daemon, the config rule `CITY:Beijing` compiles to `BEIJING` and does not match a packet GeoIP places in `Beijing` |

`RuleMatchAsSpecified` also fails when the config holds any of these instead of the CITY rule (checked by hand, with no run kept):

- an IPv6 literal, which is upper-cased and never equals `net.IP.String`'s lower case;
- a numeric port: YAML gives an `int` and JSON a `float64`, the type switch has a case for neither, and its `uint16` case is empty;
- the range `1-2-3`, which is accepted as `1-2`.

Three more findings are not kept as runs. Two are in the `Blacklist` model. They are left out because of the limit of twelve runs and because `change_black` cannot reach `UpdateBlackList` in the deployed daemon. Setting `SaveMayFail = TRUE` makes `KernelBlocksOnlyListed` fail: a removal whose save fails never reaches the kernel. With one caller and an empty initial list, `ListedAreBlocked` fails on add, add, remove: the address is still listed and no longer blocked.

The third is in `RuleMatch`, with two `set_rules` callers. `ParseRules` stores `rm.rules` and `rm.oldRules` one after the other with no lock. One caller's store of `rm.rules` can therefore be followed by the other caller's store of `rm.oldRules`. After that, `get_rules` returns a list that the matcher does not walk, although the spec says the compiled rule set is rebuilt atomically on `set_rules`. `rule_match` explores these interleavings for `TypeOK` only. `set_rules` cannot reach `ParseRules` in the deployed daemon, and the budget of runs is spent.

### Mutants

Every property of a pass run has a mutant in `PROJECT.json`. A mutant is a plausible bug in a mapped definition that TLC must catch:

| Mutant | Property it breaks |
|---|---|
| the cache is not reset at the swap | `SummaryConservation` |
| the ring is trimmed one too late | `MatchRingIsRecentSuffix` |
| the empty-key guard of `updateSummary` is dropped | `Summary` `TypeOK` |
| `Put` for every delta | `KernelBlocksOnlyListed` |
| the channel capacity is ignored | `Blacklist` `TypeOK` |
| the synchronizer never receives | `UpdateEventuallyReturns` |
| `SendBlack` sends every delta as an insert | `SyncRefined` |
| only listed connections are unregistered | `PumpEventuallyExits` |
| no error limit in the read loop | `WebSocket` `TypeOK` |
| a port range's end is not checked against 65535 | `RuleMatch` `TypeOK` |

### Bounds

**Summary.** The instance has three sources, one EtherType, one rule, one country, one reader, `MaxPacketCount = 2`, `SummaryTime = 1`, `MaxTime = 3` and `MaxPackets = 4` (545,510 states). With three sources against a limit of 2, eviction happens. Four packets over three ticks give folds that span several packets and rings that wrap (`MaxPacketCount - 1 = 1`).

**Blacklist.** The instance has two addresses, one or two callers and `MaxOps = 3`. Three operations are the fewest that show add, add, remove. Two callers show every reordering of two deltas.

**RuleMatch.** The instance has five packets and ten rules:

- the packets are a LAN source, a source in Beijing, ARP with no IP, IPv6, and a source with no GeoIP database;
- the rules cover every predicate form, each valid and invalid: GEOIP with negation, CITY, CIDR, literal, range, list, single, out-of-range and numeric ports, MAC, EtherType and protocol names.

The pass run has two callers and `MaxOps = 4` (2,360 states). That is enough for both callers to be inside `handleSetRules` at once, and for each of the three payloads, including the empty one, to be installed. Deadlock is not checked, because the daemon does stop changing its rules once no client sends `set_rules`.

**WebSocket.**

- The pass run has one connection, with `MaxTime = 3` and `MaxMsgs = 2`. The liveness property is per connection, and with two connections the error loop (0..11 per connection) makes the state space too large for the liveness check.
- The violation runs use two connections.
- `MaxTime = 3` units is 90 s, long enough for a 60 s eviction to happen.

### Fairness

Fairness is only used in the liveness runs.

- **Blacklist.** Weak fairness applies to the sender's channel send, the synchronizer's receive and main's exit, because these are runnable goroutines. The operator's interrupt and the clients' requests get none.
- **WebSocket.** The `run` loop's `select` picks uniformly at random among ready cases. A case that is enabled again and again is therefore taken with probability 1. This is why `Register`, `Unregister` and the broadcast receive have strong fairness. The read loops and the broadcast writes have weak fairness. Peers, the clock, client requests and shutdown get none.

## 4. Proofs

`SummaryProofs` (checked by `tlapm SummaryProofs.tla`) proves three theorems for all values of the constants under `ConstAssumption`:

- **`TypeCorrect`: `Spec => []TypeOK`.** `TypeOK` is inductive by itself. The proof has one step per action. The matched-rule case of `SummarizeStep` is split into its `IF` branches. It rests on the lemmas `RingCutType`, `TouchedType` and `UpsertedType`.
- **`MatchRingCorrect`: `Spec => []MatchRingIsRecentSuffix`.** The property says that, while no panic has happened, every rule's ring equals `LastN(matchHist[r], MaxPacketCount - 1)`.

  It is not inductive alone, because the step needs the types of the ring and the history. The inductive invariant is `TypeOK /\ MatchRingIsRecentSuffix`. `TypeOK` comes from `TypeCorrect`.

  The step case rests on two lemmas:
  - `RingCutIsLastN`: the code's slice at line 321 is the last `MaxPacketCount - 1` elements.
  - `LastNAppend`: `LastN(Append(LastN(s, n), x), n) = LastN(Append(s, x), n)`. Trimming before appending loses nothing.

  `SuffixProperties` gives the length and elements of a suffix. When `MaxPacketCount = 0` the slice panics (`RingPanics`) and `crashed` becomes true, which discharges the case.
- **`ConservationCorrect`: `Spec => []SummaryConservation`.** For every EtherType, the summary's count plus the packets of that type in `cachePacket` and in the batch being folded equals the packets received. `CountOf(s, e)` is the number of indices of `s` whose packet has type `e`, so it needs no recursion. The lemmas `CountEmpty`, `CountAppend` and `CountTail` give its value on `<<>>`, after `Append` and after dropping the head. They rest on `FS_Bijection`, since the index sets before and after are in bijection. The property is not inductive alone. `SummarizeStart` overwrites `batch` with the cache, which preserves the count only if the batch it replaces is empty, so the step needs `aggPc = "idle" => batch = <<>>`. That fact holds because `SummarizeEnd` returns to idle only once the batch is empty. The inductive invariant `ConsInv` is that fact with the property, and `TypeOK` comes from `TypeCorrect`. The steps are as follows:
  - `HandlePacket` appends to the cache and increments `received`.
  - `SummarizeStart` moves the cache into the batch.
  - `SummarizeStep` moves the batch's head into the summary count.

  The last of these uses the assumption `Empty \notin EthTypes`: `EthernetType.String` never returns `""`, so a packet's type is always counted.
`BlacklistProofs` (checked by `tlapm BlacklistProofs.tla`) proves one theorem under `BlacklistAssumption`:

- **`TypeCorrect`: `Spec => []TypeOK`**, for any set of callers. `TypeOK` is not inductive alone. `SendBlack` appends the sender's `umsg`, and `TypeOK` only says that this is a `Msg` or `NoMsg`. The inductive invariant `TypeInv` adds that a caller blocked in its send holds a real `Msg`. The bound `Len(chan) <= 1` follows from the send's guard. The proof has one step per action. The list operations rest on the lemmas `MutatedType` and `RemoveFirstFacts`.
`KernelBlocksOnlyListed` and `SyncRefined` are not proved. They hold only with one caller whose saves succeed, and `SyncRefined` also needs an empty start list. The code justifies none of these conditions. Two callers break both properties (`blacklist_two_callers`), a failed save breaks `KernelBlocksOnlyListed`, and a non-empty start list breaks `SyncRefined`. So they stay what the `blacklist_sync` run observes on its stated instance.

`WebSocketProofs` (checked by `tlapm WebSocketProofs.tla`) proves one theorem under `WebSocketAssumption`, for any set of connections:

- **`TypeCorrect`: `Spec => []TypeOK`.** `TypeOK` is not inductive alone. It bounds `readPump`'s error count by `MaxReadErrors + 1`, but a read error only increments the count. The count stays bounded because a pump that reaches the limit leaves its read loop at once. The inductive invariant `TypeInv` adds that, while a connection is in its read loop or earlier (`InLoop`), the count is at most `MaxReadErrors`. The proof has one step per action. The map operations rest on the lemmas `HandledType` and `DeletedDomain`.
`RuleMatchProofs` (checked by `tlapm RuleMatchProofs.tla`) proves two theorems under `RuleMatchAssumption` and `RulesAssumption`:

- **`TypeCorrect`: `Spec => []TypeOK`.** Every predicate the matcher walks has a type the `IsMatch` methods handle. Every port fits a `uint16`, and every range is non-empty. `TypeOK` is not inductive, because it says nothing of where `rules` came from. The inductive invariant `TypeInv` says that `rules` is `CompileRules(rs)` for some list `rs` of raw rules. That holds at startup and after each `ParseRulesStore`, by `RulesAssumption`. The result then rests on four lemmas:
  - `IPCompiledType` and `PortCompiledType`: what each constructor returns, with one step per `CASE` arm.
  - `PortListType`: the ports of a list text are in `1..MaxPort`.
  - `FlattenType`: flattening a sequence of sequences over `X` gives a sequence over `X`.

  `FlattenSeq` is a recursive function, written as a `LET` in `SequencesExt`. The proof of `FlattenType` shows that some function satisfies its defining equation, and that the function the definition chooses stays in `Seq(X)`. Both steps go by least counterexample: `NatLeast` is derived from `WFMin` and `NatLessThanWellFounded`.
- **`MatchPacketIsFirstMatch`.** For every list of rules and every packet, `MatchPacket(rs, p) = FirstHolding(rs, p, RuleIsMatch)`. The loop of lines 258-270 returns at the first rule whose `IsMatch` holds, so it names the rule of least index among those that match, or no rule. The proof gives the walk's closed form: the least matching index from `i` on. It then shows that the walk's recursive function agrees with the closed form at every index, by least counterexample counted from the end. `MinIs` identifies `Min` of the index set. The theorem is about the walk only. What the compiled predicates mean is checked against section 4.1 by `rule_city_case`, which finds that they disagree.

  The bound is kept by name (`MaxPort`) in the module because the SMT backend cannot handle the literal interval `1..65535`.

### Left to TLC

Two kinds of result are left to TLC:

- Liveness (`UpdateEventuallyReturns`, `PumpEventuallyExits`) depends on fairness and `ENABLED`, which the prover does not handle.
- The Blacklist properties `KernelBlocksOnlyListed` and `SyncRefined` hold only under the conditions of `blacklist_sync` (one caller, saves that succeed, and for `SyncRefined` an empty start list). The code does not guarantee those conditions, so no theorem states them.

## 5. Not modelled

- **Rule matcher inside the fold.** `Summary` takes the matched rule as an input rather than instancing `RuleMatch`. The unsynchronised read of `rm.rules` in `MatchPacket` against a `ParseRules` store is one atomic step.
- **RPC payload decoding** (`message.go`). `json.Unmarshal` into `interface{}` yields maps, so the type assertions in `handleSetRules`, `handleGetMatchList` and `handleChangeBlack` always fail. In the running daemon `change_black` therefore never reaches `UpdateBlackList`. The `Blacklist` model calls it directly, as the spec describes. When `UpdateBlackList` is reached, `handleChangeBlack` also ignores its error.
- **Smaller pieces:**
  - XDP attach fallback, config load/format, resource usage, name tables and static files;
  - `GetMatchList`'s filter, sort and unclamped page slice (`summary.go:396`);
  - the unlocked read of `manager.Clients` in `readPump`;
  - a `WriteJSON` blocked on a stalled peer, which would block `Shutdown`.

  These are listed as hazards or components in `PROJECT.json` with the reason.

## 6. Plan for further work

1. A composition of `Summary` with `WebSocket`, in which `broadcastSummary` blocks the aggregator on the unbuffered `Broadcast` channel.
