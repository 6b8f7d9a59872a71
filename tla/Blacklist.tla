------------------------------ MODULE Blacklist ------------------------------
(***************************************************************************)
(* The blacklist store and its synchronizer, with the lifecycle they live  *)
(* in: ConfigManager.UpdateBlackList and SaveConfig (config/config.go),    *)
(* the capacity-1 blackChannel, EBPFManager.monitorBlackList, which puts   *)
(* and deletes kernel map entries, EBPFManager.Start and Shutdown          *)
(* (ebpf/ebpf.go), the perf-ring loop monitorEvents with its ErrClosed     *)
(* restart path, and the interrupt handler of main.go.                     *)
(*                                                                         *)
(* Callers are the client read loops that run change_black; they mutate   *)
(* the config without any lock.  An address is a model value: the three   *)
(* per-kind lists and kernel maps are disjoint by kind, so one list and    *)
(* one set stand for all three.  Address validation is not modelled: an    *)
(* invalid address returns before any state changes.                       *)
(***************************************************************************)
EXTENDS Naturals, Sequences, SequencesExt

CONSTANTS
  Addrs,             \* blacklist addresses (valid MAC/IPv4/IPv6 strings)
  Callers,           \* goroutines running handleChangeBlack
  NoAddr,            \* placeholder for an empty message slot
  InitBlack,         \* Config.Black as loaded from the config file
  SaveMayFail,       \* whether os.WriteFile in SaveConfig can fail
  ErrClosedMatches,  \* whether Read's error compares == perf.ErrClosed
  MaxOps             \* bound on the change_black calls

ASSUME BlacklistAssumption ==
  /\ NoAddr \notin Addrs
  /\ InitBlack \in Seq(Addrs)
  /\ SaveMayFail \in BOOLEAN
  /\ ErrClosedMatches \in BOOLEAN
  /\ MaxOps \in Nat

(* make(chan types.WebSocketChangeBlackListPayload, 1), config.go:24.      *)
BlackChanCap == 1

Msg == [inc : BOOLEAN, data : Addrs]
NoMsg == [inc |-> FALSE, data |-> NoAddr]

VARIABLES
  black,      \* cm.Config.Black (in memory)
  saved,      \* the blacklist in the config file on disk
  chan,       \* messages buffered in blackChannel
  upc,        \* per caller: "idle" or "send" (blocked on blackChannel <-)
  umsg,       \* per caller: the message it is sending
  kernel,     \* the keys of the kernel blacklist maps
  loaded,     \* em.ebpfObjects open (maps and XDP program attached)
  shut,       \* em.shutdownChannel: "open" or "closed"
  perfOpen,   \* em.perfReader not yet closed
  evPc,       \* monitorEvents: "select", "read" (in Read) or "gone"
  blPc,       \* monitorBlackList: "live" or "gone"
  mainPc,     \* main goroutine: "run", "stopped" (after em.Shutdown), "exited"
  crashed,    \* a runtime panic ended the process
  ops         \* change_black calls so far

vars == <<black, saved, chan, upc, umsg, kernel, loaded, shut, perfOpen,
          evPc, blPc, mainPc, crashed, ops>>

(* The process is alive: no panic, main has not returned.                  *)
Alive == ~crashed /\ mainPc # "exited"

(* utils.RemoveStringFromSlice removes the first copy only; SequencesExt's *)
(* RemoveFirst is the same function.                                       *)
RemoveStringFromSlice(s, a) == RemoveFirst(s, a)

(* The list after the append (Inc) or removal of lines 91-107.             *)
Mutated(s, m) == IF m.inc THEN Append(s, m.data)
                 ELSE RemoveStringFromSlice(s, m.data)

(* Mutation: the Inc flag is ignored and every message is a Put.          *)
AppliedAlwaysPut(k, m) == k \cup {m.data}

(* monitorBlackList's Put (Inc) or Delete of one key.                      *)
Applied(k, m) == IF m.inc THEN k \cup {m.data} ELSE k \ {m.data}

-----------------------------------------------------------------------------
(* After NewConfigManager and Application.Start: em.Start loads fresh,     *)
(* empty kernel maps, opens the readers and starts the goroutines; nothing *)
(* copies Config.Black into the maps.                                      *)
Init ==
  /\ black = InitBlack
  /\ saved = InitBlack
  /\ chan = <<>>
  /\ upc = [c \in Callers |-> "idle"]
  /\ umsg = [c \in Callers |-> NoMsg]
  /\ kernel = {}
  /\ loaded = TRUE
  /\ shut = "open"
  /\ perfOpen = TRUE
  /\ evPc = "select"
  /\ blPc = "live"
  /\ mainPc = "run"
  /\ crashed = FALSE
  /\ ops = 0

(* UpdateBlackList up to the channel send: mutate the in-memory list, then *)
(* SaveConfig.  A failed save returns the error with the list already      *)
(* mutated and nothing sent.                                               *)
UpdateBlackList(c) ==
  /\ Alive
  /\ upc[c] = "idle"
  /\ ops < MaxOps
  /\ \E m \in Msg :
       /\ black' = Mutated(black, m)
       /\ \/ /\ saved' = black'
             /\ upc' = [upc EXCEPT ![c] = "send"]
             /\ umsg' = [umsg EXCEPT ![c] = m]
          \/ /\ SaveMayFail
             /\ UNCHANGED <<saved, upc, umsg>>
  /\ ops' = ops + 1
  /\ UNCHANGED <<chan, kernel, loaded, shut, perfOpen, evPc, blPc, mainPc,
                 crashed>>

(* Mutation: the send does not wait for room in the buffer.               *)
SendBlackUnbounded(c) ==
  /\ Alive
  /\ upc[c] = "send"
  /\ chan' = Append(chan, umsg[c])
  /\ upc' = [upc EXCEPT ![c] = "idle"]
  /\ umsg' = [umsg EXCEPT ![c] = NoMsg]
  /\ UNCHANGED <<black, saved, kernel, loaded, shut, perfOpen, evPc, blPc,
                 mainPc, crashed, ops>>

(* Mutation: the message put on the channel always has Inc set.            *)
SendBlackAsInc(c) ==
  /\ Alive
  /\ upc[c] = "send"
  /\ Len(chan) < BlackChanCap
  /\ chan' = Append(chan, [umsg[c] EXCEPT !.inc = TRUE])
  /\ upc' = [upc EXCEPT ![c] = "idle"]
  /\ umsg' = [umsg EXCEPT ![c] = NoMsg]
  /\ UNCHANGED <<black, saved, kernel, loaded, shut, perfOpen, evPc, blPc,
                 mainPc, crashed, ops>>

(* cm.blackChannel <- black, line 111: blocks while the buffer is full.    *)
SendBlack(c) ==
  /\ Alive
  /\ upc[c] = "send"
  /\ Len(chan) < BlackChanCap
  /\ chan' = Append(chan, umsg[c])
  /\ upc' = [upc EXCEPT ![c] = "idle"]
  /\ umsg' = [umsg EXCEPT ![c] = NoMsg]
  /\ UNCHANGED <<black, saved, kernel, loaded, shut, perfOpen, evPc, blPc,
                 mainPc, crashed, ops>>

(* Mutation: the message is looked at but never received.                 *)
MonitorBlackListNoRecv ==
  /\ Alive
  /\ blPc = "live"
  /\ chan # <<>>
  /\ kernel' = IF loaded THEN Applied(kernel, Head(chan)) ELSE kernel
  /\ UNCHANGED <<chan, black, saved, upc, umsg, loaded, shut, perfOpen, evPc,
                 blPc, mainPc, crashed, ops>>

(* monitorBlackList receives a message and puts or deletes the key; on     *)
(* closed maps the call fails and the error is dropped.                    *)
MonitorBlackList ==
  /\ Alive
  /\ blPc = "live"
  /\ chan # <<>>
  /\ kernel' = IF loaded THEN Applied(kernel, Head(chan)) ELSE kernel
  /\ chan' = Tail(chan)
  /\ UNCHANGED <<black, saved, upc, umsg, loaded, shut, perfOpen, evPc, blPc,
                 mainPc, crashed, ops>>

(* monitorBlackList's select takes the closed shutdownChannel and returns. *)
MonitorBlackListExit ==
  /\ Alive
  /\ blPc = "live"
  /\ shut = "closed"
  /\ blPc' = "gone"
  /\ UNCHANGED <<black, saved, chan, upc, umsg, kernel, loaded, shut,
                 perfOpen, evPc, mainPc, crashed, ops>>

(* The variables em.Shutdown sets: isRunning, close(shutdownChannel)       *)
(* (which panics if it is already closed), the readers, link and objects.  *)
EmShutdown ==
  /\ crashed' = (shut = "closed")
  /\ shut' = "closed"
  /\ perfOpen' = FALSE
  /\ loaded' = FALSE
  /\ kernel' = {}

(* The interrupt handler: Application.Shutdown runs em.Shutdown.           *)
AppShutdown ==
  /\ Alive
  /\ mainPc = "run"
  /\ EmShutdown
  /\ mainPc' = "stopped"
  /\ UNCHANGED <<black, saved, chan, upc, umsg, evPc, blPc, ops>>

(* wsServer.Shutdown returns and main returns: the process exits.          *)
MainExit ==
  /\ Alive
  /\ mainPc = "stopped"
  /\ mainPc' = "exited"
  /\ UNCHANGED <<black, saved, chan, upc, umsg, kernel, loaded, shut,
                 perfOpen, evPc, blPc, crashed, ops>>

(* monitorEvents' select: return on a closed shutdownChannel, else Read.   *)
EventsSelect ==
  /\ Alive
  /\ evPc = "select"
  /\ evPc' = IF shut = "closed" THEN "gone" ELSE "read"
  /\ UNCHANGED <<black, saved, chan, upc, umsg, kernel, loaded, shut,
                 perfOpen, blPc, mainPc, crashed, ops>>

(* Read returns a record, which is handed to the aggregator (Summary).     *)
EventsRecord ==
  /\ Alive
  /\ evPc = "read"
  /\ perfOpen
  /\ evPc' = "select"
  /\ UNCHANGED <<black, saved, chan, upc, umsg, kernel, loaded, shut,
                 perfOpen, blPc, mainPc, crashed, ops>>

(* Read fails because the reader was closed.  If the error is the bare     *)
(* perf.ErrClosed the loop runs em.Shutdown and em.Start; the close of the *)
(* already closed shutdownChannel panics first.  Otherwise it continues.   *)
EventsReadError ==
  /\ Alive
  /\ evPc = "read"
  /\ ~perfOpen
  /\ IF ErrClosedMatches
       THEN /\ EmShutdown
            /\ evPc' = "gone"
       ELSE /\ evPc' = "select"
            /\ UNCHANGED <<kernel, loaded, shut, perfOpen, crashed>>
  /\ UNCHANGED <<black, saved, chan, upc, umsg, blPc, mainPc, ops>>

Next ==
  \/ \E c \in Callers : UpdateBlackList(c) \/ SendBlack(c)
  \/ MonitorBlackList
  \/ MonitorBlackListExit
  \/ AppShutdown
  \/ MainExit
  \/ EventsSelect
  \/ EventsRecord
  \/ EventsReadError

(* The Go scheduler runs every runnable goroutine: senders, the            *)
(* synchronizer and main get weak fairness; the interrupt is the           *)
(* operator's and gets none.                                               *)
Fairness ==
  /\ \A c \in Callers : WF_vars(SendBlack(c))
  /\ WF_vars(MonitorBlackList)
  /\ WF_vars(MainExit)

Spec == Init /\ [][Next]_vars
FairSpec == Spec /\ Fairness

-----------------------------------------------------------------------------
(* Every variable has the shape the code gives it.                         *)
TypeOK ==
  /\ black \in Seq(Addrs)
  /\ saved \in Seq(Addrs)
  /\ chan \in Seq(Msg) /\ Len(chan) <= BlackChanCap
  /\ upc \in [Callers -> {"idle", "send"}]
  /\ umsg \in [Callers -> Msg \cup {NoMsg}]
  /\ kernel \subseteq Addrs
  /\ loaded \in BOOLEAN /\ perfOpen \in BOOLEAN /\ crashed \in BOOLEAN
  /\ shut \in {"open", "closed"}
  /\ evPc \in {"select", "read", "gone"}
  /\ blPc \in {"live", "gone"}
  /\ mainPc \in {"run", "stopped", "exited"}
  /\ ops \in 0..MaxOps

(* No change_black is in flight.                                           *)
Quiescent == chan = <<>> /\ \A c \in Callers : upc[c] = "idle"

(* Once every change_black has reached the kernel, the XDP program drops   *)
(* no address that Config.Black does not list: monitorBlackList applies    *)
(* the Inc/Delete messages in the order UpdateBlackList mutated the list.  *)
KernelBlocksOnlyListed ==
  Alive /\ loaded /\ Quiescent => kernel \subseteq ToSet(black)

(* The converse, the spec's convergence of the kernel maps to the          *)
(* authoritative config: every listed address is in the kernel.            *)
ListedAreBlocked ==
  Alive /\ loaded /\ Quiescent => ToSet(black) \subseteq kernel

(* A change_black blocked on the channel send eventually returns, unless   *)
(* the process ends first.                                                 *)
UpdateEventuallyReturns ==
  \A c \in Callers : upc[c] = "send" ~> (upc[c] = "idle" \/ ~Alive)

(* The interrupt shuts the process down without a runtime panic.           *)
NoShutdownPanic == ~crashed

-----------------------------------------------------------------------------
(* Refinement.  The mutations emitted and not yet consumed are the ones   *)
(* buffered in blackChannel followed by those of the senders blocked on   *)
(* it, taken in a fixed order of the callers.                              *)
Pending ==
  LET cs == SetToSeq(Callers)
  IN chan \o FlattenSeq([i \in DOMAIN cs |->
                IF upc[cs[i]] = "send" THEN <<umsg[cs[i]]>> ELSE <<>>])

Sync == INSTANCE BlacklistSync
          WITH pending <- Pending, stopped <- ~loaded, InitListed <- ToSet(InitBlack)

(* The capacity-1 blackChannel, its blocked senders and monitorBlackList   *)
(* implement the spec's in-order delta channel: every step of the code is  *)
(* an emit, a consume, a shutdown of the maps, or leaves them unchanged.   *)
SyncRefined == Sync!Spec
=============================================================================
