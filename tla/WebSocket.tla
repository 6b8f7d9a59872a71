------------------------------ MODULE WebSocket ------------------------------
(***************************************************************************)
(* The broadcast server of internal/websocket/websocket.go: the run loop   *)
(* that owns manager.Clients (register, unregister, broadcast, the 30 s    *)
(* housekeeping tick, shutdown), the per-connection readPump goroutines    *)
(* that read requests and write callback replies (message.go Handle), the  *)
(* aggregator calling BroadcastSummary, and Shutdown from main.            *)
(*                                                                         *)
(* Time is counted in units of 30 s, the housekeeping period; a client is  *)
(* stale when time.Since(LastTime) > 60 s, i.e. more than IdleLimit units. *)
(* A request is abstracted to what Handle does to the client: turn         *)
(* broadcasts on, off, or anything else (which only writes a reply).       *)
(***************************************************************************)
EXTENDS Naturals, FiniteSets

CONSTANTS
  Conns,     \* websocket connections that may be upgraded
  MaxTime,   \* bound on the clock
  MaxMsgs    \* bound on the requests read

ASSUME WebSocketAssumption == MaxTime \in Nat /\ MaxMsgs \in Nat

(* readPump breaks after errNum > 10 consecutive read errors, line 149.    *)
MaxReadErrors == 10
(* 60 s in units of the 30 s ticker, line 107.                              *)
IdleLimit == 2

Acts == {"on", "off", "other"}
ClientRec == [last : 0..MaxTime, recv : BOOLEAN]

VARIABLES
  now,       \* time, in 30 s units
  nextHk,    \* when the housekeeping ticker fires next
  clients,   \* manager.Clients: conn -> WebSocketClient{LastTime, ReceiveBroadcast}
  cst,       \* per conn: "none", "reg" (blocked on Register <-), "pump"
             \* (readPump reading), "reply" (writing a callback), "unreg"
             \* (blocked on Unregister <-), "done"
  loc,       \* readPump's local copy `client` of the map entry
  errNum,    \* readPump's consecutive read errors
  closed,    \* the connection is closed (by us or by the peer)
  rpc,       \* run loop: "loop", "bcast" (writing a broadcast), "gone"
  todo,      \* connections the current broadcast has still to be written to
  prod,      \* the aggregator: "idle" or "send" (blocked on Broadcast <-)
  mainPc,    \* "run", or "exited" once Shutdown returned and main ended
  active,    \* history: when the client last sent a request
  msgs       \* requests read so far

vars == <<now, nextHk, clients, cst, loc, errNum, closed, rpc, todo, prod,
          mainPc, active, msgs>>

Alive == mainPc = "run"

(* delete(s.manager.Clients, x) for every x in S.                          *)
Deleted(S) == [x \in DOMAIN clients \ S |-> clients[x]]

(* The entries the housekeeping tick deletes, lines 106-111.               *)
Stale == {x \in DOMAIN clients : now - clients[x].last > IdleLimit}

(* Handle's effect on the client record it is given (message.go 130-139). *)
Handled(rec, act) ==
  [last |-> now,
   recv |-> IF act = "on" THEN TRUE ELSE IF act = "off" THEN FALSE ELSE rec.recv]

-----------------------------------------------------------------------------
Init ==
  /\ now = 0
  /\ nextHk = 1
  /\ clients = [x \in {} |-> [last |-> 0, recv |-> TRUE]]
  /\ cst = [c \in Conns |-> "none"]
  /\ loc = [c \in Conns |-> [last |-> 0, recv |-> FALSE]]
  /\ errNum = [c \in Conns |-> 0]
  /\ closed = [c \in Conns |-> FALSE]
  /\ rpc = "loop"
  /\ todo = {}
  /\ prod = "idle"
  /\ mainPc = "run"
  /\ active = [c \in Conns |-> 0]
  /\ msgs = 0

AdvanceClock ==
  /\ Alive
  /\ now < MaxTime
  /\ now' = now + 1
  /\ UNCHANGED <<nextHk, clients, cst, loc, errNum, closed, rpc, todo, prod,
                 mainPc, active, msgs>>

(* HandleWebSocket: the upgrade succeeded; send on the unbuffered Register.*)
Upgrade(c) ==
  /\ Alive
  /\ cst[c] = "none"
  /\ cst' = [cst EXCEPT ![c] = "reg"]
  /\ UNCHANGED <<now, nextHk, clients, loc, errNum, closed, rpc, todo, prod,
                 mainPc, active, msgs>>

(* run receives on Register and adds the entry (lines 76-83); the send     *)
(* completes and readPump starts with a copy of the entry (line 139).      *)
Register(c) ==
  /\ Alive
  /\ rpc = "loop"
  /\ cst[c] = "reg"
  /\ LET rec == [last |-> now, recv |-> TRUE]
     IN /\ clients' = [x \in DOMAIN clients \cup {c} |->
                         IF x = c THEN rec ELSE clients[x]]
        /\ loc' = [loc EXCEPT ![c] = rec]
  /\ cst' = [cst EXCEPT ![c] = "pump"]
  /\ active' = [active EXCEPT ![c] = now]
  /\ UNCHANGED <<now, nextHk, errNum, closed, rpc, todo, prod, mainPc, msgs>>

(* readPump reads a request (lines 143-162): reset errNum, stamp the local *)
(* copy's LastTime, Handle it on &client, then write the callback reply.   *)
PumpMessage(c) ==
  /\ Alive
  /\ cst[c] = "pump"
  /\ ~closed[c]
  /\ msgs < MaxMsgs
  /\ \E act \in Acts : loc' = [loc EXCEPT ![c] = Handled(@, act)]
  /\ errNum' = [errNum EXCEPT ![c] = 0]
  /\ active' = [active EXCEPT ![c] = now]
  /\ cst' = [cst EXCEPT ![c] = "reply"]
  /\ msgs' = msgs + 1
  /\ UNCHANGED <<now, nextHk, clients, closed, rpc, todo, prod, mainPc>>

(* conn.WriteJSON of the callback returns (an error on a closed            *)
(* connection is ignored).                                                 *)
PumpReply(c) ==
  /\ Alive
  /\ cst[c] = "reply"
  /\ cst' = [cst EXCEPT ![c] = "pump"]
  /\ UNCHANGED <<now, nextHk, clients, loc, errNum, closed, rpc, todo, prod,
                 mainPc, active, msgs>>

(* Mutation: the errNum > 10 limit is dropped.                             *)
PumpReadErrorNoLimit(c) ==
  /\ Alive
  /\ cst[c] = "pump"
  /\ closed[c]
  /\ \E unexpected \in BOOLEAN :
       IF unexpected
         THEN /\ cst' = [cst EXCEPT ![c] = "unreg"]
              /\ UNCHANGED errNum
         ELSE /\ errNum' = [errNum EXCEPT ![c] = @ + 1]
              /\ UNCHANGED cst
  /\ UNCHANGED <<now, nextHk, clients, loc, closed, rpc, todo, prod, mainPc,
                 active, msgs>>

(* ReadMessage fails on a closed connection (lines 144-152): an unexpected *)
(* close code breaks the loop at once, any other error after more than     *)
(* MaxReadErrors in a row; the deferred send on Unregister follows.        *)
PumpReadError(c) ==
  /\ Alive
  /\ cst[c] = "pump"
  /\ closed[c]
  /\ \E unexpected \in BOOLEAN :
       IF unexpected \/ errNum[c] + 1 > MaxReadErrors
         THEN /\ cst' = [cst EXCEPT ![c] = "unreg"]
              /\ errNum' = [errNum EXCEPT ![c] = IF unexpected THEN @ ELSE @ + 1]
         ELSE /\ errNum' = [errNum EXCEPT ![c] = @ + 1]
              /\ UNCHANGED cst
  /\ UNCHANGED <<now, nextHk, clients, loc, closed, rpc, todo, prod, mainPc,
                 active, msgs>>

(* The peer goes away: the connection's reads and writes now fail.         *)
PeerClose(c) ==
  /\ Alive
  /\ cst[c] \in {"pump", "reply"}
  /\ ~closed[c]
  /\ closed' = [closed EXCEPT ![c] = TRUE]
  /\ UNCHANGED <<now, nextHk, clients, cst, loc, errNum, rpc, todo, prod,
                 mainPc, active, msgs>>

(* Mutation: run only takes an Unregister for a conn it still lists.       *)
UnregisterKnownOnly(c) ==
  /\ Alive
  /\ rpc = "loop"
  /\ cst[c] = "unreg"
  /\ c \in DOMAIN clients
  /\ clients' = Deleted({c})
  /\ cst' = [cst EXCEPT ![c] = "done"]
  /\ closed' = [closed EXCEPT ![c] = TRUE]
  /\ UNCHANGED <<now, nextHk, loc, errNum, rpc, todo, prod, mainPc, active, msgs>>

(* run receives on Unregister and deletes and closes a listed conn (lines  *)
(* 84-90); readPump's deferred conn.Close runs and the goroutine ends.     *)
Unregister(c) ==
  /\ Alive
  /\ rpc = "loop"
  /\ cst[c] = "unreg"
  /\ clients' = Deleted({c})
  /\ cst' = [cst EXCEPT ![c] = "done"]
  /\ closed' = [closed EXCEPT ![c] = TRUE]
  /\ UNCHANGED <<now, nextHk, loc, errNum, rpc, todo, prod, mainPc, active, msgs>>

(* The ticker case (lines 104-112): delete and close every stale entry.    *)
Housekeep ==
  /\ Alive
  /\ rpc = "loop"
  /\ now >= nextHk
  /\ clients' = Deleted(Stale)
  /\ closed' = [x \in Conns |-> closed[x] \/ x \in Stale]
  /\ nextHk' = now + 1
  /\ UNCHANGED <<now, cst, loc, errNum, rpc, todo, prod, mainPc, active, msgs>>

(* broadcastSummary / BroadcastBlackEvent: send on the unbuffered          *)
(* Broadcast channel.                                                      *)
Produce ==
  /\ Alive
  /\ prod = "idle"
  /\ prod' = "send"
  /\ UNCHANGED <<now, nextHk, clients, cst, loc, errNum, closed, rpc, todo,
                 mainPc, active, msgs>>

(* run receives the message and, under s.mutex, walks the clients that     *)
(* have ReceiveBroadcast set (lines 91-94).                                *)
BroadcastBegin ==
  /\ Alive
  /\ rpc = "loop"
  /\ prod = "send"
  /\ prod' = "idle"
  /\ rpc' = "bcast"
  /\ todo' = {x \in DOMAIN clients : clients[x].recv}
  /\ UNCHANGED <<now, nextHk, clients, cst, loc, errNum, closed, mainPc,
                 active, msgs>>

(* conn.WriteJSON to one client; a failed write closes and deletes it      *)
(* (lines 95-100).                                                         *)
BroadcastWrite(c) ==
  /\ Alive
  /\ rpc = "bcast"
  /\ c \in todo
  /\ clients' = IF closed[c] THEN Deleted({c}) ELSE clients
  /\ todo' = todo \ {c}
  /\ UNCHANGED <<now, nextHk, cst, loc, errNum, closed, rpc, prod, mainPc,
                 active, msgs>>

BroadcastEnd ==
  /\ Alive
  /\ rpc = "bcast"
  /\ todo = {}
  /\ rpc' = "loop"
  /\ UNCHANGED <<now, nextHk, clients, cst, loc, errNum, closed, todo, prod,
                 mainPc, active, msgs>>

(* Shutdown (lines 182-199): the send on shutdownChannel is taken by the   *)
(* run loop, which returns; every listed conn is closed; the HTTP server   *)
(* stops and main returns.                                                 *)
Shutdown ==
  /\ Alive
  /\ rpc = "loop"
  /\ rpc' = "gone"
  /\ closed' = [x \in Conns |-> closed[x] \/ x \in DOMAIN clients]
  /\ mainPc' = "exited"
  /\ UNCHANGED <<now, nextHk, clients, cst, loc, errNum, todo, prod, active, msgs>>

Next ==
  \/ AdvanceClock
  \/ Housekeep
  \/ Produce
  \/ BroadcastBegin
  \/ BroadcastEnd
  \/ Shutdown
  \/ \E c \in Conns :
       \/ Upgrade(c) \/ Register(c) \/ PumpMessage(c) \/ PumpReply(c)
       \/ PumpReadError(c) \/ PeerClose(c) \/ Unregister(c)
       \/ BroadcastWrite(c)

(* The run loop and the read pumps are runnable goroutines; clients,       *)
(* peers, the clock and the operator are the environment.  The run loop's  *)
(* select picks uniformly among the ready cases, so a case that is ready   *)
(* again and again is taken: strong fairness for its receives.             *)
Fairness ==
  /\ SF_vars(BroadcastBegin) /\ WF_vars(BroadcastEnd)
  /\ \A c \in Conns :
       /\ SF_vars(Register(c)) /\ SF_vars(Unregister(c))
       /\ WF_vars(PumpReply(c)) /\ WF_vars(PumpReadError(c))
       /\ WF_vars(BroadcastWrite(c))

Spec == Init /\ [][Next]_vars
FairSpec == Spec /\ Fairness

-----------------------------------------------------------------------------
(* Every variable has the shape the code gives it.                         *)
TypeOK ==
  /\ now \in 0..MaxTime /\ nextHk \in 1..MaxTime + 1
  /\ DOMAIN clients \subseteq Conns
  /\ \A x \in DOMAIN clients : clients[x] \in ClientRec
  /\ cst \in [Conns -> {"none", "reg", "pump", "reply", "unreg", "done"}]
  /\ loc \in [Conns -> ClientRec]
  /\ errNum \in [Conns -> 0..MaxReadErrors + 1]
  /\ closed \in [Conns -> BOOLEAN]
  /\ rpc \in {"loop", "bcast", "gone"}
  /\ todo \subseteq Conns
  /\ prod \in {"idle", "send"} /\ mainPc \in {"run", "exited"}
  /\ active \in [Conns -> 0..MaxTime]
  /\ msgs \in 0..MaxMsgs

(* Every readPump whose connection was closed, by the peer, a failed       *)
(* broadcast, the housekeeping tick or Shutdown, gets through its error    *)
(* loop and its deferred Unregister, unless the process ends first.        *)
PumpEventuallyExits ==
  \A c \in Conns : closed[c] ~> (cst[c] = "done" \/ ~Alive)

(* Spec 3: a client lives until its read fails or it has been inactive for *)
(* more than 60 s: the housekeeping tick only drops clients that sent no   *)
(* request in the last 60 s.                                               *)
EvictsOnlyIdle ==
  [][Housekeep => \A x \in Stale : now - active[x] > IdleLimit]_vars

(* gorilla/websocket allows one writer per connection: the run loop never  *)
(* writes a broadcast to a conn whose readPump is writing a reply.         *)
NoConcurrentWrite ==
  [][\A c \in Conns : BroadcastWrite(c) /\ ~closed[c] => cst[c] # "reply"]_vars
=============================================================================
