--------------------------- MODULE WebSocketProofs ---------------------------
(***************************************************************************)
(* Theorems about the broadcast server (module WebSocket), for every set   *)
(* of connections and every bound on the clock and on the requests.        *)
(***************************************************************************)
EXTENDS WebSocket, TLAPS

USE WebSocketAssumption

-----------------------------------------------------------------------------
(* The record Handle leaves and the map after deletes keep their shapes.   *)

LEMMA HandledType ==
  ASSUME NEW rec \in ClientRec, NEW act \in Acts, now \in 0..MaxTime
  PROVE  Handled(rec, act) \in ClientRec
BY DEF Handled, ClientRec

LEMMA DeletedDomain ==
  ASSUME NEW S
  PROVE  /\ DOMAIN Deleted(S) = DOMAIN clients \ S
         /\ \A x \in DOMAIN Deleted(S) : Deleted(S)[x] = clients[x]
BY DEF Deleted

-----------------------------------------------------------------------------
(* TypeOK is not inductive: readPump's error count stays within 0..11 only *)
(* because a pump that reaches the limit leaves its read loop at once, so  *)
(* the count is within the limit in every state before that.               *)
InLoop == {"none", "reg", "pump", "reply"}
TypeInv ==
  /\ TypeOK
  /\ \A c \in Conns : cst[c] \in InLoop => errNum[c] <= MaxReadErrors

LEMMA TypeInvInit == Init => TypeInv
BY DEF Init, TypeInv, TypeOK, ClientRec, MaxReadErrors, InLoop

LEMMA TypeInvStep == TypeInv /\ [Next]_vars => TypeInv'
<1> SUFFICES ASSUME TypeInv, [Next]_vars PROVE TypeInv'
  OBVIOUS
<1> USE DEF TypeInv, TypeOK, InLoop
<1>1. CASE AdvanceClock
  BY <1>1 DEF AdvanceClock
<1>2. CASE Housekeep
  <2>1. DOMAIN clients' \subseteq Conns
        /\ \A x \in DOMAIN clients' : clients'[x] \in ClientRec
    BY <1>2, DeletedDomain DEF Housekeep
  <2>. QED BY <1>2, <2>1 DEF Housekeep
<1>3. CASE Produce
  BY <1>3 DEF Produce
<1>4. CASE BroadcastBegin
  BY <1>4 DEF BroadcastBegin
<1>5. CASE BroadcastEnd
  BY <1>5 DEF BroadcastEnd
<1>6. CASE Shutdown
  BY <1>6 DEF Shutdown
<1>7. ASSUME NEW c \in Conns, Upgrade(c) PROVE TypeInv'
  BY <1>7 DEF Upgrade
<1>8. ASSUME NEW c \in Conns, Register(c) PROVE TypeInv'
  <2>1. [last |-> now, recv |-> TRUE] \in ClientRec
    BY DEF ClientRec
  <2>2. /\ DOMAIN clients' = DOMAIN clients \cup {c}
        /\ \A x \in DOMAIN clients' : clients'[x] \in ClientRec
    BY <1>8, <2>1 DEF Register
  <2>3. loc' \in [Conns -> ClientRec] /\ cst'[c] = "pump" /\ errNum[c] <= MaxReadErrors
    BY <1>8, <2>1 DEF Register, MaxReadErrors
  <2>4. \A d \in Conns : cst'[d] \in InLoop => errNum'[d] <= MaxReadErrors
    BY <1>8, <2>3 DEF Register
  <2>. QED BY <1>8, <2>2, <2>3, <2>4 DEF Register
<1>9. ASSUME NEW c \in Conns, PumpMessage(c) PROVE TypeInv'
  <2>1. PICK act \in Acts : loc' = [loc EXCEPT ![c] = Handled(loc[c], act)]
    BY <1>9 DEF PumpMessage
  <2>2. Handled(loc[c], act) \in ClientRec
    BY HandledType
  <2>3. loc' \in [Conns -> ClientRec]
    BY <2>1, <2>2
  <2>4. errNum' \in [Conns -> 0..MaxReadErrors + 1]
        /\ \A d \in Conns : cst'[d] \in InLoop => errNum'[d] <= MaxReadErrors
    BY <1>9 DEF PumpMessage, MaxReadErrors
  <2>5. active' \in [Conns -> 0..MaxTime] /\ msgs' \in 0..MaxMsgs
        /\ cst' \in [Conns -> {"none", "reg", "pump", "reply", "unreg", "done"}]
    BY <1>9 DEF PumpMessage
  <2>. QED BY <1>9, <2>3, <2>4, <2>5 DEF PumpMessage
<1>10. ASSUME NEW c \in Conns, PumpReply(c) PROVE TypeInv'
  BY <1>10 DEF PumpReply
<1>11. ASSUME NEW c \in Conns, PumpReadError(c) PROVE TypeInv'
  <2>1. errNum[c] <= MaxReadErrors
    BY <1>11 DEF PumpReadError
  <2>. QED BY <1>11, <2>1 DEF PumpReadError, MaxReadErrors
<1>12. ASSUME NEW c \in Conns, PeerClose(c) PROVE TypeInv'
  BY <1>12 DEF PeerClose
<1>13. ASSUME NEW c \in Conns, Unregister(c) PROVE TypeInv'
  BY <1>13, DeletedDomain DEF Unregister
<1>14. ASSUME NEW c \in Conns, BroadcastWrite(c) PROVE TypeInv'
  BY <1>14, DeletedDomain DEF BroadcastWrite
<1>15. CASE UNCHANGED vars
  BY <1>15 DEF vars
<1>. QED BY <1>1, <1>2, <1>3, <1>4, <1>5, <1>6, <1>7, <1>8, <1>9, <1>10,
            <1>11, <1>12, <1>13, <1>14, <1>15 DEF Next

(* Every state of the server has the shapes of TypeOK; in particular       *)
(* readPump's consecutive error count never passes MaxReadErrors + 1 and   *)
(* the housekeeping deadline stays within one period of the clock.         *)
THEOREM TypeCorrect == Spec => []TypeOK
<1>1. Spec => []TypeInv
  BY TypeInvInit, TypeInvStep, PTL DEF Spec
<1>. QED BY <1>1, PTL DEF TypeInv
=============================================================================
