---------------------------- MODULE WaitingRoom ----------------------------
(***************************************************************************)
(* What the service counter promises, with no thread, lock or condition    *)
(* variable in it: a bounded first-come first-served queue in front of a   *)
(* set of counters.  A customer who finds the queue full leaves; otherwise *)
(* the customer waits, is called once by one counter, and is served.       *)
(*                                                                         *)
(* ServiceCounter is shown to implement this specification.                *)
(***************************************************************************)
EXTENDS Integers, Sequences

CONSTANTS
  NumberOfCustomers,  \* customers 0 .. NumberOfCustomers - 1 arrive in this order
  MaxBufferSize,      \* places in the queue
  Counters,           \* the counters
  Nobody              \* at a counter that serves no one

VARIABLES
  queue,       \* the waiting customers, first come first
  arrived,     \* how many customers have arrived, which is the next one's number
  turnedAway,  \* the customers who found the queue full
  atCounter,   \* the customer each counter is serving, or Nobody
  served       \* the customers whose service is over

vars == <<queue, arrived, turnedAway, atCounter, served>>

Init ==
  /\ queue = <<>>
  /\ arrived = 0
  /\ turnedAway = {}
  /\ atCounter = [k \in Counters |-> Nobody]
  /\ served = {}

(* The next customer arrives and there is a place in the queue. *)
Enter ==
  /\ arrived < NumberOfCustomers
  /\ Len(queue) < MaxBufferSize
  /\ queue' = Append(queue, arrived)
  /\ arrived' = arrived + 1
  /\ UNCHANGED <<turnedAway, atCounter, served>>

(* The next customer arrives, the queue is full, and the customer leaves. *)
TurnAway ==
  /\ arrived < NumberOfCustomers
  /\ Len(queue) = MaxBufferSize
  /\ turnedAway' = turnedAway \cup {arrived}
  /\ arrived' = arrived + 1
  /\ UNCHANGED <<queue, atCounter, served>>

(* Counter k calls the customer at the head of the queue. *)
Call(k) ==
  /\ atCounter[k] = Nobody
  /\ queue # <<>>
  /\ atCounter' = [atCounter EXCEPT ![k] = Head(queue)]
  /\ queue' = Tail(queue)
  /\ UNCHANGED <<arrived, turnedAway, served>>

(* Counter k has finished with its customer. *)
Finish(k) ==
  /\ atCounter[k] # Nobody
  /\ served' = served \cup {atCounter[k]}
  /\ atCounter' = [atCounter EXCEPT ![k] = Nobody]
  /\ UNCHANGED <<queue, arrived, turnedAway>>

Next ==
  \/ Enter
  \/ TurnAway
  \/ \E k \in Counters : Call(k) \/ Finish(k)

Spec == Init /\ [][Next]_vars
============================================================================
