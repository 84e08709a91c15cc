--------------------------- MODULE ServiceCounter ---------------------------
(***************************************************************************)
(* The threads of the service counter program: one thread lets the         *)
(* customers arrive and one or two threads serve them.  They share a deque *)
(* (buffer), a count of the customers who are settled (customerNo_cs), one *)
(* mutex (mu) and one condition variable (cond) on which both sides wait.  *)
(*                                                                         *)
(* A step of a thread is what it does between two points at which another  *)
(* thread can see a difference: taking the mutex, one critical section,    *)
(* releasing the mutex, notifying, and the read of customerNo_cs in the    *)
(* counters' loop test, which the code makes without holding the mutex.    *)
(* Time is abstracted: a sleep_for may last arbitrarily long.              *)
(***************************************************************************)
EXTENDS Integers, Sequences

CONSTANTS
  NumberOfCustomers,  \* numberOfCustomers, the argument val of both thread functions
  MaxBufferSize,      \* maxBufferSize, read from the terminal and not validated
  Counters,           \* the counterService threads
  Customer,           \* the customer thread
  Free                \* the owner of mu when no thread holds it

Threads == Counters \cup {Customer}

ASSUME ConstantsAssumption ==
  /\ NumberOfCustomers \in Nat
  /\ MaxBufferSize \in Nat
  /\ Customer \notin Counters
  /\ Free \notin Threads \cup Nat

VARIABLES
  mu,             \* the thread that holds the mutex, or Free
  buffer,         \* the deque of waiting customers
  customerNo_cs,  \* customers called or turned away: the counters' loop bound
  customerNo,     \* customer(): the number of the next customer
  cnt,            \* counterService(): the customer each counter took last
  pc,             \* where each thread is
  turnedAway,     \* history: the customers who found the queue full
  served          \* history: the customers whose service is over

history == <<turnedAway, served>>
vars == <<mu, buffer, customerNo_cs, customerNo, cnt, pc, history>>

-----------------------------------------------------------------------------
(* Where a thread can be.  "loop" is the loop test, "await" the test of the *)
(* predicate in cond.wait with mu held, "wait" blocked in cond.wait and not *)
(* yet notified, "relock" notified and in need of mu, "inside" past the     *)
(* wait with mu held.                                                       *)
CustomerPlaces ==
  {"loop", "lock", "decide", "await", "wait", "relock", "inside",
   "unlockAway", "unlock", "notify", "done"}
CounterPlaces ==
  {"loop", "lock", "await", "wait", "relock", "inside", "unlock", "notify",
   "serve", "lockQuiet", "unlockQuiet", "done"}
Holding == {"decide", "await", "inside", "unlockAway", "unlock", "unlockQuiet"}

Goto(t, place) == pc' = [pc EXCEPT ![t] = place]
Waiting == {t \in Threads : pc[t] = "wait"}

(* main starts as many counters as the user asks for; a counter that is not *)
(* started is "done" from the beginning.                                    *)
Init ==
  /\ mu = Free
  /\ buffer = <<>>
  /\ customerNo_cs = 0
  /\ customerNo = 0
  /\ cnt = [k \in Counters |-> 0]
  /\ \E open \in (SUBSET Counters) \ {{}} :
       pc = [t \in Threads |-> IF t \in open \cup {Customer} THEN "loop" ELSE "done"]
  /\ turnedAway = {}
  /\ served = {}

-----------------------------------------------------------------------------
(* The mutex and the condition variable. *)

(* t gets mu: the constructor of unique_lock, locker.lock(), or the end of a *)
(* cond.wait whose thread has been woken.                                    *)
Lock_TryToLock(t) ==
  /\ mu' = IF mu = Free THEN t ELSE mu
  /\ \/ pc[t] = "lock" /\ Goto(t, IF t = Customer THEN "decide" ELSE "await")
     \/ pc[t] = "relock" /\ Goto(t, "await")
     \/ pc[t] = "lockQuiet" /\ Goto(t, "unlockQuiet")
  /\ UNCHANGED <<buffer, customerNo_cs, customerNo, cnt, history>>
Lock(t) ==
  /\ mu = Free
  /\ mu' = t
  /\ \/ pc[t] = "lock" /\ Goto(t, IF t = Customer THEN "decide" ELSE "await")
     \/ pc[t] = "relock" /\ Goto(t, "await")
     \/ pc[t] = "lockQuiet" /\ Goto(t, "unlockQuiet")
  /\ UNCHANGED <<buffer, customerNo_cs, customerNo, cnt, history>>

Unlock(t) ==
  /\ mu' = Free
  /\ \/ pc[t] = "unlock" /\ Goto(t, "notify")
     \/ pc[t] \in {"unlockAway", "unlockQuiet"} /\ Goto(t, "loop")
  /\ UNCHANGED <<buffer, customerNo_cs, customerNo, cnt, history>>

(* The predicates that the two sides pass to cond.wait. *)
MayProceed(t) ==
  IF t = Customer THEN Len(buffer) < MaxBufferSize ELSE Len(buffer) > 0

(* cond.wait(locker, pred): go on with mu held if pred holds, otherwise *)
(* release mu and block in one step.                                    *)
CondWait(t) ==
  /\ pc[t] = "await"
  /\ IF MayProceed(t)
     THEN Goto(t, "inside") /\ UNCHANGED mu
     ELSE Goto(t, "wait") /\ mu' = Free
  /\ UNCHANGED <<buffer, customerNo_cs, customerNo, cnt, history>>

(* cond.notify_one() wakes some blocked thread, on either side, if any is; *)
(* the caller t goes on to place.                                          *)
NotifyOne(t, place) ==
  IF Waiting = {}
  THEN Goto(t, place)
  ELSE \E w \in Waiting : pc' = [pc EXCEPT ![t] = place, ![w] = "relock"]

(* A blocked thread may also return from cond.wait without a notification. *)
SpuriousWakeup(t) ==
  /\ pc[t] = "wait"
  /\ Goto(t, "relock")
  /\ UNCHANGED <<mu, buffer, customerNo_cs, customerNo, cnt, history>>

-----------------------------------------------------------------------------
(* customer(val). *)

MoreCustomers_LE == customerNo <= NumberOfCustomers
MoreCustomers == customerNo < NumberOfCustomers

(* The loop test, and the sleep until the next arrival time. *)
CustomerLoop ==
  /\ pc[Customer] = "loop"
  /\ Goto(Customer, IF MoreCustomers THEN "lock" ELSE "done")
  /\ UNCHANGED <<mu, buffer, customerNo_cs, customerNo, cnt, history>>

QueueFull_OffByOne == Len(buffer) = MaxBufferSize + 1
QueueFull == Len(buffer) = MaxBufferSize

CustomerFindsRoom ==
  /\ pc[Customer] = "decide"
  /\ ~QueueFull
  /\ Goto(Customer, "await")
  /\ UNCHANGED <<mu, buffer, customerNo_cs, customerNo, cnt, history>>

CountTurnedAway_Forgotten == customerNo_cs
CountTurnedAway == customerNo_cs + 1

CustomerTurnedAway ==
  /\ pc[Customer] = "decide"
  /\ QueueFull
  /\ turnedAway' = turnedAway \cup {customerNo}
  /\ customerNo_cs' = CountTurnedAway
  /\ customerNo' = customerNo + 1
  /\ Goto(Customer, "unlockAway")
  /\ UNCHANGED <<mu, buffer, cnt, served>>

CustomerQueues_SameNumber ==
  /\ pc[Customer] = "inside"
  /\ buffer' = Append(buffer, customerNo)
  /\ Goto(Customer, "unlock")
  /\ UNCHANGED <<mu, customerNo, customerNo_cs, cnt, history>>
CustomerQueues ==
  /\ pc[Customer] = "inside"
  /\ buffer' = Append(buffer, customerNo)
  /\ customerNo' = customerNo + 1
  /\ Goto(Customer, "unlock")
  /\ UNCHANGED <<mu, customerNo_cs, cnt, history>>

(* cond.notify_all(), after the mutex has been released. *)
CustomerNotifiesAll_Forgotten ==
  /\ pc[Customer] = "notify"
  /\ Goto(Customer, "loop")
  /\ UNCHANGED <<mu, buffer, customerNo_cs, customerNo, cnt, history>>
CustomerNotifiesAll_One ==
  /\ pc[Customer] = "notify"
  /\ NotifyOne(Customer, "loop")
  /\ UNCHANGED <<mu, buffer, customerNo_cs, customerNo, cnt, history>>
CustomerNotifiesAll ==
  /\ pc[Customer] = "notify"
  /\ pc' = [t \in Threads |-> IF t = Customer THEN "loop"
                              ELSE IF t \in Waiting THEN "relock" ELSE pc[t]]
  /\ UNCHANGED <<mu, buffer, customerNo_cs, customerNo, cnt, history>>

-----------------------------------------------------------------------------
(* counterService(k, val). *)

(* The loop test reads customerNo_cs without mu. *)
CounterLoop(k) ==
  /\ pc[k] = "loop"
  /\ Goto(k, IF customerNo_cs < NumberOfCustomers THEN "lock" ELSE "done")
  /\ UNCHANGED <<mu, buffer, customerNo_cs, customerNo, cnt, history>>

CounterCalls_Back(k) ==
  /\ pc[k] = "inside"
  /\ cnt' = [cnt EXCEPT ![k] = buffer[Len(buffer)]]
  /\ buffer' = SubSeq(buffer, 1, Len(buffer) - 1)
  /\ customerNo_cs' = customerNo_cs + 1
  /\ Goto(k, "unlock")
  /\ UNCHANGED <<mu, customerNo, history>>
CounterCalls(k) ==
  /\ pc[k] = "inside"
  /\ cnt' = [cnt EXCEPT ![k] = Head(buffer)]
  /\ buffer' = Tail(buffer)
  /\ customerNo_cs' = customerNo_cs + 1
  /\ Goto(k, "unlock")
  /\ UNCHANGED <<mu, customerNo, history>>

CounterNotifiesOne(k) ==
  /\ pc[k] = "notify"
  /\ NotifyOne(k, "serve")
  /\ UNCHANGED <<mu, buffer, customerNo_cs, customerNo, cnt, history>>

(* The sleep for customerExecutionTime[cnt]; then the mutex is taken once *)
(* more, only to look whether the queue is empty.                         *)
CounterServes(k) ==
  /\ pc[k] = "serve"
  /\ served' = served \cup {cnt[k]}
  /\ Goto(k, "lockQuiet")
  /\ UNCHANGED <<mu, buffer, customerNo_cs, customerNo, cnt, turnedAway>>

-----------------------------------------------------------------------------
CustomerStep ==
  CustomerLoop \/ CustomerFindsRoom \/ CustomerTurnedAway \/ CustomerQueues
    \/ CustomerNotifiesAll
CounterStep(k) ==
  CounterLoop(k) \/ CounterCalls(k) \/ CounterNotifiesOne(k) \/ CounterServes(k)
MonitorStep(t) == Lock(t) \/ Unlock(t) \/ CondWait(t)

(* main joins every thread and returns. *)
AllJoined == \A t \in Threads : pc[t] = "done"
Terminated == AllJoined /\ UNCHANGED vars

Next ==
  \/ CustomerStep
  \/ \E k \in Counters : CounterStep(k)
  \/ \E t \in Threads : MonitorStep(t) \/ SpuriousWakeup(t)
  \/ Terminated

(* The operating system runs every thread that can run; nothing makes a *)
(* blocked thread return from cond.wait unless it is notified.          *)
Fairness ==
  /\ WF_vars(CustomerStep \/ MonitorStep(Customer))
  /\ \A k \in Counters : WF_vars(CounterStep(k) \/ MonitorStep(k))

Spec == Init /\ [][Next]_vars
FairSpec == Spec /\ Fairness

-----------------------------------------------------------------------------
(* Properties. *)

TypeOK ==
  /\ mu \in Threads \cup {Free}
  /\ buffer \in Seq(Nat)
  /\ Len(buffer) <= MaxBufferSize
  /\ customerNo_cs \in Nat
  /\ customerNo \in 0 .. NumberOfCustomers
  /\ cnt \in [Counters -> Nat]
  /\ pc \in [Threads -> CustomerPlaces \cup CounterPlaces]
  /\ pc[Customer] \in CustomerPlaces
  /\ \A k \in Counters : pc[k] \in CounterPlaces
  /\ turnedAway \subseteq Nat
  /\ served \subseteq Nat

(* The mutex is held by exactly the thread that is in a critical section, on *)
(* every path: the turn-away branch, the two waits and the late look at the  *)
(* queue all give it back.                                                   *)
MutexDiscipline ==
  \A t \in Threads : (pc[t] \in Holding) <=> (mu = t)

(* No wake-up is lost although the customer notifies after it has released   *)
(* mu and although both sides share one condition variable: while a customer *)
(* is in the queue, a counter blocked in cond.wait is about to be notified.  *)
NoLostWakeup ==
  buffer # <<>> /\ Waiting # {} => pc[Customer] \in {"unlock", "notify"}

(* The customer thread never blocks in cond.wait: the predicate it passes   *)
(* cannot fail, as the turn-away test was made under the same lock.  So a   *)
(* notify_one of a counter is never meant for the customer.                 *)
CustomerNeverBlocks == pc[Customer] # "wait"

InServiceAt(k) == pc[k] \in {"unlock", "notify", "serve"}
Called == {cnt[k] : k \in {l \in Counters : InServiceAt(l)}}
Queued == {buffer[i] : i \in DOMAIN buffer}

(* The loop bound of the counters counts what it should: every customer who  *)
(* has arrived is either counted in customerNo_cs or still in the queue.     *)
CountMatchesQueue == customerNo_cs + Len(buffer) = customerNo

(* Every customer who has arrived is in exactly one place: turned away, in   *)
(* the queue, with one counter, or served.                                   *)
EachCustomerOnce ==
  /\ 0 .. customerNo - 1 = turnedAway \cup Queued \cup Called \cup served
  /\ turnedAway \cap (Queued \cup Called \cup served) = {}
  /\ Queued \cap (Called \cup served) = {}
  /\ Called \cap served = {}
  /\ \A k, l \in Counters :
       InServiceAt(k) /\ InServiceAt(l) /\ cnt[k] = cnt[l] => k = l

(* Customers are called in the order in which they came, whichever counter   *)
(* calls them: the queue is in order and nobody in it came before a customer *)
(* who has been called.                                                      *)
FirstComeFirstCalled ==
  /\ \A i, j \in DOMAIN buffer : i < j => buffer[i] < buffer[j]
  /\ \A c \in Called \cup served : \A i \in DOMAIN buffer : c < buffer[i]

(* No customer is lost, served twice or overtaken, with any number of counters *)
(* calling from the one queue.                                                 *)
CustomersInOrder == EachCustomerOnce /\ FirstComeFirstCalled

(* The program implements the promise of the waiting room. *)
WR == INSTANCE WaitingRoom WITH
        Nobody     <- Free,
        queue      <- buffer,
        arrived    <- customerNo,
        atCounter  <- [k \in Counters |-> IF InServiceAt(k) THEN cnt[k] ELSE Free]
ImplementsWaitingRoom == WR!Spec

(* If the counters stop waking up for no reason, every customer is settled  *)
(* in the end, and none is left standing in the queue.                      *)
QuietCondition == <>[][\A t \in Threads : ~SpuriousWakeup(t)]_vars
EveryoneSettled ==
  QuietCondition => <>(turnedAway \cup served = 0 .. NumberOfCustomers - 1)

(* If the counters stop waking up for no reason, main joins all its threads *)
(* and the program ends.                                                    *)
ShopCloses == QuietCondition => <>AllJoined

(* With one counter open the program does end: the counter never waits for a *)
(* customer whom nobody brings any more, as no other counter can take one     *)
(* between its loop test and its wait.  (The queue must have a place: without *)
(* one every customer is turned away and the counter waits from the start on.) *)
OneCounterCloses ==
  (\E k \in Counters : \A l \in Counters \ {k} : pc[l] = "done") => ShopCloses
=============================================================================
