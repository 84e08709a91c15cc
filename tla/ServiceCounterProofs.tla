------------------------ MODULE ServiceCounterProofs ------------------------
(***************************************************************************)
(* Proofs about ServiceCounter, for every number of customers, every queue *)
(* length and every set of counters.                                       *)
(***************************************************************************)
EXTENDS ServiceCounter, TLAPS

(* What the customer thread knows between its turn-away test and its push,  *)
(* and a counter between its wait and its pop: the facts their tests        *)
(* established still hold, as both hold mu.                                 *)
CustomerKnows ==
  /\ pc[Customer] \in {"lock", "decide", "await", "inside"}
       => customerNo < NumberOfCustomers
  /\ pc[Customer] \in {"await", "inside"} => Len(buffer) < MaxBufferSize
  /\ pc[Customer] \notin {"wait", "relock"}
CountersKnow == \A k \in Counters : pc[k] = "inside" => Len(buffer) > 0

(* The inductive invariant behind the type invariant and the lock discipline. *)
LockInv == TypeOK /\ MutexDiscipline /\ CustomerKnows /\ CountersKnow

(* The actions of Next one by one, as the proofs below go through them. *)
LEMMA NextCases ==
  ASSUME Next
  PROVE  \/ CustomerLoop \/ CustomerFindsRoom \/ CustomerTurnedAway
         \/ CustomerQueues \/ CustomerNotifiesAll
         \/ \E k \in Counters : CounterLoop(k)
         \/ \E k \in Counters : CounterCalls(k)
         \/ \E k \in Counters : CounterNotifiesOne(k)
         \/ \E k \in Counters : CounterServes(k)
         \/ \E t \in Threads : Lock(t)
         \/ \E t \in Threads : Unlock(t)
         \/ \E t \in Threads : CondWait(t)
         \/ \E t \in Threads : SpuriousWakeup(t)
         \/ UNCHANGED vars
BY DEF Next, CustomerStep, CounterStep, MonitorStep, Terminated

(* It holds at the beginning. *)
LEMMA LockInvInit == Init => LockInv
BY ConstantsAssumption DEF Init, LockInv, TypeOK, MutexDiscipline, CustomerKnows,
   CountersKnow, Threads, Holding, CustomerPlaces, CounterPlaces

(* Every step keeps it. *)
LEMMA LockInvStep == LockInv /\ [Next]_vars => LockInv'
<1> SUFFICES ASSUME LockInv, [Next]_vars PROVE LockInv'
  OBVIOUS
<1> USE ConstantsAssumption
    DEF LockInv, TypeOK, MutexDiscipline, CustomerKnows, CountersKnow, Threads,
        Holding, CustomerPlaces, CounterPlaces, Goto, Waiting, history
<1>1. CASE CustomerLoop
  BY <1>1 DEF CustomerLoop, MoreCustomers
<1>2. CASE CustomerFindsRoom
  BY <1>2 DEF CustomerFindsRoom, QueueFull
<1>3. CASE CustomerTurnedAway
  BY <1>3 DEF CustomerTurnedAway, CountTurnedAway, QueueFull
<1>4. CASE CustomerQueues
  BY <1>4 DEF CustomerQueues
<1>5. CASE CustomerNotifiesAll
  BY <1>5 DEF CustomerNotifiesAll
<1>6. ASSUME NEW k \in Counters, CounterLoop(k) PROVE LockInv'
  BY <1>6 DEF CounterLoop
<1>7. ASSUME NEW k \in Counters, CounterCalls(k) PROVE LockInv'
  BY <1>7 DEF CounterCalls
<1>8. ASSUME NEW k \in Counters, CounterNotifiesOne(k) PROVE LockInv'
  BY <1>8 DEF CounterNotifiesOne, NotifyOne
<1>9. ASSUME NEW k \in Counters, CounterServes(k) PROVE LockInv'
  BY <1>9 DEF CounterServes
<1>10. ASSUME NEW t \in Threads, Lock(t) PROVE LockInv'
  BY <1>10 DEF Lock
<1>11. ASSUME NEW t \in Threads, Unlock(t) PROVE LockInv'
  BY <1>11 DEF Unlock
<1>12. ASSUME NEW t \in Threads, CondWait(t) PROVE LockInv'
  BY <1>12 DEF CondWait, MayProceed
<1>13. ASSUME NEW t \in Threads, SpuriousWakeup(t) PROVE LockInv'
  BY <1>13 DEF SpuriousWakeup
<1>14. CASE UNCHANGED vars
  BY <1>14 DEF vars
<1> QED
  BY <1>1, <1>2, <1>3, <1>4, <1>5, <1>6, <1>7, <1>8, <1>9, <1>10, <1>11,
     <1>12, <1>13, <1>14, NextCases

(* The invariant holds in every reachable state of the program. *)
THEOREM LockInvariant == Spec => []LockInv
BY LockInvInit, LockInvStep, PTL DEF Spec

(* Type correctness: in particular the queue never outgrows maxBufferSize *)
(* and no more than numberOfCustomers customers arrive.                   *)
THEOREM TypeCorrect == Spec => []TypeOK
BY LockInvariant, PTL DEF LockInv

(* The mutex is held exactly in the critical sections. *)
THEOREM MutexIsDisciplined == Spec => []MutexDiscipline
BY LockInvariant, PTL DEF LockInv

(* The customer thread never blocks in cond.wait, so that a notify_one sent *)
(* by a counter can only reach the other counter.                           *)
THEOREM CustomerIsNeverBlocked == Spec => []CustomerNeverBlocks
<1>1. LockInv => CustomerNeverBlocks
  BY DEF LockInv, CustomerKnows, CustomerNeverBlocks
<1> QED
  BY <1>1, LockInvariant, PTL

-----------------------------------------------------------------------------
(* The counters' loop bound and the wake-ups: inductive once LockInv holds. *)
QueueInv == CountMatchesQueue /\ NoLostWakeup

(* It holds at the beginning. *)
LEMMA QueueInvInit == Init => QueueInv
BY DEF Init, QueueInv, CountMatchesQueue, NoLostWakeup, Waiting, Threads

(* Every step keeps it. *)
LEMMA QueueInvStep == LockInv /\ QueueInv /\ [Next]_vars => QueueInv'
<1> SUFFICES ASSUME LockInv, QueueInv, [Next]_vars PROVE QueueInv'
  OBVIOUS
<1> USE ConstantsAssumption
    DEF LockInv, TypeOK, MutexDiscipline, CustomerKnows, CountersKnow, QueueInv,
        CountMatchesQueue, NoLostWakeup, Threads, Goto, Waiting, history
<1>1. CASE CustomerLoop
  BY <1>1 DEF CustomerLoop
<1>2. CASE CustomerFindsRoom
  BY <1>2 DEF CustomerFindsRoom
<1>3. CASE CustomerTurnedAway
  BY <1>3 DEF CustomerTurnedAway, CountTurnedAway
<1>4. CASE CustomerQueues
  BY <1>4 DEF CustomerQueues
<1>5. CASE CustomerNotifiesAll
  BY <1>5 DEF CustomerNotifiesAll
<1>6. ASSUME NEW k \in Counters, CounterLoop(k) PROVE QueueInv'
  BY <1>6 DEF CounterLoop
<1>7. ASSUME NEW k \in Counters, CounterCalls(k) PROVE QueueInv'
  <2>1. pc[k] = "inside" /\ Len(buffer) > 0 /\ buffer # <<>>
    BY <1>7 DEF CounterCalls
  <2>2. Len(buffer) \in Nat /\ Len(Tail(buffer)) = Len(buffer) - 1
    BY <2>1
  <2>3. CountMatchesQueue'
    <3>1. /\ customerNo_cs' = customerNo_cs + 1
          /\ Len(buffer') = Len(buffer) - 1
          /\ customerNo' = customerNo
      BY <1>7, <2>2 DEF CounterCalls
    <3>2. customerNo_cs \in Nat /\ customerNo_cs + Len(buffer) = customerNo
      OBVIOUS
    <3>3. customerNo_cs' + Len(buffer') = customerNo'
      <4> HIDE DEF LockInv, TypeOK, MutexDiscipline, CustomerKnows, CountersKnow,
                   QueueInv, CountMatchesQueue, NoLostWakeup, Threads, Waiting
      <4> QED
        BY <2>2, <3>1, <3>2
    <3> QED
      BY <3>3
  <2>4. /\ \A t \in Threads : pc'[t] = "wait" => pc[t] = "wait"
        /\ pc'[Customer] = pc[Customer]
    BY <1>7, <2>1 DEF CounterCalls
  <2>5. NoLostWakeup'
    BY <2>1, <2>4
  <2> QED
    BY <2>3, <2>5
<1>8. ASSUME NEW k \in Counters, CounterNotifiesOne(k) PROVE QueueInv'
  BY <1>8 DEF CounterNotifiesOne, NotifyOne
<1>9. ASSUME NEW k \in Counters, CounterServes(k) PROVE QueueInv'
  BY <1>9 DEF CounterServes
<1>10. ASSUME NEW t \in Threads, Lock(t) PROVE QueueInv'
  BY <1>10 DEF Lock
<1>11. ASSUME NEW t \in Threads, Unlock(t) PROVE QueueInv'
  BY <1>11 DEF Unlock
<1>12. ASSUME NEW t \in Threads, CondWait(t) PROVE QueueInv'
  BY <1>12 DEF CondWait, MayProceed
<1>13. ASSUME NEW t \in Threads, SpuriousWakeup(t) PROVE QueueInv'
  BY <1>13 DEF SpuriousWakeup
<1>14. CASE UNCHANGED vars
  BY <1>14 DEF vars
<1> QED
  BY <1>1, <1>2, <1>3, <1>4, <1>5, <1>6, <1>7, <1>8, <1>9, <1>10, <1>11,
     <1>12, <1>13, <1>14, NextCases

(* customerNo_cs and the queue together always account for every arrival. *)
THEOREM CountAlwaysMatches == Spec => []CountMatchesQueue
<1>1. QueueInv => CountMatchesQueue
  BY DEF QueueInv
<1> QED
  BY <1>1, LockInvariant, QueueInvInit, QueueInvStep, PTL DEF Spec

(* No notification is lost: no counter sleeps before a queue that nobody is *)
(* about to announce.                                                       *)
THEOREM NoWakeupIsLost == Spec => []NoLostWakeup
<1>1. QueueInv => NoLostWakeup
  BY DEF QueueInv
<1> QED
  BY <1>1, LockInvariant, QueueInvInit, QueueInvStep, PTL DEF Spec

-----------------------------------------------------------------------------
(* The customers.  CustomersInOrder is inductive once LockInv holds: LockInv *)
(* says that a counter that calls finds a customer, and is itself free.       *)

(* A step that moves no customer leaves them in their order. *)
LEMMA OrderUndisturbed ==
  ASSUME CustomersInOrder,
         UNCHANGED <<buffer, cnt, turnedAway, served, customerNo>>,
         \A k \in Counters : InServiceAt(k)' <=> InServiceAt(k)
  PROVE  CustomersInOrder'
<1>1. Queued' = Queued
  BY DEF Queued
<1>2. Called' = Called
  BY DEF Called
<1>3. EachCustomerOnce'
  BY <1>1, <1>2 DEF CustomersInOrder, EachCustomerOnce
<1>4. FirstComeFirstCalled'
  BY <1>1, <1>2 DEF CustomersInOrder, FirstComeFirstCalled
<1> QED
  BY <1>3, <1>4 DEF CustomersInOrder

(* All steps but four move no customer. *)
LEMMA QuietSteps ==
  ASSUME LockInv, Next, ~CustomerTurnedAway, ~CustomerQueues,
         \A k \in Counters : ~CounterCalls(k) /\ ~CounterServes(k)
  PROVE  /\ UNCHANGED <<buffer, cnt, turnedAway, served, customerNo>>
         /\ \A k \in Counters : InServiceAt(k)' <=> InServiceAt(k)
<1> USE ConstantsAssumption
    DEF LockInv, TypeOK, Threads, Goto, Waiting, history, InServiceAt
<1>1. CASE CustomerLoop
  BY <1>1 DEF CustomerLoop
<1>2. CASE CustomerFindsRoom
  BY <1>2 DEF CustomerFindsRoom
<1>3. CASE CustomerNotifiesAll
  BY <1>3 DEF CustomerNotifiesAll
<1>4. CASE \E k \in Counters : CounterLoop(k)
  BY <1>4 DEF CounterLoop
<1>5. CASE \E k \in Counters : CounterNotifiesOne(k)
  BY <1>5 DEF CounterNotifiesOne, NotifyOne
<1>6. CASE \E t \in Threads : Lock(t)
  BY <1>6 DEF Lock
<1>7. CASE \E t \in Threads : Unlock(t)
  BY <1>7 DEF Unlock
<1>8. CASE \E t \in Threads : CondWait(t)
  BY <1>8 DEF CondWait
<1>9. CASE \E t \in Threads : SpuriousWakeup(t)
  BY <1>9 DEF SpuriousWakeup
<1>10. CASE UNCHANGED vars
  BY <1>10 DEF vars
<1> QED
  BY <1>1, <1>2, <1>3, <1>4, <1>5, <1>6, <1>7, <1>8, <1>9, <1>10, NextCases

(* Before the first customer everything is empty. *)
LEMMA OrderInit == Init => CustomersInOrder
<1> SUFFICES ASSUME Init PROVE CustomersInOrder
  OBVIOUS
<1>1. \A k \in Counters : ~InServiceAt(k)
  BY ConstantsAssumption DEF Init, InServiceAt, Threads
<1>2. Called = {}
  BY <1>1 DEF Called
<1>3. Queued = {}
  BY DEF Init, Queued
<1> QED
  BY <1>1, <1>2, <1>3 DEF Init, CustomersInOrder, EachCustomerOnce, FirstComeFirstCalled

(* What the queue holds after a push. *)
LEMMA QueuedAfterAppend ==
  ASSUME buffer \in Seq(Nat), NEW n \in Nat, buffer' = Append(buffer, n)
  PROVE  /\ Queued' = Queued \cup {n}
         /\ DOMAIN buffer' = 1 .. Len(buffer) + 1
         /\ \A i \in 1 .. Len(buffer) : buffer'[i] = buffer[i]
         /\ buffer'[Len(buffer) + 1] = n
<1>1. /\ DOMAIN buffer' = 1 .. Len(buffer) + 1
      /\ \A i \in 1 .. Len(buffer) : buffer'[i] = buffer[i]
      /\ buffer'[Len(buffer) + 1] = n
      /\ DOMAIN buffer = 1 .. Len(buffer)
      /\ Len(buffer) \in Nat
  OBVIOUS
<1>2. Queued' = Queued \cup {n}
  BY <1>1 DEF Queued
<1> QED
  BY <1>1, <1>2

(* What the queue holds after a pop. *)
LEMMA QueuedAfterTail ==
  ASSUME buffer \in Seq(Nat), buffer # <<>>, buffer' = Tail(buffer)
  PROVE  /\ Queued = Queued' \cup {Head(buffer)}
         /\ Head(buffer) = buffer[1] /\ 1 \in DOMAIN buffer
         /\ \A i \in DOMAIN buffer' : buffer'[i] = buffer[i + 1] /\ i + 1 \in DOMAIN buffer /\ i + 1 > 1
<1>1. /\ Head(buffer) = buffer[1] /\ 1 \in DOMAIN buffer
      /\ DOMAIN buffer = 1 .. Len(buffer) /\ Len(buffer) \in Nat
      /\ DOMAIN buffer' = 1 .. Len(buffer) - 1
      /\ \A i \in 1 .. Len(buffer) - 1 : buffer'[i] = buffer[i + 1]
  OBVIOUS
<1>2. \A i \in DOMAIN buffer' : buffer'[i] = buffer[i + 1] /\ i + 1 \in DOMAIN buffer /\ i + 1 > 1
  BY <1>1
<1>3. \A i \in DOMAIN buffer : i = 1 \/ (i - 1 \in DOMAIN buffer' /\ buffer'[i - 1] = buffer[i])
  BY <1>1
<1>4. Queued = Queued' \cup {Head(buffer)}
  <2>1. ASSUME NEW i \in DOMAIN buffer PROVE buffer[i] \in Queued' \cup {Head(buffer)}
    BY <1>1, <1>3 DEF Queued
  <2>2. Queued' \subseteq Queued /\ Head(buffer) \in Queued
    BY <1>1, <1>2 DEF Queued
  <2> QED
    BY <2>1, <2>2 DEF Queued
<1> QED
  BY <1>1, <1>2, <1>4

(* The four steps that move a customer: turned away, queued, called, served. *)
LEMMA OrderStep == LockInv /\ CustomersInOrder /\ [Next]_vars => CustomersInOrder'
<1> SUFFICES ASSUME LockInv, CustomersInOrder, [Next]_vars PROVE CustomersInOrder'
  OBVIOUS
<1> USE DEF CustomersInOrder
<1>t. /\ buffer \in Seq(Nat) /\ customerNo \in Nat
      /\ cnt \in [Counters -> Nat]
      /\ Customer \notin Counters /\ pc \in [Threads -> CustomerPlaces \cup CounterPlaces]
      /\ Threads = Counters \cup {Customer}
  BY ConstantsAssumption DEF LockInv, TypeOK, Threads
<1>e. /\ \A n \in turnedAway \cup Queued \cup Called \cup served : n \in 0 .. customerNo - 1
      /\ \A n \in 0 .. customerNo - 1 : n \in turnedAway \cup Queued \cup Called \cup served
  BY DEF EachCustomerOnce
<1>1. CASE CustomerTurnedAway
  <2>1. /\ turnedAway' = turnedAway \cup {customerNo}
        /\ customerNo' = customerNo + 1
        /\ UNCHANGED <<buffer, cnt, served>>
        /\ \A k \in Counters : pc'[k] = pc[k]
    BY <1>1, <1>t DEF CustomerTurnedAway, Goto
  <2>2. Queued' = Queued /\ Called' = Called
    BY <2>1 DEF Queued, Called, InServiceAt
  <2>3. FirstComeFirstCalled'
    BY <2>1, <2>2 DEF FirstComeFirstCalled
  <2>4. customerNo \notin Queued \cup Called \cup served
    BY <1>e, <1>t
  <2>5. 0 .. customerNo' - 1 = (0 .. customerNo - 1) \cup {customerNo}
    BY <2>1, <1>t
  <2>6. EachCustomerOnce'
    BY <2>1, <2>2, <2>4, <2>5 DEF EachCustomerOnce, InServiceAt
  <2> QED
    BY <2>3, <2>6
<1>2. CASE CustomerQueues
  <2>1. /\ buffer' = Append(buffer, customerNo)
        /\ customerNo' = customerNo + 1
        /\ UNCHANGED <<cnt, served, turnedAway>>
        /\ \A k \in Counters : pc'[k] = pc[k]
    BY <1>2, <1>t DEF CustomerQueues, Goto, history
  <2>2. /\ Queued' = Queued \cup {customerNo}
        /\ DOMAIN buffer' = 1 .. Len(buffer) + 1
        /\ \A i \in 1 .. Len(buffer) : buffer'[i] = buffer[i]
        /\ buffer'[Len(buffer) + 1] = customerNo
    BY <2>1, <1>t, QueuedAfterAppend
  <2>3. Called' = Called
    BY <2>1 DEF Called, InServiceAt
  <2>4. customerNo \notin turnedAway \cup Queued \cup Called \cup served
    BY <1>e, <1>t
  <2>5. 0 .. customerNo' - 1 = (0 .. customerNo - 1) \cup {customerNo}
    BY <2>1, <1>t
  <2>6. EachCustomerOnce'
    BY <2>1, <2>2, <2>3, <2>4, <2>5 DEF EachCustomerOnce, InServiceAt
  <2>7. \A i \in DOMAIN buffer : buffer[i] \in 0 .. customerNo - 1
    BY <1>e DEF Queued
  <2>8. DOMAIN buffer = 1 .. Len(buffer) /\ Len(buffer) \in Nat
    BY <1>t
  <2>9. FirstComeFirstCalled'
    <3>1. ASSUME NEW i \in DOMAIN buffer', NEW j \in DOMAIN buffer', i < j
          PROVE  buffer'[i] < buffer'[j]
      BY <3>1, <2>2, <2>7, <2>8, <1>t DEF FirstComeFirstCalled
    <3>2. ASSUME NEW n \in Called' \cup served', NEW i \in DOMAIN buffer'
          PROVE  n < buffer'[i]
      BY <3>2, <1>e, <1>t, <2>1, <2>2, <2>3, <2>8 DEF FirstComeFirstCalled
    <3> QED
      BY <3>1, <3>2 DEF FirstComeFirstCalled
  <2> QED
    BY <2>6, <2>9
<1>3. ASSUME NEW k \in Counters, CounterCalls(k) PROVE CustomersInOrder'
  <2>1. /\ cnt' = [cnt EXCEPT ![k] = Head(buffer)]
        /\ buffer' = Tail(buffer)
        /\ UNCHANGED <<customerNo, served, turnedAway>>
        /\ \A l \in Counters : InServiceAt(l)' <=> (InServiceAt(l) \/ l = k)
        /\ ~InServiceAt(k)
    BY <1>3, <1>t DEF CounterCalls, Goto, history, InServiceAt
  <2>2. buffer # <<>>
    BY <1>3 DEF LockInv, CountersKnow, CounterCalls
  <2> DEFINE h == Head(buffer)
  <2>3. /\ Queued = Queued' \cup {h}
        /\ h = buffer[1] /\ 1 \in DOMAIN buffer
        /\ \A i \in DOMAIN buffer' : buffer'[i] = buffer[i + 1] /\ i + 1 \in DOMAIN buffer /\ i + 1 > 1
        /\ DOMAIN buffer' \subseteq Nat
    BY <2>1, <2>2, <1>t, QueuedAfterTail
  <2>4. \A l \in Counters : l # k => cnt'[l] = cnt[l]
    BY <2>1, <1>t
  <2>5. cnt'[k] = h
    BY <2>1, <1>t
  <2> HIDE DEF h
  <2>6. Called' = Called \cup {h}
    BY <2>1, <2>4, <2>5 DEF Called
  <2>7. h \notin turnedAway \cup Called \cup served
    BY <2>3 DEF EachCustomerOnce
  <2>8. \A i \in DOMAIN buffer' : h < buffer'[i]
    BY <2>3 DEF FirstComeFirstCalled
  <2>9. h \notin Queued'
    <3>1. h \in Nat /\ \A i \in DOMAIN buffer' : buffer'[i] \in Nat
      BY <2>3, <1>t
    <3> QED
      BY <2>8, <3>1 DEF Queued
  <2>10. EachCustomerOnce'
    <3>1. \A l, m \in Counters :
            InServiceAt(l)' /\ InServiceAt(m)' /\ cnt'[l] = cnt'[m] => l = m
      <4>1. \A l \in Counters : InServiceAt(l) => cnt[l] # h
        BY <2>7 DEF Called
      <4> QED
        BY <4>1, <2>1, <2>4, <2>5 DEF EachCustomerOnce
    <3> QED
      BY <3>1, <2>1, <2>3, <2>6, <2>7, <2>9 DEF EachCustomerOnce
  <2>11. FirstComeFirstCalled'
    <3>1. ASSUME NEW i \in DOMAIN buffer', NEW j \in DOMAIN buffer', i < j
          PROVE  buffer'[i] < buffer'[j]
      BY <3>1, <2>3 DEF FirstComeFirstCalled
    <3>2. ASSUME NEW n \in Called' \cup served', NEW i \in DOMAIN buffer'
          PROVE  n < buffer'[i]
      BY <2>1, <2>3, <2>6, <2>8 DEF FirstComeFirstCalled
    <3> QED
      BY <3>1, <3>2 DEF FirstComeFirstCalled
  <2> QED
    BY <2>10, <2>11
<1>4. ASSUME NEW k \in Counters, CounterServes(k) PROVE CustomersInOrder'
  <2>1. /\ served' = served \cup {cnt[k]}
        /\ UNCHANGED <<buffer, customerNo, cnt, turnedAway>>
        /\ \A l \in Counters : InServiceAt(l)' <=> (InServiceAt(l) /\ l # k)
        /\ InServiceAt(k)
    BY <1>4, <1>t DEF CounterServes, Goto, InServiceAt
  <2>2. Queued' = Queued
    BY <2>1 DEF Queued
  <2>3. Called = Called' \cup {cnt[k]}
    BY <2>1 DEF Called
  <2>4. cnt[k] \notin Called'
    BY <2>1 DEF EachCustomerOnce, Called
  <2>5. EachCustomerOnce'
    BY <2>1, <2>2, <2>3, <2>4 DEF EachCustomerOnce
  <2>6. FirstComeFirstCalled'
    BY <2>1, <2>3 DEF FirstComeFirstCalled
  <2> QED
    BY <2>5, <2>6
<1>5. CASE UNCHANGED vars
  BY <1>5, OrderUndisturbed DEF vars, history, InServiceAt
<1> QED
  BY <1>1, <1>2, <1>3, <1>4, <1>5, QuietSteps, OrderUndisturbed

(* No customer is lost, served twice or overtaken, whatever the number of *)
(* counters that pop from the one deque.                                  *)
THEOREM NobodyIsLostOrOvertaken == Spec => []CustomersInOrder
BY LockInvariant, OrderInit, OrderStep, PTL DEF Spec

-----------------------------------------------------------------------------
(* The refinement: the four steps that move a customer are the four actions of *)
(* the waiting room, and all others are steps it does not see.                 *)

(* What the counters do, as the waiting room sees it. *)
AtCounter == [k \in Counters |-> IF InServiceAt(k) THEN cnt[k] ELSE Free]

(* The program starts with an empty room. *)
LEMMA WaitingRoomInit == Init => WR!Init
BY ConstantsAssumption DEF Init, WR!Init, InServiceAt, Threads

(* Each step of a thread is a step of the waiting room, or none. *)
LEMMA WaitingRoomStep == LockInv /\ [Next]_vars => [WR!Next]_(WR!vars)
<1> SUFFICES ASSUME LockInv, [Next]_vars
             PROVE  WR!Next \/ UNCHANGED <<buffer, customerNo, turnedAway, AtCounter, served>>
  BY DEF WR!vars, AtCounter
<1>t. /\ buffer \in Seq(Nat) /\ customerNo \in Nat
      /\ cnt \in [Counters -> Nat]
      /\ Customer \notin Counters /\ pc \in [Threads -> CustomerPlaces \cup CounterPlaces]
      /\ Threads = Counters \cup {Customer}
      /\ Free \notin Nat
      /\ MaxBufferSize \in Nat /\ NumberOfCustomers \in Nat
  BY ConstantsAssumption DEF LockInv, TypeOK, Threads
<1>1. CASE CustomerTurnedAway
  <2>1. \A k \in Counters : pc'[k] = pc[k]
    BY <1>1, <1>t DEF CustomerTurnedAway, Goto
  <2>2. AtCounter' = AtCounter
    BY <1>1, <2>1 DEF AtCounter, InServiceAt, CustomerTurnedAway
  <2>3. customerNo < NumberOfCustomers
    BY <1>1 DEF LockInv, CustomerKnows, CustomerTurnedAway
  <2>4. WR!TurnAway
    BY <1>1, <2>2, <2>3 DEF WR!TurnAway, AtCounter, CustomerTurnedAway, QueueFull
  <2> QED
    BY <2>4 DEF WR!Next
<1>2. CASE CustomerQueues
  <2>1. \A k \in Counters : pc'[k] = pc[k]
    BY <1>2, <1>t DEF CustomerQueues, Goto
  <2>2. AtCounter' = AtCounter
    BY <1>2, <2>1 DEF AtCounter, InServiceAt, CustomerQueues
  <2>3. customerNo < NumberOfCustomers /\ Len(buffer) < MaxBufferSize
    BY <1>2 DEF LockInv, CustomerKnows, CustomerQueues
  <2>4. WR!Enter
    BY <1>2, <2>2, <2>3 DEF WR!Enter, AtCounter, CustomerQueues, history
  <2> QED
    BY <2>4 DEF WR!Next
<1>3. ASSUME NEW k \in Counters, CounterCalls(k) PROVE WR!Call(k)
  <2>1. /\ cnt' = [cnt EXCEPT ![k] = Head(buffer)]
        /\ buffer' = Tail(buffer)
        /\ UNCHANGED <<customerNo, served, turnedAway>>
        /\ \A l \in Counters : InServiceAt(l)' <=> (InServiceAt(l) \/ l = k)
        /\ ~InServiceAt(k)
    BY <1>3, <1>t DEF CounterCalls, Goto, history, InServiceAt
  <2>2. buffer # <<>>
    BY <1>3 DEF LockInv, CountersKnow, CounterCalls
  <2>3. AtCounter' = [AtCounter EXCEPT ![k] = Head(buffer)]
    BY <2>1, <1>t DEF AtCounter
  <2>4. AtCounter[k] = Free
    BY <2>1 DEF AtCounter
  <2> QED
    BY <2>1, <2>2, <2>3, <2>4 DEF WR!Call, AtCounter
<1>4. ASSUME NEW k \in Counters, CounterServes(k) PROVE WR!Finish(k)
  <2>1. /\ served' = served \cup {cnt[k]}
        /\ UNCHANGED <<buffer, customerNo, cnt, turnedAway>>
        /\ \A l \in Counters : InServiceAt(l)' <=> (InServiceAt(l) /\ l # k)
        /\ InServiceAt(k)
    BY <1>4, <1>t DEF CounterServes, Goto, InServiceAt
  <2>2. AtCounter' = [AtCounter EXCEPT ![k] = Free]
    BY <2>1, <1>t DEF AtCounter
  <2>3. AtCounter[k] = cnt[k] /\ AtCounter[k] # Free
    BY <2>1, <1>t DEF AtCounter
  <2> QED
    BY <2>1, <2>2, <2>3 DEF WR!Finish, AtCounter
<1>5. ASSUME UNCHANGED <<buffer, cnt, turnedAway, served, customerNo>>,
             \A k \in Counters : InServiceAt(k)' <=> InServiceAt(k)
      PROVE  UNCHANGED <<buffer, customerNo, turnedAway, AtCounter, served>>
  BY <1>5 DEF AtCounter
<1>6. CASE UNCHANGED vars
  BY <1>6, <1>5 DEF vars, history, InServiceAt
<1> QED
  BY <1>1, <1>2, <1>3, <1>4, <1>5, <1>6, QuietSteps DEF WR!Next

(* The threads, the mutex and the condition variable implement the bounded *)
(* first-come first-served queue of WaitingRoom.                            *)
THEOREM TheCounterIsAWaitingRoom == Spec => ImplementsWaitingRoom
BY LockInvariant, WaitingRoomInit, WaitingRoomStep, PTL
   DEF Spec, ImplementsWaitingRoom, WR!Spec
=============================================================================
