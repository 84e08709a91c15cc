--------------------------- MODULE FtpAcceptProofs ---------------------------
(***************************************************************************)
(* Proofs about FtpAccept, for any size of a batch, any array of slots that *)
(* holds one and any number of clients.                                     *)
(***************************************************************************)
EXTENDS FtpAccept, FiniteSetTheorems, WellFoundedInduction, TLAPS

(* What the types rest on.  The threads are born in the order of their    *)
(* numbers, one for each connection accepted but the one main is about to *)
(* start a thread for; so there is a thread left for that one.            *)
ThreadsFollowAccepts ==
  /\ mainPc = "create" => accepted > 0
  /\ Born = 1 .. (IF mainPc = "create" THEN accepted - 1 ELSE accepted)

(* The descriptors that are open belong to different connections, so that *)
(* accept finds a descriptor that is not.                                 *)
OpenIsInjective ==
  /\ \A f \in Descriptors : open[f] <= accepted
  /\ \A f, g \in Descriptors : open[f] = open[g] /\ open[f] # Unused => f = g

(* While main joins, the threads still alive are in the slots to come. *)
JoinsRemain == mainPc = "join" => Live \subseteq {tid[n] : n \in i .. Batch - 1}

(* The inductive invariant behind SlotsConsistent. *)
SlotsInv ==
  /\ SlotsConsistent
  /\ i < Batch
  /\ ThreadsFollowAccepts
  /\ OpenIsInjective
  /\ JoinsRemain

-----------------------------------------------------------------------------
(* The least number principle, for the choice of the lowest descriptor. *)
LEMMA LeastNatural ==
  ASSUME NEW S \in SUBSET Nat, S # {}
  PROVE  \E n \in S : \A m \in S : n <= m
<1>1. \E x \in S : \A y \in S : ~(<<y, x>> \in OpToRel(<, Nat))
  BY NatLessThanWellFounded, WFMin, Zenon
<1>2. \A x, y \in S : <<y, x>> \in OpToRel(<, Nat) <=> y < x
  BY DEF OpToRel
<1>3. \E x \in S : \A y \in S : ~(y < x)
  BY <1>1, <1>2, Zenon
<1> QED
  BY <1>3

(* How many numbers there are up to n. *)
LEMMA CardinalityUpTo ==
  ASSUME NEW n \in Nat
  PROVE  IsFiniteSet(1 .. n) /\ Cardinality(1 .. n) = n
BY FS_Interval

(* accept finds a descriptor that is not open while there is a connection *)
(* to accept: no more descriptors are open than connections were accepted. *)
LEMMA LowestFreeIsFree ==
  ASSUME SlotsInv, accepted < connected
  PROVE  LowestFree \in Descriptors /\ open[LowestFree] = Unused
<1> USE FtpAcceptAssumption DEF SlotsInv, SlotsConsistent, TypeOK, OpenIsInjective,
        Descriptors, Clients, Unused
<1> DEFINE S == {f \in Descriptors : open[f] = Unused}
<1>1. S # {}
  <2> SUFFICES ASSUME S = {} PROVE FALSE
    OBVIOUS
  <2>1. open \in Injection(Descriptors, 1 .. accepted)
    <3>1. \A f \in Descriptors : open[f] \in 1 .. accepted
      OBVIOUS
    <3> QED
      BY <3>1 DEF Injection, IsInjective
  <2>2. IsFiniteSet(1 .. accepted) /\ Cardinality(1 .. accepted) = accepted
    <3>1. accepted \in Nat
      OBVIOUS
    <3> QED
      BY <3>1, CardinalityUpTo
  <2>3. Cardinality(Descriptors) = Connections
    BY CardinalityUpTo
  <2>4. Cardinality(Descriptors) <= Cardinality(1 .. accepted)
    BY <2>1, <2>2, FS_Injection
  <2> QED
    BY <2>2, <2>3, <2>4
<1>2. PICK f \in S : \A g \in S : f <= g
  <2>1. S \in SUBSET Nat
    OBVIOUS
  <2> HIDE DEF S
  <2> QED
    BY <1>1, <2>1, LeastNatural
<1>3. f \in Descriptors /\ open[f] = Unused /\ \A g \in 1 .. f - 1 : open[g] # Unused
  BY <1>2
<1> QED
  BY <1>3, Zenon DEF LowestFree

(* main starts with no thread, no connection and no descriptor. *)
LEMMA SlotsInit == Init => SlotsInv
<1> SUFFICES ASSUME Init PROVE SlotsInv
  OBVIOUS
<1> USE FtpAcceptAssumption DEF Init, Clients, Threads, Descriptors, Unused, Failed
<1>1. SlotsConsistent
  BY DEF SlotsConsistent, TypeOK, BatchesDoNotOverlap, Live
<1>2. ThreadsFollowAccepts /\ OpenIsInjective /\ JoinsRemain
  BY DEF ThreadsFollowAccepts, OpenIsInjective, JoinsRemain, Born
<1> QED
  BY <1>1, <1>2 DEF SlotsInv

(* Every step of main, of a thread and of a client keeps the invariant. *)
LEMMA SlotsStep == SlotsInv /\ [Next]_vars => SlotsInv'
<1> SUFFICES ASSUME SlotsInv, [Next]_vars PROVE SlotsInv'
  OBVIOUS
<1> USE FtpAcceptAssumption
    DEF SlotsInv, SlotsConsistent, TypeOK, BatchesDoNotOverlap, ThreadsFollowAccepts,
        OpenIsInjective, JoinsRemain, Born, Live, Clients, Threads, Descriptors, Unused, Failed
<1>1. CASE Accept
  <2>1. LowestFree \in Descriptors /\ open[LowestFree] = Unused
    BY <1>1, LowestFreeIsFree DEF Accept
  <2>2. TypeOK'
    BY <1>1, <2>1 DEF Accept
  <2>3. OpenIsInjective'
    BY <1>1, <2>1 DEF Accept
  <2> QED
    BY <1>1, <2>2, <2>3 DEF Accept
<1>2. CASE AcceptFails
  BY <1>2 DEF AcceptFails
<1>3. CASE CreateThread
  <2> DEFINE t == Cardinality(Born) + 1
  <2>1. t = accepted /\ t \in Threads
    <3>1. accepted - 1 \in Nat /\ Born = 1 .. accepted - 1
      BY <1>3 DEF CreateThread
    <3>2. Cardinality(Born) = accepted - 1
      BY <3>1, CardinalityUpTo
    <3> QED
      BY <3>1, <3>2
  <2>2. /\ mainPc = "create"
        /\ tid' = [tid EXCEPT ![i] = accepted]
        /\ thread' = [thread EXCEPT ![accepted] = "born"]
        /\ \/ i + 1 >= Batch /\ i' = 0 /\ mainPc' = "join"
           \/ i + 1 < Batch /\ i' = i + 1 /\ mainPc' = "accept"
        /\ UNCHANGED <<client_socket, sock, open, connected, accepted, left>>
    <3> HIDE DEF t, Born
    <3>1. accepted = Cardinality(Born) + 1
      BY <2>1 DEF t
    <3> QED
      <4>1. i + 1 >= Batch \/ i + 1 < Batch
        BY DEF SlotsInv
      <4> QED
        BY <1>3, <3>1, <4>1 DEF CreateThread, BatchFull
  <2> HIDE DEF t
  <2>3. TypeOK' /\ i' < Batch
    BY <2>1, <2>2
  <2>4. ThreadsFollowAccepts'
    BY <2>1, <2>2
  <2>5. Live' = Live \cup {accepted}
    BY <2>1, <2>2
  <2>6. Live \cup {accepted} \subseteq {tid'[n] : n \in 0 .. i}
    BY <2>2
  <2>7. BatchesDoNotOverlap' /\ JoinsRemain'
    BY <2>2, <2>5, <2>6
  <2>8. OpenIsInjective'
    BY <2>2
  <2> QED
    BY <2>3, <2>4, <2>7, <2>8
<1>4. CASE JoinThread
  <2>1. Live \subseteq {tid[n] : n \in i + 1 .. Batch - 1}
    BY <1>4 DEF JoinThread
  <2> QED
    BY <1>4, <2>1 DEF JoinThread
<1>5. ASSUME NEW t \in Threads, ReadSocket(t) PROVE SlotsInv'
  <2>1. Born' = Born /\ Live' \subseteq Live
    BY <1>5 DEF ReadSocket
  <2>2. ThreadsFollowAccepts' /\ BatchesDoNotOverlap' /\ JoinsRemain'
    BY <1>5, <2>1 DEF ReadSocket
  <2>3. TypeOK'
    BY <1>5 DEF ReadSocket
  <2> QED
    BY <1>5, <2>1, <2>2, <2>3 DEF ReadSocket
<1>6. ASSUME NEW t \in Threads, RecvEnd(t) PROVE SlotsInv'
  <2>1. Born' = Born /\ Live' \subseteq Live
    BY <1>6 DEF RecvEnd
  <2>2. ThreadsFollowAccepts' /\ BatchesDoNotOverlap' /\ JoinsRemain'
    <3>1. UNCHANGED <<i, tid, mainPc, accepted>>
      BY <1>6 DEF RecvEnd
    <3> HIDE DEF Born, Live
    <3> QED
      BY <2>1, <3>1
  <2>3. TypeOK'
    BY <1>6 DEF RecvEnd
  <2> QED
    BY <1>6, <2>1, <2>2, <2>3 DEF RecvEnd
<1>7. ASSUME NEW t \in Threads, CloseCommand(t) PROVE SlotsInv'
  <2>1. Born' = Born /\ Live' \subseteq Live
    BY <1>7 DEF CloseCommand
  <2>2. ThreadsFollowAccepts' /\ BatchesDoNotOverlap' /\ JoinsRemain'
    <3>1. UNCHANGED <<i, tid, mainPc, accepted>>
      BY <1>7 DEF CloseCommand
    <3> HIDE DEF Born, Live
    <3> QED
      BY <2>1, <3>1
  <2>4. sock[t] \in Descriptors /\ open[sock[t]] \in Clients
    BY <1>7 DEF CloseCommand
  <2>5. TypeOK'
    BY <1>7, <2>4 DEF CloseCommand
  <2>6. OpenIsInjective'
    BY <1>7, <2>4 DEF CloseCommand
  <2> QED
    BY <1>7, <2>2, <2>5, <2>6 DEF CloseCommand
<1>8. CASE Connect
  <2>1. /\ UNCHANGED <<i, client_socket, tid, mainPc, thread, sock, open, accepted, left>>
        /\ connected' \in 0 .. Connections /\ connected < connected'
    BY <1>8 DEF Connect
  <2>2. TypeOK'
    BY <2>1
  <2>3. Born' = Born /\ Live' = Live
    BY <2>1
  <2>4. ThreadsFollowAccepts' /\ BatchesDoNotOverlap' /\ JoinsRemain' /\ OpenIsInjective'
    <3> HIDE DEF Born, Live
    <3> QED
      BY <2>1, <2>3
  <2> QED
    BY <2>1, <2>2, <2>4
<1>9. ASSUME NEW k \in Clients, Leave(k) PROVE SlotsInv'
  BY <1>9 DEF Leave
<1>10. CASE UNCHANGED vars
  <2>1. Born' = Born /\ Live' = Live
    BY <1>10 DEF vars
  <2>2. ThreadsFollowAccepts' /\ BatchesDoNotOverlap' /\ JoinsRemain'
    <3> HIDE DEF Born, Live
    <3> QED
      BY <1>10, <2>1 DEF vars
  <2> QED
    BY <1>10, <2>2 DEF vars
<1> QED
  BY <1>1, <1>2, <1>3, <1>4, <1>5, <1>6, <1>7, <1>8, <1>9, <1>10
     DEF Next, MainStep, RunnerStep

(* No thread that is alive ever loses its slot of tid, and main's index, the  *)
(* descriptors and the thread numbers keep within their ranges (main of       *)
(* f_server.c: accept, pthread_create and the loop of pthread_join), however   *)
(* often accept fails and whichever thread read whose descriptor.             *)
THEOREM SlotsAgree == Spec => []SlotsConsistent
<1>1. Init => SlotsInv
  BY SlotsInit
<1>2. SlotsInv /\ [Next]_vars => SlotsInv'
  BY SlotsStep
<1>3. SlotsInv => SlotsConsistent
  BY DEF SlotsInv
<1> QED
  BY <1>1, <1>2, <1>3, PTL DEF Spec
=============================================================================
