----------------------------- MODULE RoundRobin -----------------------------
(***************************************************************************)
(* rr_sched and mlq_sched of sched_frm.c: round robin, and the multi-level *)
(* queue in which the system processes run to their end while the          *)
(* interactive ones take turns.  Both walk through one table, sorted by    *)
(* arrival, with the index k, and keep the time in curr_time.              *)
(*                                                                         *)
(* One pass of the do-while loop is two steps: the turn of process k, and  *)
(* the move to the next process, which may wait for its arrival.           *)
(***************************************************************************)
EXTENDS Integers

CONSTANTS
  N,         \* the number of processes
  Quantum,   \* qt, 10 in the code
  Arrivals,  \* bound: the arrival times (rand() % 100 in the code)
  Bursts     \* bound: the burst times (rand() % 100, so that 0 occurs)

ASSUME RoundRobinAssumption ==
  /\ N \in Nat \ {0}
  /\ Quantum \in Nat \ {0}
  /\ Arrivals \subseteq Nat
  /\ Bursts \subseteq Nat

Procs == 0 .. N - 1

VARIABLES
  policy,                    \* "rr" or "mlq"
  system,                    \* the processes of type System, the rest is Interactive
  arrival_time, temp_bt,     \* the process table; temp_bt is the whole burst
  burst_time,                \* how much of its burst each process still needs
  flag,                      \* the processes that are finished
  wait_time,                 \* the reported waiting time, -1 before
  curr_time,
  k,                         \* whose turn it is
  phase,                     \* "turn", "next" or "end"
  waited,                    \* history: how long each process has been kept waiting
  passed                     \* history: who had turns since each process, being there, had one

job == <<policy, system, arrival_time, temp_bt>>
vars == <<job, burst_time, flag, wait_time, curr_time, k, phase, waited, passed>>

Init ==
  /\ policy \in {"rr", "mlq"}
  /\ system \in IF policy = "rr" THEN {{}} ELSE SUBSET Procs
  /\ arrival_time \in [Procs -> Arrivals]
  /\ \A p, o \in Procs : p < o => arrival_time[p] <= arrival_time[o]
  /\ temp_bt \in [Procs -> Bursts]
  /\ burst_time = temp_bt
  /\ flag = {}
  /\ wait_time = [p \in Procs |-> -1]
  /\ curr_time = arrival_time[0]
  /\ k = 0
  /\ phase = "turn"
  /\ waited = [p \in Procs |-> 0]
  /\ passed = [p \in Procs |-> {}]

-----------------------------------------------------------------------------
(* History: how long p is kept waiting between now and a later time. *)
Kept(p, later) ==
  LET from == IF arrival_time[p] > curr_time THEN arrival_time[p] ELSE curr_time
  IN  IF from < later THEN later - from ELSE 0

(* History: p has a turn until curr_time', and the others wait for it. *)
Account(p) ==
  /\ waited' = [q \in Procs |->
       IF q = p \/ q \in flag THEN waited[q] ELSE waited[q] + Kept(q, curr_time')]
  /\ passed' = [q \in Procs |->
       IF q = p \/ q \in flag \/ arrival_time[q] > curr_time THEN {} ELSE passed[q] \cup {p}]

-----------------------------------------------------------------------------
WaitAtEnd_FromStart(p) == curr_time' - arrival_time[p]
WaitAtEnd(p) == curr_time' - temp_bt[p] - arrival_time[p]

(* p, not finished yet, runs for a quantum or to its end. *)
RunQuantum(p) ==
  LET slice == IF burst_time[p] < Quantum THEN burst_time[p] ELSE Quantum IN
  /\ curr_time' = curr_time + slice
  /\ burst_time' = [burst_time EXCEPT ![p] = @ - slice]
  /\ IF burst_time'[p] = 0
     THEN flag' = flag \cup {p} /\ wait_time' = [wait_time EXCEPT ![p] = WaitAtEnd(p)]
     ELSE UNCHANGED <<flag, wait_time>>
  /\ Account(p)

(* Round robin goes back to process 0 when process k has not arrived. *)
Turn == IF curr_time < arrival_time[k] THEN 0 ELSE k

RoundRobinTurn ==
  /\ phase = "turn" /\ policy = "rr"
  /\ k' = Turn
  /\ IF Turn \in flag
     THEN UNCHANGED <<burst_time, flag, wait_time, curr_time, waited, passed>>
     ELSE RunQuantum(Turn)
  /\ phase' = "next"
  /\ UNCHANGED job

(* A system process runs to its end at once, whether it has arrived or not. *)
SystemTurn ==
  /\ phase = "turn" /\ policy = "mlq"
  /\ k \in system \ flag
  /\ wait_time' = [wait_time EXCEPT ![k] = curr_time - arrival_time[k]]
  /\ curr_time' = curr_time + temp_bt[k]
  /\ flag' = flag \cup {k}
  /\ Account(k)
  /\ phase' = "next"
  /\ UNCHANGED <<job, burst_time, k>>

(* An interactive process that has not arrived sends the walk back to process *)
(* 0 by a continue, which leaves out the move to the next process.             *)
InteractiveTurn ==
  /\ phase = "turn" /\ policy = "mlq"
  /\ k \notin system \cup flag
  /\ IF curr_time < arrival_time[k]
     THEN /\ k' = 0
          /\ UNCHANGED <<burst_time, flag, wait_time, curr_time, phase, waited, passed>>
     ELSE RunQuantum(k) /\ phase' = "next" /\ UNCHANGED k
  /\ UNCHANGED job

FinishedTurn ==
  /\ phase = "turn" /\ policy = "mlq"
  /\ k \in flag
  /\ phase' = "next"
  /\ UNCHANGED <<job, burst_time, flag, wait_time, curr_time, k, waited, passed>>

-----------------------------------------------------------------------------
(* Nobody up to k is left and the next one is still to come: the search for *)
(* an unfinished one runs down to index -1, whose flag is read and ignored.  *)
MustWait_Never == FALSE
MustWait_PredecessorsIgnored == k < N - 1 /\ curr_time < arrival_time[k + 1]
MustWait == k < N - 1 /\ curr_time < arrival_time[k + 1] /\ 0 .. k \subseteq flag

Following_StaysUntilFinished == IF k \in flag THEN (k + 1) % N ELSE k
Following == (k + 1) % N

NextProcess ==
  /\ phase = "next"
  /\ curr_time' = IF MustWait THEN arrival_time[k + 1] ELSE curr_time
  /\ waited' = [q \in Procs |->
       IF q \in flag THEN waited[q] ELSE waited[q] + Kept(q, curr_time')]
  /\ k' = Following
  /\ phase' = IF flag = Procs THEN "end" ELSE "turn"
  /\ UNCHANGED <<job, burst_time, flag, wait_time, passed>>

Next == RoundRobinTurn \/ SystemTurn \/ InteractiveTurn \/ FinishedTurn \/ NextProcess

Spec == Init /\ [][Next]_vars

(* A sequential program goes on as long as it can. *)
FairSpec == Spec /\ WF_vars(Next)

-----------------------------------------------------------------------------
(* fifo_sched: the waiting time of each process in the order of arrival. *)
NotNegative_Forgotten(wait) == wait
NotNegative(wait) == IF wait < 0 THEN 0 ELSE wait
FifoWait[p \in Procs] ==
  IF p = 0 THEN 0
  ELSE NotNegative(FifoWait[p - 1] + temp_bt[p - 1] + arrival_time[p - 1] - arrival_time[p])

-----------------------------------------------------------------------------
(* Properties. *)

(* The reported waiting times, which the code computes from the time, are    *)
(* what the processes really waited.  The one exception is a system process  *)
(* that was started before it arrived, which has not waited at all and is    *)
(* reported with a negative time; no other process is run before it arrives. *)
WaitsAreTrue ==
  \A p \in flag :
    \/ wait_time[p] = waited[p]
    \/ p \in system /\ wait_time[p] < 0 /\ waited[p] = 0

(* The processor is left idle only while nobody is there: the time that the  *)
(* code skips ends no later than the next arrival of an unfinished process.   *)
IdleOnlyWhenEmpty ==
  [][phase = "next" /\ curr_time' > curr_time
       => \A p \in Procs \ flag : arrival_time[p] >= curr_time']_vars

(* They take turns: nobody has a second turn while somebody who was there for *)
(* the first has had none, although the walk jumps back to process 0 whenever *)
(* it meets a process that has not arrived.                                   *)
TakeTurns ==
  [][\A p \in Procs :
       burst_time'[p] < burst_time[p] \/ p \in flag' \ flag
         => \A o \in Procs \ (flag \cup {p}) : p \notin passed[o]]_vars

(* Where no process needs a second turn and none is started early, both are   *)
(* nothing but first in, first out, and report the times of fifo_sched.       *)
FifoWhenShort ==
  /\ phase = "end"
  /\ \A p \in Procs \ system : temp_bt[p] <= Quantum
  /\ \A p \in Procs : wait_time[p] >= 0
  => wait_time = FifoWait

(* The walk always gets on: neither the jumps back nor the finished processes *)
(* it passes make it turn round for ever.                                     *)
AllFinish == <>(phase = "end")
=============================================================================
