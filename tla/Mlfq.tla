-------------------------------- MODULE Mlfq --------------------------------
(***************************************************************************)
(* mlfq_sched: the multi-level feedback queue.  Q1 holds priorities below  *)
(* q2_lp and is a preemptive priority queue, Q2 those below q3_lp and Q3   *)
(* the rest, both first come first served with a time slice.  A process    *)
(* that uses up its slice is demoted, one that waits grows older: its      *)
(* priority number falls by one in each unit of time.                      *)
(*                                                                         *)
(* One pass of the while loop is one unit of time, in four phases: the     *)
(* scan that admits the newcomers and moves processes between the queues,  *)
(* the choice of the process to run, the run, and the ageing.              *)
(***************************************************************************)
EXTENDS Integers, FiniteSets

CONSTANTS
  N,        \* the number of processes
  Arrivals, \* bound: the arrival times (rand() % 10 in the code)
  Bursts,   \* bound: the burst times (rand() % 30 + 1)
  Prts      \* bound: the priorities (rand() % 40)

Procs == 0 .. N - 1
None == -1

q2_lp == 10
q3_lp == 20
Queues == 1 .. 3
Slice(level) == CASE level = 1 -> 2 [] level = 2 -> 5 [] level = 3 -> 8

ASSUME MlfqAssumption ==
  /\ N \in Nat
  /\ Arrivals \subseteq Nat
  /\ Bursts \subseteq Nat \ {0}
  /\ Prts \subseteq 0 .. 39

VARIABLES
  arrival_time, burst_time,  \* the process table: what generate_proc_data chose
  rem_time,      \* the rest of each process's burst
  res_arr_time,  \* when each process entered its queue
  prt,           \* the priority of each process
  wait_time,     \* the reported waiting time, -1 until the process is finished
  q,             \* the queues Q1, Q2 and Q3, each as the set of its members
  index,         \* the running process, or None
  level,         \* the queue it came from (proc_q1 .. proc_q3), 0 if none
  slice,         \* what is left of its time slice
  ts,            \* the time
  phase,         \* "admit", "pick", "run", "age" or "end"
  waited,        \* history: how long each process has been in a queue
  entered        \* history: when each process came to the queue it is in

job == <<arrival_time, burst_time>>
cpu == <<index, level, slice>>
history == <<waited, entered>>
vars == <<job, rem_time, res_arr_time, prt, wait_time, q, cpu, ts, phase, history>>

Finished == {p \in Procs : rem_time[p] = 0}
Enqueued == UNION {q[k] : k \in Queues}
Band(p) == CASE prt[p] < q2_lp -> 1
             [] prt[p] >= q2_lp /\ prt[p] < q3_lp -> 2
             [] OTHER -> 3

Init ==
  /\ arrival_time \in [Procs -> Arrivals]
  /\ burst_time \in [Procs -> Bursts]
  /\ prt \in [Procs -> Prts]
  /\ rem_time = burst_time
  /\ res_arr_time = arrival_time
  /\ wait_time = [p \in Procs |-> -1]
  /\ q = [k \in Queues |-> {}]
  /\ index = None /\ level = 0 /\ slice = 0
  /\ ts = 0
  /\ phase = IF N = 0 THEN "end" ELSE "admit"
  /\ waited = [p \in Procs |-> 0]
  /\ entered = arrival_time

-----------------------------------------------------------------------------
(* The scan over the process table: those that arrive now enter the queue of *)
(* their priority, and those that are in the wrong queue by now change over.  *)
Belongs(p, k) == Band(p) = k

ChangesOver_OnlyDown(p) == p \in UNION {q[k] : k \in 1 .. Band(p) - 1}
ChangesOver(p) == p \in Enqueued \ q[Band(p)]

Admit ==
  /\ phase = "admit"
  /\ q' = [k \in Queues |->
             {p \in Procs : arrival_time[p] = ts /\ Band(p) = k}
               \cup {p \in Enqueued : Belongs(p, k)}]
  /\ res_arr_time' = [p \in Procs |-> IF ChangesOver(p) THEN ts ELSE res_arr_time[p]]
  /\ entered' = [p \in Procs |->
                   IF \E k \in Queues : p \in q'[k] \ q[k] THEN ts ELSE entered[p]]
  /\ phase' = "pick"
  /\ UNCHANGED <<job, rem_time, prt, wait_time, cpu, ts, waited>>

(* The tops of the heaps.  Q1 orders by priority and then by falling index. *)
(* Q2 and Q3 order by res_arr_time; among equals the priority decides, but  *)
(* by what it was when the heap was last arranged, so any may be the top.   *)
IsTop(p, k) ==
  /\ p \in q[k]
  /\ \A o \in q[k] :
       IF k = 1 THEN prt[p] < prt[o] \/ (prt[p] = prt[o] /\ p >= o)
                ELSE res_arr_time[p] <= res_arr_time[o]

(* p, from queue k, gets the processor; a process that had it goes back. *)
Dispatch(p, k) ==
  /\ IsTop(p, k)
  /\ q' = [j \in Queues |-> (q[j] \ (IF j = k THEN {p} ELSE {}))
                              \cup (IF j = level THEN {index} ELSE {})]
  /\ index' = p /\ level' = k /\ slice' = Slice(k)

(* The first queue of some, or none. *)
First(levels) == {k \in levels : \A j \in levels : k <= j}

Pick ==
  LET best == First({k \in Queues : q[k] # {}}) IN
  /\ phase = "pick"
  /\ index = None
  /\ IF best = {} THEN UNCHANGED <<q, cpu>>
     ELSE \E k \in best : \E p \in q[k] : Dispatch(p, k)
  /\ phase' = "run"
  /\ UNCHANGED <<job, rem_time, res_arr_time, prt, wait_time, ts, history>>

(* A running process gives way to a better one of Q1, and one of a lower *)
(* queue to any of a higher.                                             *)
GivesWayTo_OnlyQ1(p, k) == k = 1 /\ (level = 1 => prt[p] < prt[index])
GivesWayTo(p, k) == k < level \/ (k = 1 /\ level = 1 /\ prt[p] < prt[index])

Preempt ==
  LET best == First({k \in Queues : \E p \in q[k] : GivesWayTo(p, k)}) IN
  /\ phase = "pick"
  /\ index # None
  /\ IF best = {} THEN UNCHANGED <<q, cpu>>
     ELSE \E k \in best : \E p \in q[k] : Dispatch(p, k)
  /\ phase' = "run"
  /\ UNCHANGED <<job, rem_time, res_arr_time, prt, wait_time, ts, history>>

-----------------------------------------------------------------------------
Release == index' = None /\ level' = 0

RunIdle ==
  /\ phase = "run"
  /\ index = None
  /\ phase' = "age"
  /\ UNCHANGED <<job, rem_time, res_arr_time, prt, wait_time, q, cpu, ts, history>>

(* One unit of time of the running process, and what becomes of it: it is   *)
(* finished, or its slice is used up, or it goes on.  A slice that is used  *)
(* up costs a process of Q1 or Q2 the last place in the band below.         *)
Demoted(p) ==
  CASE level = 1 -> (q2_lp - (prt[p] % q2_lp) - 1) + prt[p] + q2_lp
    [] level = 2 -> (q3_lp - (prt[p] % q3_lp) - 1) + prt[p] + q3_lp
    [] OTHER     -> prt[p]

Requeued_NotInQ3 == IF level = 3 THEN q ELSE [q EXCEPT ![level] = @ \cup {index}]
Requeued == [q EXCEPT ![level] = @ \cup {index}]

WaitOf_OffByOne(p) == ts - arrival_time[p] - burst_time[p]
WaitOf(p) == ts + 1 - arrival_time[p] - burst_time[p]

RunProcess ==
  /\ phase = "run"
  /\ index # None
  /\ rem_time' = [rem_time EXCEPT ![index] = @ - 1]
  /\ waited' = [p \in Procs |-> IF p \in Enqueued THEN waited[p] + 1 ELSE waited[p]]
  /\ IF rem_time'[index] = 0
     THEN /\ wait_time' = [wait_time EXCEPT ![index] = WaitOf(index)]
          /\ Release /\ slice' = 0
          /\ UNCHANGED <<prt, q>>
     ELSE /\ slice' = slice - 1
          /\ IF slice' = 0
             THEN /\ prt' = [prt EXCEPT ![index] = Demoted(index)]
                  /\ q' = Requeued
                  /\ Release
             ELSE UNCHANGED <<prt, q, index, level>>
          /\ UNCHANGED wait_time
  /\ phase' = "age"
  /\ UNCHANGED <<job, res_arr_time, ts, entered>>

(* The ageing, and the loop test.  A process that has just lost the processor *)
(* ages at once; one that has just arrived does not yet.                      *)
Ages_IntoQ1(p) ==
  arrival_time[p] < ts /\ prt[p] >= q2_lp /\ p # index /\ wait_time[p] = -1
Ages(p) ==
  arrival_time[p] < ts /\ prt[p] > q2_lp /\ p # index /\ wait_time[p] = -1

Age ==
  /\ phase = "age"
  /\ prt' = [p \in Procs |-> IF Ages(p) THEN prt[p] - 1 ELSE prt[p]]
  /\ ts' = ts + 1
  /\ phase' = IF Finished = Procs THEN "end" ELSE "admit"
  /\ UNCHANGED <<job, rem_time, res_arr_time, wait_time, q, cpu, history>>

Next == Admit \/ Pick \/ Preempt \/ RunIdle \/ RunProcess \/ Age

Spec == Init /\ [][Next]_vars

-----------------------------------------------------------------------------
(* Properties. *)

TypeOK ==
  /\ rem_time \in [Procs -> Nat]
  /\ res_arr_time \in [Procs -> Nat]
  /\ prt \in [Procs -> 0 .. 39]
  /\ wait_time \in [Procs -> Nat \cup {-1}]
  /\ q \in [Queues -> SUBSET Procs]
  /\ index \in Procs \cup {None}
  /\ level \in 0 .. 3
  /\ slice \in 0 .. 8
  /\ ts \in Nat
  /\ phase \in {"admit", "pick", "run", "age", "end"}

(* No process is lost or doubled by the moves between three heaps and the     *)
(* processor: one that has been admitted and is not finished is in exactly    *)
(* one of them, and the others are in none.                                   *)
Admitted == {p \in Procs : arrival_time[p] < ts \/ (arrival_time[p] = ts /\ phase # "admit")}
EachProcessOnce ==
  /\ Enqueued \cup ({index} \ {None}) = Admitted \ Finished
  /\ index \notin Enqueued
  /\ \A j, k \in Queues : j # k => q[j] \cap q[k] = {}

(* The best runs: nobody waits in a higher queue than the running process's,  *)
(* nor in Q1 with a better priority, and the processor is idle only when no   *)
(* one waits.                                                                 *)
BestRuns ==
  phase = "run" =>
    IF index = None THEN Enqueued = {}
    ELSE /\ \A k \in 1 .. level - 1 : q[k] = {}
         /\ level = 1 => \A p \in q[1] : prt[index] <= prt[p]

(* When a process is chosen, every queue holds exactly the priorities of its *)
(* band, so that the demotions and the ageing have taken effect.              *)
QueuesMatchBands ==
  phase \in {"pick", "run"} => \A k \in Queues : \A p \in q[k] : Band(p) = k

(* The three heaps, the processor and the priorities agree, on a well-typed   *)
(* state: no process is lost, doubled or in the heap of another band, along    *)
(* whichever of the paths through the queues it came.                          *)
QueuesConsistent == TypeOK /\ EachProcessOnce /\ QueuesMatchBands

(* Ageing brings a process of Q3 up to Q2 but never into Q1, and none goes   *)
(* down but by using up its slice in Q1 or Q2, which costs it one band.      *)
PriorityMoves ==
  [][\A p \in Procs : /\ prt'[p] < q2_lp => prt[p] < q2_lp
                      /\ prt'[p] > prt[p] => /\ p = index /\ slice = 1 /\ level < 3
                                             /\ Band(p)' = Band(p) + 1]_vars

(* Q2 and Q3 are first come first served by the time at which a process      *)
(* came to the queue, by arrival, demotion or ageing: one that gets the       *)
(* processor from there is one that came to the queue no later than the rest. *)
FirstComeFirstRun ==
  [][\A k \in {2, 3} :
       index' # index /\ level' = k
         => \A p \in q'[k] \ {index} : entered[index'] <= entered[p]]_vars

(* The simulation is one of a work-conserving processor, and the waiting times *)
(* that it reports are those that the processes really had.                    *)
Cpu == INSTANCE UniProcessor WITH
         arrival  <- arrival_time,
         burst    <- burst_time,
         now      <- IF phase = "age" THEN ts + 1 ELSE ts,
         rem      <- rem_time,
         reported <- wait_time
ImplementsUniProcessor == Cpu!Spec
=============================================================================
