-------------------------------- MODULE Sjf --------------------------------
(***************************************************************************)
(* sjf_sched of sjf_priority.cpp: shortest job first without preemption,   *)
(* on a table sorted by arrival.  Round i looks for the shortest job that  *)
(* has arrived among the places i, i+1, ... of the table, and swaps it     *)
(* into place i.  The place found is kept in x, which no round resets and  *)
(* which the first round finds uninitialised.                              *)
(*                                                                         *)
(* A process is named by its place in the sorted table; the columns 3 and  *)
(* 4 of the table v are the variables finish and waitCol.                  *)
(***************************************************************************)
EXTENDS Integers
LOCAL INSTANCE FiniteSetsExt

CONSTANTS
  N,         \* the number of processes
  Arrivals,  \* bound: the arrival times (rand() % 10 in the code)
  Bursts     \* bound: the burst times (rand() % 30 + 1)

ASSUME SjfAssumption ==
  /\ N \in Nat \ {0}
  /\ Arrivals \subseteq Nat
  /\ Bursts \subseteq Nat \ {0}

Procs == 0 .. N - 1
Unset == -1

VARIABLES
  arrival_time, burst_time,  \* the process table
  order,    \* the process in each place of v
  finish,   \* column 3 of v by process: when it is finished, 0 if not served
  waitCol,  \* column 4 of v by process: its waiting time, 0 if not served
  x,        \* the place found last, Unset before the first find
  i         \* the round, N when the table is done

sjfVars == <<order, finish, waitCol, x, i>>

(* The bubble sort leaves the table in the order of arrival, and the first *)
(* process is served at once.                                              *)
SjfInit ==
  /\ arrival_time \in [Procs -> Arrivals]
  /\ \A p, o \in Procs : p < o => arrival_time[p] <= arrival_time[o]
  /\ burst_time \in [Procs -> Bursts]
  /\ order = [j \in Procs |-> j]
  /\ finish = [p \in Procs |-> IF p = 0 THEN arrival_time[0] + burst_time[0] ELSE 0]
  /\ waitCol = [p \in Procs |-> 0]
  /\ x = Unset
  /\ i = 1

-----------------------------------------------------------------------------
FreeAt == finish[order[i - 1]]
BurstAt(j) == burst_time[order[j]]
ArrivedAt(j) == arrival_time[order[j]] <= FreeAt

(* The places that can lower low, which starts at the burst in place i: a *)
(* longer job is passed over even when nobody else is ready.              *)
Found == {j \in i .. N - 1 : ArrivedAt(j) /\ BurstAt(j) <= BurstAt(i)}

(* As the test is >=, the last of the shortest is left. *)
LastShortest_LowNotKept(S) == Max(S)
LastShortest(S) ==
  CHOOSE j \in S : \A k \in S : BurstAt(j) < BurstAt(k) \/ (BurstAt(j) = BurstAt(k) /\ k <= j)

Swapped_Overwrites(j) == [order EXCEPT ![i] = order[j]]
Swapped(j) == [order EXCEPT ![i] = order[j], ![j] = order[i]]

(* Place j is served next. *)
Serve(j) ==
  LET p == order[j] IN
  /\ finish' = [finish EXCEPT ![p] = FreeAt + burst_time[p]]
  /\ waitCol' = [waitCol EXCEPT ![p] = finish'[p] - arrival_time[p] - burst_time[p]]
  /\ order' = Swapped(j)
  /\ i' = i + 1
  /\ UNCHANGED <<arrival_time, burst_time>>

FindAndServe ==
  /\ i < N
  /\ Found # {}
  /\ x' = LastShortest(Found)
  /\ Serve(x')

(* Nobody was found: the place of an earlier round is served, or, before any *)
(* find, the place that the uninitialised x happens to name.                 *)
ServeStale ==
  /\ i < N
  /\ Found = {}
  /\ x' \in IF x = Unset THEN Procs ELSE {x}
  /\ Serve(x')

(* An uninitialised x may as well lie outside the table. *)
StaleCrashes == i < N /\ Found = {} /\ x = Unset

SjfStep == FindAndServe \/ ServeStale
SjfDone == i = N

-----------------------------------------------------------------------------
(* Properties. *)

(* The sum of d[0], ..., d[n - 1]. *)
SumBefore(d, n) ==
  LET sum[k \in 0 .. n] == IF k = 0 THEN 0 ELSE sum[k - 1] + d[k - 1]
  IN  sum[n]

(* No processor that starts with process 0 and works without a break would *)
(* ever have to wait for the next arrival.                                  *)
NoGap ==
  \A p \in Procs \ {0} :
    arrival_time[p] <= arrival_time[0] + SumBefore(burst_time, p)

Served == {order[j] : j \in 0 .. i - 1}
ReadyJobs == {p \in Procs \ Served : arrival_time[p] <= FreeAt}

(* As long as there is always somebody to serve, each round serves a job that *)
(* is ready and not served yet, and the shortest of these: the start value of *)
(* low hides none, and the x of an earlier round is never used.               *)
ShortestFirst ==
  [][NoGap /\ i' = i + 1 =>
       /\ order'[i] \in ReadyJobs
       /\ \A p \in ReadyJobs : burst_time[order'[i]] <= burst_time[p]]_sjfVars

(* Then the table that is printed in the end is a true account: each process *)
(* is in it once, served when the one before it is finished, and its waiting  *)
(* time is the sum of the bursts of those who came first, less its arrival.   *)
TrueTable ==
  NoGap /\ SjfDone =>
    /\ \A p \in Procs : \E j \in Procs : order[j] = p
    /\ \A j \in Procs :
         waitCol[order[j]] = arrival_time[0] - arrival_time[order[j]]
                             + SumBefore([k \in Procs |-> BurstAt(k)], j)
=============================================================================
