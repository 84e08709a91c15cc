-------------------------------- MODULE Cfs --------------------------------
(***************************************************************************)
(* linux_sched: the completely fair scheduler.  The ready processes are in *)
(* a tree ordered by virtual run time; the leftmost runs for a slice that  *)
(* is its share, by weight, of the targeted latency, and is then charged   *)
(* the time it ran, scaled by its weight.                                  *)
(*                                                                         *)
(* One pass of the while loop is one unit of time, in three phases: the    *)
(* scan that admits the newcomers, the choice of the process to run, and   *)
(* the run.  The virtual run times, double in the code, are integers (all  *)
(* that is ever added to them is); a slice is rounded up to the number of  *)
(* units after which the code finds tsl <= 0.                              *)
(***************************************************************************)
EXTENDS Integers, SequencesExt

CONSTANTS
  N,        \* the number of processes
  Arrivals, \* bound: the arrival times (rand() % 10 in the code)
  Bursts,   \* bound: the burst times (rand() % 30 + 1)
  Nices     \* bound: the nice values, 0 .. 39 (rand() % 40)

ASSUME CfsAssumption ==
  /\ N \in Nat
  /\ Arrivals \subseteq Nat
  /\ Bursts \subseteq Nat \ {0}
  /\ Nices \subseteq 0 .. 39

Procs == 0 .. N - 1
None == -1
MGD == 4
TLD == 20

(* The weight of each nice value; the table of the code starts at 0. *)
WeightTable ==
  <<88761, 71755, 56483, 46273, 36291, 29154, 23254, 18705, 14949, 11916,
    9548, 7620, 6100, 4904, 3906, 3121, 2501, 1991, 1586, 1277,
    1024, 820, 655, 526, 423, 335, 272, 215, 172, 137,
    110, 87, 70, 56, 45, 36, 29, 23, 18, 15>>
nyc_to_w == [nice \in 0 .. 39 |-> WeightTable[nice + 1]]

VARIABLES
  arrival_time, burst_time, nyc,  \* the process table of generate_proc_data
  rem_time,   \* the rest of each process's burst
  wait_time,  \* the reported waiting time, -1 until the process is finished
  vrt,        \* the virtual run time of each process
  rbt,        \* the tree, as the sequence of its processes from the left
  index,      \* the running process (curr), or None
  tsl,        \* what is left of its slice
  art,        \* how long it has run since it got the processor
  min_vrt,    \* its virtual run time when it got the processor
  ts,         \* the time
  phase,      \* "admit", "pick", "run" or "end"
  waited,     \* history: how long each process has been in the tree
  start       \* history: the virtual run time each process began with

job == <<arrival_time, burst_time, nyc>>
cpu == <<index, tsl, art, min_vrt>>
vars == <<job, rem_time, wait_time, vrt, rbt, cpu, ts, phase, waited, start>>

Enqueued == {rbt[i] : i \in DOMAIN rbt}
Finished == {p \in Procs : rem_time[p] = 0}

Init ==
  /\ arrival_time \in [Procs -> Arrivals]
  /\ burst_time \in [Procs -> Bursts]
  /\ nyc \in [Procs -> Nices]
  /\ rem_time = burst_time
  /\ wait_time = [p \in Procs |-> -1]
  /\ vrt = [p \in Procs |-> 0]
  /\ rbt = <<>>
  /\ index = None /\ tsl = 0 /\ art = 0 /\ min_vrt = 0
  /\ ts = 0
  /\ phase = IF N = 0 THEN "end" ELSE "admit"
  /\ waited = [p \in Procs |-> 0]
  /\ start = [p \in Procs |-> 0]

-----------------------------------------------------------------------------
(* multimap::insert: behind those with the same key. *)
InsertByVrt_Reversed(tree, key, p) ==
  InsertAt(tree, Cardinality({i \in DOMAIN tree : key[tree[i]] > key[p]}) + 1, p)
InsertByVrt(tree, key, p) ==
  InsertAt(tree, Cardinality({i \in DOMAIN tree : key[tree[i]] <= key[p]}) + 1, p)

min_vrtm(tree, key) == IF tree = <<>> THEN 0 ELSE key[Head(tree)]

(* A newcomer starts half a granularity before the leftmost process, or at 0 *)
(* if that cannot be; the next newcomer of the same time starts before it.   *)
Newcomer(state, p) ==
  LET least == min_vrtm(state.tree, state.key)
      key == IF least >= MGD \div 2
             THEN [state.key EXCEPT ![p] = least - MGD \div 2] ELSE state.key
  IN  [tree |-> InsertByVrt(state.tree, key, p), key |-> key]

(* The scan of the process table. *)
Scanned ==
  LET after[n \in 0 .. N] ==
        IF n = 0 THEN [tree |-> rbt, key |-> vrt]
        ELSE IF arrival_time[n - 1] = ts THEN Newcomer(after[n - 1], n - 1)
        ELSE after[n - 1]
  IN  after[N]

Admit ==
  /\ phase = "admit"
  /\ rbt' = Scanned.tree
  /\ vrt' = Scanned.key
  /\ start' = [p \in Procs |-> IF arrival_time[p] = ts THEN vrt'[p] ELSE start[p]]
  /\ phase' = "pick"
  /\ UNCHANGED <<job, rem_time, wait_time, cpu, ts, waited>>

-----------------------------------------------------------------------------
(* calc_tsl: the share of p in the targeted latency, given those in the tree. *)
calc_tsl(tree, p) ==
  LET sum[i \in 0 .. Len(tree)] ==
        IF i = 0 THEN 0 ELSE sum[i - 1] + nyc_to_w[nyc[tree[i]]]
      weights == sum[Len(tree)]
      latency == IF Len(tree) * MGD > TLD THEN Len(tree) * MGD ELSE TLD
  IN  (latency * nyc_to_w[nyc[p]] + weights - 1) \div weights

(* p is taken out of the tree and gets the processor for its share. *)
Dispatch(p, tree, key) ==
  /\ index' = p
  /\ tsl' = calc_tsl(tree, p)
  /\ art' = 0
  /\ min_vrt' = key[p]
  /\ rbt' = RemoveFirst(tree, p)

(* vrt after the time since the last dispatch; the quotient of the weights is *)
(* one of integers.                                                           *)
Charge(t) == vrt[index] + t * (nyc_to_w[0] \div nyc_to_w[nyc[index]])

PickLeftmost ==
  /\ phase = "pick"
  /\ index = None
  /\ IF rbt = <<>> THEN UNCHANGED <<rbt, cpu>> ELSE Dispatch(Head(rbt), rbt, vrt)
  /\ phase' = "run"
  /\ UNCHANGED <<job, rem_time, wait_time, vrt, ts, waited, start>>

(* After MGD units the running process gives way to one whose virtual run   *)
(* time is not above the one it had itself when it got the processor.       *)
GivesWay ==
  rbt # <<>> /\ art >= MGD /\ vrt[Head(rbt)] <= min_vrt

(* The leftmost is chosen before the running process goes back to the tree. *)
Preempt_NotCharged ==
  /\ phase = "pick"
  /\ index # None
  /\ GivesWay
  /\ Dispatch(Head(rbt), InsertByVrt(rbt, vrt, index), vrt)
  /\ phase' = "run"
  /\ UNCHANGED <<job, rem_time, wait_time, vrt, ts, waited, start>>
Preempt ==
  /\ phase = "pick"
  /\ index # None
  /\ GivesWay
  /\ vrt' = [vrt EXCEPT ![index] = Charge(art)]
  /\ Dispatch(Head(rbt), InsertByVrt(rbt, vrt', index), vrt')
  /\ phase' = "run"
  /\ UNCHANGED <<job, rem_time, wait_time, ts, waited, start>>

Continue ==
  /\ phase = "pick"
  /\ index # None
  /\ ~GivesWay
  /\ phase' = "run"
  /\ UNCHANGED <<job, rem_time, wait_time, vrt, rbt, cpu, ts, waited, start>>

-----------------------------------------------------------------------------
RunIdle ==
  /\ phase = "run"
  /\ index = None
  /\ ts' = ts + 1
  /\ phase' = "admit"
  /\ UNCHANGED <<job, rem_time, wait_time, vrt, rbt, cpu, waited, start>>

Requeued_Lost(key) == rbt
Requeued(key) == InsertByVrt(rbt, key, index)

(* One unit of time of the running process: it is finished, or its slice is *)
(* used up and it goes back to the tree, or it goes on.                     *)
RunProcess ==
  /\ phase = "run"
  /\ index # None
  /\ rem_time' = [rem_time EXCEPT ![index] = @ - 1]
  /\ waited' = [p \in Procs |-> IF p \in Enqueued THEN waited[p] + 1 ELSE waited[p]]
  /\ IF rem_time'[index] = 0
     THEN /\ wait_time' = [wait_time EXCEPT ![index] =
                             ts + 1 - arrival_time[index] - burst_time[index]]
          /\ index' = None /\ tsl' = 0 /\ art' = 0 /\ min_vrt' = 0
          /\ UNCHANGED <<vrt, rbt>>
     ELSE IF tsl - 1 <= 0
     THEN /\ vrt' = [vrt EXCEPT ![index] = Charge(art + 1)]
          /\ rbt' = Requeued(vrt')
          /\ index' = None /\ tsl' = 0 /\ art' = 0 /\ min_vrt' = 0
          /\ UNCHANGED wait_time
     ELSE /\ tsl' = tsl - 1 /\ art' = art + 1
          /\ UNCHANGED <<wait_time, vrt, rbt, index, min_vrt>>
  /\ ts' = ts + 1
  /\ phase' = IF \A p \in Procs : rem_time'[p] = 0 THEN "end" ELSE "admit"
  /\ UNCHANGED <<job, start>>

Next == Admit \/ PickLeftmost \/ Preempt \/ Continue \/ RunIdle \/ RunProcess

Spec == Init /\ [][Next]_vars

-----------------------------------------------------------------------------
(* Properties. *)

TypeOK ==
  /\ rem_time \in [Procs -> Nat]
  /\ wait_time \in [Procs -> Nat \cup {-1}]
  /\ vrt \in [Procs -> Nat]
  /\ rbt \in Seq(Procs)
  /\ index \in Procs \cup {None}
  /\ tsl \in Nat /\ art \in Nat /\ min_vrt \in Nat
  /\ ts \in Nat
  /\ phase \in {"admit", "pick", "run", "end"}

(* The tree is ordered, by the virtual run times that its processes have now, *)
(* and holds none of them twice: no key goes stale while it is in the tree.   *)
TreeInOrder ==
  \A i, j \in DOMAIN rbt :
    i < j => vrt[rbt[i]] <= vrt[rbt[j]] /\ rbt[i] # rbt[j]

(* The tree agrees with the process table at all times: it is ordered by the  *)
(* current vrt of its processes, each of which is in it once, on a well-typed  *)
(* state, whichever of the three inserts put them there.                       *)
TreeConsistent == TypeOK /\ TreeInOrder

(* The accounts balance: a process is charged, at its own rate, for all the  *)
(* time it has run up to its last turn, whether that ended with its slice or  *)
(* by preemption, and no unit is charged twice.                               *)
ChargedForTimeRun ==
  \A p \in Procs \ Finished :
    vrt[p] = start[p] + (nyc_to_w[0] \div nyc_to_w[nyc[p]])
                          * (burst_time[p] - rem_time[p] - IF p = index THEN art ELSE 0)

(* The simulation is one of a work-conserving processor, and the waiting times *)
(* that it reports are those that the processes really had.                    *)
Cpu == INSTANCE UniProcessor WITH
         arrival  <- arrival_time,
         burst    <- burst_time,
         now      <- ts,
         rem      <- rem_time,
         reported <- wait_time
ImplementsUniProcessor == Cpu!Spec
=============================================================================
