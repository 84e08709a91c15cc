------------------------------ MODULE MlfqProofs ------------------------------
(***************************************************************************)
(* Proofs about Mlfq, for any number of processes and any times, bursts    *)
(* and priorities.                                                         *)
(***************************************************************************)
EXTENDS Mlfq, TLAPS

(* The time that is over: in the phase "age" one more unit than ts tells. *)
Now == IF phase = "age" THEN ts + 1 ELSE ts

JobTyped ==
  /\ arrival_time \in [Procs -> Nat]
  /\ burst_time \in [Procs -> Nat \ {0}]
  /\ waited \in [Procs -> Nat]

(* The processor remembers which queue its process came from, and the process *)
(* keeps the priority of that queue's band and some of its slice.             *)
CpuConsistent ==
  /\ index = None <=> level = 0
  /\ index # None => Band(index) = level /\ slice > 0

(* A process that is still to come is as generate_proc_data left it. *)
Untouched ==
  \A p \in Procs \ Admitted :
    rem_time[p] = burst_time[p] /\ waited[p] = 0 /\ res_arr_time[p] = arrival_time[p]

(* Each unit of time since its arrival a process has either run or waited. *)
Accounts ==
  \A p \in Admitted \ Finished :
    waited[p] = Now - arrival_time[p] - (burst_time[p] - rem_time[p])

(* The inductive invariant.  The time that the code compares in Q2 and Q3 is *)
(* the one at which the process came to its queue.                           *)
Inv ==
  /\ TypeOK /\ JobTyped
  /\ EachProcessOnce
  /\ QueuesMatchBands
  /\ CpuConsistent
  /\ Untouched
  /\ Accounts
  /\ entered = res_arr_time
  /\ BestRuns

-----------------------------------------------------------------------------
(* A first queue of some exists, if there are any. *)
LEMMA FirstOfSome ==
  ASSUME NEW S \in SUBSET Queues
  PROVE  /\ First(S) \subseteq S
         /\ \A k \in First(S) : \A j \in S : k <= j
         /\ First(S) = {} => S = {}
BY DEF First, Queues

(* A process that is demoted gets the last place of the band below. *)
LEMMA DemotedToLastPlace ==
  ASSUME TypeOK, CpuConsistent, index # None
  PROVE  /\ level = 1 => Demoted(index) = 19
         /\ level = 2 => Demoted(index) = 39
         /\ level = 3 => Demoted(index) = prt[index]
<1>1. \A n \in 0 .. 9 : (10 - (n % 10) - 1) + n + 10 = 19
  OBVIOUS
<1>2. \A n \in 10 .. 19 : (20 - (n % 20) - 1) + n + 20 = 39
  OBVIOUS
<1>3. /\ level = 1 => prt[index] \in 0 .. 9
      /\ level = 2 => prt[index] \in 10 .. 19
  BY DEF TypeOK, CpuConsistent, Band, q2_lp, q3_lp
<1> QED
  BY <1>1, <1>2, <1>3 DEF Demoted, q2_lp, q3_lp

(* mlfq_sched starts with its queues empty and everybody still to come. *)
LEMMA InvInit == Init => Inv
<1> SUFFICES ASSUME Init PROVE Inv
  OBVIOUS
<1> USE MlfqAssumption DEF Init, Procs, None
<1>1. TypeOK /\ JobTyped
  <2>1. /\ arrival_time \in [Procs -> Nat] /\ burst_time \in [Procs -> Nat \ {0}]
        /\ prt \in [Procs -> 0 .. 39] /\ waited \in [Procs -> Nat]
    OBVIOUS
  <2>2. rem_time \in [Procs -> Nat] /\ wait_time \in [Procs -> Nat \cup {-1}]
    BY <2>1
  <2> QED
    BY <2>1, <2>2 DEF TypeOK, JobTyped, Queues
<1>2. Admitted = {} /\ Enqueued = {}
  <2>1. \A p \in Procs : phase = "admit" /\ arrival_time[p] \in Nat
    BY <1>1 DEF JobTyped
  <2> QED
    BY <2>1 DEF Admitted, Enqueued
<1>3. EachProcessOnce
  BY <1>2 DEF EachProcessOnce, Queues
<1>4. CpuConsistent /\ Untouched
  BY DEF CpuConsistent, Untouched
<1>5. Accounts
  BY <1>2 DEF Accounts
<1>6. QueuesMatchBands /\ BestRuns
  BY DEF QueuesMatchBands, BestRuns
<1> QED
  BY <1>1, <1>3, <1>4, <1>5, <1>6 DEF Inv

(* The scan puts everybody who is there, but the running process, into the *)
(* queue of the band.                                                       *)
LEMMA AdmitStep == Inv /\ Admit => Inv'
<1> SUFFICES ASSUME Inv, Admit PROVE Inv'
  OBVIOUS
<1> USE DEF Inv, Admit, job, cpu, history
<1> DEFINE newcomers == {p \in Procs : arrival_time[p] = ts}
<1>1. \A p \in Procs : Band(p) \in Queues
  BY DEF Band, Queues
<1>2. /\ Enqueued \subseteq Procs
      /\ newcomers \cap (Enqueued \cup {index} \cup Finished) = {}
  BY DEF EachProcessOnce, Untouched, Admitted, Finished, JobTyped, None, Procs, TypeOK
<1>3. \A k \in Queues :
        q'[k] = {p \in newcomers \cup Enqueued : Band(p) = k}
  BY <1>2 DEF Belongs
<1>4. Enqueued' = newcomers \cup Enqueued
  BY <1>1, <1>2, <1>3 DEF Enqueued
<1>5. TypeOK'
  BY <1>2 DEF TypeOK, Queues
<1>6. Admitted' = Admitted \cup newcomers /\ Finished' = Finished
  BY DEF Admitted, Finished
<1>7. EachProcessOnce'
  BY <1>2, <1>3, <1>4, <1>6 DEF EachProcessOnce
<1>8. QueuesMatchBands'
  BY <1>3 DEF QueuesMatchBands, Band
<1>9. entered' = res_arr_time'
  <2>1. \A p \in newcomers : res_arr_time[p] = ts /\ ~ChangesOver(p)
    BY <1>2 DEF Untouched, Admitted, ChangesOver, JobTyped, TypeOK
  <2>2. \A p \in Procs :
          (\E k \in Queues : p \in q'[k] \ q[k]) <=> p \in newcomers \/ ChangesOver(p)
    BY <1>1, <1>2, <1>3 DEF ChangesOver, Enqueued
  <2>3. entered' = [p \in Procs |-> IF p \in newcomers \/ ChangesOver(p) THEN ts
                                                               ELSE entered[p]]
    BY <2>2
  <2> QED
    BY <2>1, <2>3
<1>10. Untouched' /\ CpuConsistent' /\ JobTyped' /\ BestRuns'
  <2>1. Untouched'
    <3>1. \A p \in Procs \ Admitted : p \notin Enqueued
      BY DEF EachProcessOnce
    <3>2. \A p \in Procs \ Admitted : res_arr_time'[p] = res_arr_time[p]
      BY <3>1 DEF ChangesOver
    <3> QED
      BY <1>6, <3>2 DEF Untouched
  <2> QED
    BY <2>1 DEF CpuConsistent, JobTyped, BestRuns, Band
<1>11. Accounts'
  BY <1>6 DEF Accounts, Untouched, Admitted, Now, JobTyped, TypeOK
<1> QED
  BY <1>5, <1>7, <1>8, <1>9, <1>10, <1>11

(* A change of the running process, for whichever reason, disturbs nothing *)
(* but may be the choice of the best.                                       *)
LEMMA DispatchStep ==
  ASSUME Inv, phase = "pick", phase' = "run",
         NEW k \in Queues, NEW p \in q[k], Dispatch(p, k),
         UNCHANGED <<job, rem_time, res_arr_time, prt, wait_time, ts, history>>
  PROVE  /\ TypeOK' /\ JobTyped' /\ EachProcessOnce' /\ QueuesMatchBands'
         /\ CpuConsistent' /\ Untouched' /\ Accounts' /\ entered' = res_arr_time'
<1> USE DEF Inv, Dispatch, job, cpu, history
<1>1. p \in Procs /\ p # index /\ p # None
  BY DEF TypeOK, EachProcessOnce, Enqueued, Procs, None
<1>2. level \in Queues <=> index # None
  BY DEF CpuConsistent, TypeOK, Queues
<1>3. \A j \in Queues : q'[j] = (q[j] \ (IF j = k THEN {p} ELSE {}))
                                   \cup (IF j = level THEN {index} ELSE {})
  OBVIOUS
<1>4. TypeOK'
  <2>1. q' \in [Queues -> SUBSET Procs]
    BY <1>1, <1>2 DEF TypeOK
  <2> QED
    BY <1>1, <2>1 DEF TypeOK, Slice, Queues
<1>5. Enqueued' = (Enqueued \ {p}) \cup ({index} \ {None})
  BY <1>1, <1>2, <1>3 DEF Enqueued, EachProcessOnce
<1>6. Admitted' = Admitted /\ Finished' = Finished
  BY DEF Admitted, Finished
<1>7. EachProcessOnce'
  <2>1. \A i, j \in Queues : i # j => q'[i] \cap q'[j] = {}
    BY <1>1, <1>2, <1>3 DEF EachProcessOnce, Enqueued
  <2>2. p \in Enqueued
    BY DEF Enqueued
  <2> QED
    BY <1>1, <1>5, <1>6, <2>1, <2>2 DEF EachProcessOnce
<1>8. Band(p) = k /\ (index # None => Band(index) = level)
  BY DEF QueuesMatchBands, CpuConsistent
<1>9. QueuesMatchBands'
  BY <1>2, <1>3, <1>8 DEF QueuesMatchBands, Band
<1>10. CpuConsistent'
  BY <1>1, <1>8 DEF CpuConsistent, Band, Slice, Queues
<1>11. JobTyped' /\ Untouched' /\ Accounts' /\ entered' = res_arr_time'
  BY <1>6 DEF JobTyped, Untouched, Accounts, Now
<1> QED
  BY <1>4, <1>7, <1>9, <1>10, <1>11

(* Who gets the processor while it is free is the best. *)
LEMMA PickStep == Inv /\ Pick => Inv'
<1> SUFFICES ASSUME Inv, Pick PROVE Inv'
  OBVIOUS
<1> DEFINE S == {k \in Queues : q[k] # {}}
<1>1. CASE First(S) = {}
  <2>1. S = {}
    BY <1>1, FirstOfSome
  <2>2. Enqueued = {}
    BY <2>1 DEF Enqueued
  <2>3. UNCHANGED <<job, rem_time, res_arr_time, prt, wait_time, ts, history, q, cpu>>
    BY <1>1 DEF Pick
  <2>4. BestRuns'
    BY <2>2, <2>3 DEF Pick, BestRuns, Enqueued, cpu
  <2> QED
    BY <2>3, <2>4 DEF Inv, Pick, TypeOK, JobTyped, EachProcessOnce, QueuesMatchBands, CpuConsistent,
       Untouched, Accounts, Enqueued, Admitted, Finished, Band, Now, job, cpu, history
<1>2. ASSUME NEW k \in First(S), NEW p \in q[k], Dispatch(p, k) PROVE Inv'
  <2>1. k \in Queues /\ \A j \in Queues : j < k => q[j] = {}
    BY FirstOfSome DEF Queues
  <2>2. /\ index = None /\ level = 0
        /\ index' = p /\ level' = k /\ IsTop(p, k)
        /\ \A j \in Queues : q'[j] = q[j] \ (IF j = k THEN {p} ELSE {})
    BY <1>2 DEF Dispatch, Pick, Inv, CpuConsistent, Queues
  <2>3. BestRuns'
    <3>1. p # None
      BY <2>1 DEF Inv, TypeOK, Procs, None
    <3>2. \A j \in 1 .. k - 1 : q'[j] = {}
      BY <2>1, <2>2 DEF Queues
    <3>3. k = 1 => \A o \in q'[1] : prt[p] <= prt[o]
      <4>1. \A o \in Procs : prt[o] \in Int
        BY DEF Inv, TypeOK
      <4>2. q[1] \subseteq Procs
        BY DEF Inv, TypeOK, Queues
      <4> QED
        BY <2>2, <4>1, <4>2 DEF IsTop, Queues
    <3>4. prt' = prt
      BY DEF Pick
    <3> QED
      BY <2>2, <3>1, <3>2, <3>3, <3>4 DEF BestRuns
  <2>4. phase = "pick" /\ phase' = "run"
        /\ UNCHANGED <<job, rem_time, res_arr_time, prt, wait_time, ts, history>>
    BY DEF Pick
  <2> QED
    BY <1>2, <2>1, <2>3, <2>4, DispatchStep DEF Inv
<1> QED
  BY <1>1, <1>2 DEF Pick

(* So is who goes on, and who takes the processor away. *)
LEMMA PreemptStep == Inv /\ Preempt => Inv'
<1> SUFFICES ASSUME Inv, Preempt PROVE Inv'
  OBVIOUS
<1> DEFINE S == {k \in Queues : \E p \in q[k] : GivesWayTo(p, k)}
<1>1. /\ level \in Queues /\ index \in Procs
      /\ \A o \in Procs : prt[o] \in Int
      /\ \A j \in Queues : q[j] \subseteq Procs
  BY DEF Inv, TypeOK, CpuConsistent, Preempt, Queues, None
<1>2. CASE First(S) = {}
  <2>1. S = {}
    BY <1>2, FirstOfSome
  <2>2. UNCHANGED <<job, rem_time, res_arr_time, prt, wait_time, ts, history, q, cpu>>
    BY <1>2 DEF Preempt
  <2>3. /\ \A j \in 1 .. level - 1 : q[j] = {}
        /\ level = 1 => \A p \in q[1] : prt[index] <= prt[p]
    BY <1>1, <2>1 DEF GivesWayTo, Queues
  <2>4. BestRuns'
    BY <2>2, <2>3 DEF BestRuns, Preempt, cpu
  <2> QED
    BY <2>2, <2>4 DEF Inv, Preempt, TypeOK, JobTyped, EachProcessOnce, QueuesMatchBands, CpuConsistent,
       Untouched, Accounts, Enqueued, Admitted, Finished, Band, Now, job, cpu, history
<1>3. ASSUME NEW k \in First(S), NEW p \in q[k], Dispatch(p, k) PROVE Inv'
  <2>1. /\ k \in Queues
        /\ \E w \in q[k] : GivesWayTo(w, k)
        /\ \A j \in Queues : j < k => \A o \in q[j] : ~GivesWayTo(o, j)
    BY FirstOfSome DEF Queues
  <2>2. PICK w \in q[k] : GivesWayTo(w, k)
    BY <2>1
  <2>3. /\ k <= level
        /\ index' = p /\ level' = k /\ IsTop(p, k)
        /\ \A j \in Queues : q'[j] = (q[j] \ (IF j = k THEN {p} ELSE {}))
                                        \cup (IF j = level THEN {index} ELSE {})
    BY <1>1, <1>3, <2>1, <2>2 DEF Dispatch, GivesWayTo, Queues
  <2>4. \A j \in 1 .. k - 1 : q'[j] = {}
    BY <1>1, <2>1, <2>3 DEF GivesWayTo, Queues
  <2>5. k = 1 => \A o \in q'[1] : prt[p] <= prt[o]
    <3> SUFFICES ASSUME k = 1, NEW o \in q'[1] PROVE prt[p] <= prt[o]
      OBVIOUS
    <3>1. \A a \in q[1] : prt[p] <= prt[a]
      BY <1>1, <2>3 DEF IsTop, Queues
    <3>2. o \in q[1] \/ (level = 1 /\ o = index)
      BY <2>3 DEF Queues
    <3>3. level = 1 => prt[p] <= prt[index]
      BY <1>1, <2>1, <2>2, <3>1 DEF GivesWayTo
    <3> QED
      BY <3>1, <3>2, <3>3
  <2>6. /\ phase = "pick" /\ phase' = "run" /\ p # None
        /\ UNCHANGED <<job, rem_time, res_arr_time, prt, wait_time, ts, history>>
    BY <1>1, <2>1 DEF Preempt, Procs, None
  <2>7. BestRuns'
    BY <2>3, <2>4, <2>5, <2>6 DEF BestRuns
  <2> QED
    BY <1>3, <2>1, <2>6, <2>7, DispatchStep DEF Inv
<1> QED
  BY <1>2, <1>3 DEF Preempt

(* The processor is idle when nobody is there, so that nobody waits. *)
LEMMA RunIdleStep == Inv /\ RunIdle => Inv'
<1> SUFFICES ASSUME Inv, RunIdle PROVE Inv'
  OBVIOUS
<1> USE DEF Inv, RunIdle, job, cpu, history
<1>1. Admitted \ Finished = {} /\ Enqueued = {}
  BY DEF BestRuns, EachProcessOnce
<1>2. Admitted' = Admitted /\ Finished' = Finished /\ Enqueued' = Enqueued
  BY DEF Admitted, Finished, Enqueued
<1>3. TypeOK' /\ JobTyped' /\ QueuesMatchBands' /\ CpuConsistent' /\ BestRuns'
  BY DEF TypeOK, JobTyped, QueuesMatchBands, CpuConsistent, BestRuns, Band
<1> QED
  BY <1>1, <1>2, <1>3 DEF EachProcessOnce, Untouched, Accounts

(* A unit of time of the running process: everybody else who is there waits, *)
(* and it goes on, is finished or goes back to its queue with the priority    *)
(* of another band.                                                           *)
LEMMA RunProcessStep == Inv /\ RunProcess => Inv'
<1> SUFFICES ASSUME Inv, RunProcess PROVE Inv'
  OBVIOUS
<1> USE DEF Inv, RunProcess, Release, job, cpu, history
<1>1. /\ index \in Admitted \ Finished /\ index \in Procs /\ index \notin Enqueued
      /\ level \in Queues /\ index # None
      /\ rem_time[index] \in Nat /\ rem_time[index] > 0
      /\ Enqueued = (Admitted \ Finished) \ {index}
      /\ phase = "run" /\ phase' = "age"
  BY DEF EachProcessOnce, TypeOK, CpuConsistent, Queues, None, Admitted, Finished
<1>2. rem_time' = [rem_time EXCEPT ![index] = rem_time[index] - 1]
  OBVIOUS
<1>3. \/ /\ rem_time[index] = 1
         /\ wait_time' = [wait_time EXCEPT ![index] = WaitOf(index)]
         /\ index' = None /\ level' = 0 /\ slice' = 0
         /\ UNCHANGED <<prt, q>>
      \/ /\ rem_time[index] > 1 /\ slice = 1 /\ slice' = 0
         /\ prt' = [prt EXCEPT ![index] = Demoted(index)]
         /\ q' = [q EXCEPT ![level] = @ \cup {index}]
         /\ index' = None /\ level' = 0
         /\ UNCHANGED wait_time
      \/ /\ rem_time[index] > 1 /\ slice > 1 /\ slice' = slice - 1
         /\ UNCHANGED <<prt, q, index, level, wait_time>>
  BY <1>1, <1>2 DEF Requeued, CpuConsistent, TypeOK
<1>4. rem_time[index] = 1 => WaitOf(index) = waited[index] /\ WaitOf(index) \in Nat
  <2>1. waited[index] = ts - arrival_time[index] - (burst_time[index] - rem_time[index])
    BY <1>1 DEF Accounts, Now
  <2>2. /\ ts \in Nat /\ arrival_time[index] \in Nat /\ burst_time[index] \in Nat
        /\ waited[index] \in Nat
    BY <1>1 DEF JobTyped, TypeOK
  <2> QED
    BY <2>1, <2>2 DEF WaitOf
<1>5. Admitted' = Admitted
      /\ Finished' = IF rem_time[index] = 1 THEN Finished \cup {index} ELSE Finished
  BY <1>1, <1>2 DEF Admitted, Finished, TypeOK
<1>6. TypeOK'
  <2>1. rem_time' \in [Procs -> Nat]
    BY <1>1, <1>2 DEF TypeOK
  <2>2. wait_time' \in [Procs -> Nat \cup {-1}]
    BY <1>3, <1>4 DEF TypeOK
  <2>3. prt' \in [Procs -> 0 .. 39]
    <3>1. Demoted(index) \in 0 .. 39
      BY <1>1, DemotedToLastPlace DEF TypeOK, Queues
    <3> QED
      BY <1>3, <3>1 DEF TypeOK
  <2>4. q' \in [Queues -> SUBSET Procs]
    BY <1>1, <1>3 DEF TypeOK
  <2> QED
    BY <1>1, <1>3, <2>1, <2>2, <2>3, <2>4 DEF TypeOK, CpuConsistent
<1>7. JobTyped'
  BY DEF JobTyped
<1>8. EachProcessOnce'
  <2>1. CASE q' = q
    <3>1. Enqueued' = Enqueued
      BY <2>1 DEF Enqueued
    <3>2. \A j, k \in Queues : j # k => q'[j] \cap q'[k] = {}
      BY <2>1 DEF EachProcessOnce
    <3>3. \/ rem_time[index] = 1 /\ index' = None
          \/ rem_time[index] # 1 /\ index' = index
      <4>1. q[level] \cup {index} # q[level]
        BY <1>1 DEF Enqueued
      <4> QED
        BY <1>1, <1>3, <2>1, <4>1 DEF TypeOK
    <3>4. None \notin Procs
      BY DEF Procs, None
    <3> QED
      <4> HIDE DEF Inv, RunProcess
      <4>1. Enqueued' \cup ({index'} \ {None}) = Admitted' \ Finished'
        BY <1>1, <1>5, <3>1, <3>3, <3>4
      <4>2. index' \notin Enqueued'
        BY <1>1, <3>1, <3>3, <3>4 DEF Admitted
      <4> QED
        BY <3>2, <4>1, <4>2 DEF EachProcessOnce
  <2>2. CASE q' = [q EXCEPT ![level] = @ \cup {index}]
             /\ index' = None /\ rem_time[index] > 1
    <3>1. \A k \in Queues : q'[k] = IF k = level THEN q[k] \cup {index} ELSE q[k]
      BY <2>2 DEF TypeOK
    <3>2. Enqueued' = Enqueued \cup {index}
      <4>1. \A o : o \in Enqueued' <=> \E k \in Queues : o \in q'[k]
        BY DEF Enqueued
      <4>2. \A o : o \in Enqueued <=> \E k \in Queues : o \in q[k]
        BY DEF Enqueued
      <4> HIDE DEF Inv, RunProcess
      <4> QED
        BY <1>1, <3>1, <4>1, <4>2
    <3>3. \A j, k \in Queues : j # k => q'[j] \cap q'[k] = {}
      <4>1. \A k \in Queues : index \notin q[k]
        BY <1>1 DEF Enqueued
      <4>2. \A j, k \in Queues : j # k => q[j] \cap q[k] = {}
        BY DEF EachProcessOnce
      <4> HIDE DEF Inv, RunProcess
      <4> QED
        BY <3>1, <4>1, <4>2
    <3>4. Enqueued' = Admitted' \ Finished' /\ None \notin Enqueued'
      BY <1>1, <1>5, <2>2, <3>2 DEF Admitted, Procs, None
    <3> QED
      BY <2>2, <3>3, <3>4 DEF EachProcessOnce
  <2> QED
    BY <1>3, <2>1, <2>2
<1>9. Accounts'
  <2>1. ASSUME NEW p \in Admitted \ Finished
        PROVE  waited'[p] = ts + 1 - arrival_time[p] - (burst_time[p] - rem_time'[p])
    <3>1. waited[p] = ts - arrival_time[p] - (burst_time[p] - rem_time[p])
      BY <1>1 DEF Accounts, Now
    <3>2. /\ p \in Procs /\ ts \in Nat /\ arrival_time[p] \in Nat /\ burst_time[p] \in Nat
          /\ waited[p] \in Nat /\ rem_time[p] \in Nat
      BY DEF JobTyped, TypeOK, Admitted
    <3>3. p # index => waited'[p] = waited[p] + 1 /\ rem_time'[p] = rem_time[p]
      BY <1>1, <1>2, <3>2
    <3>4. p = index => waited'[p] = waited[p] /\ rem_time'[p] = rem_time[p] - 1
      BY <1>1, <1>2, <3>2 DEF TypeOK
    <3> QED
      BY <3>1, <3>2, <3>3, <3>4
  <2>2. Now' = ts + 1 /\ Admitted' \ Finished' \subseteq Admitted \ Finished
    BY <1>1, <1>5 DEF Now
  <2>3. arrival_time' = arrival_time /\ burst_time' = burst_time
    OBVIOUS
  <2>4. ASSUME NEW p \in Admitted' \ Finished'
        PROVE  waited'[p] = Now' - arrival_time'[p] - (burst_time'[p] - rem_time'[p])
    <3>1. p \in Admitted \ Finished
      BY <2>2
    <3>2. waited'[p] = ts + 1 - arrival_time[p] - (burst_time[p] - rem_time'[p])
      BY <2>1, <3>1
    <3>3. /\ ts \in Nat /\ arrival_time[p] \in Nat /\ burst_time[p] \in Nat
          /\ rem_time'[p] \in Nat
      BY <1>6, <3>1 DEF JobTyped, TypeOK, Admitted
    <3>4. arrival_time'[p] = arrival_time[p] /\ burst_time'[p] = burst_time[p] /\ Now' = ts + 1
      BY <2>2, <2>3
    <3> HIDE DEF Inv, RunProcess
    <3> QED
      BY <3>2, <3>3, <3>4
  <2> QED
    BY <2>4 DEF Accounts
<1>10. Untouched'
  BY <1>1, <1>2, <1>5 DEF Untouched
<1>11. CpuConsistent'
  BY <1>1, <1>3 DEF CpuConsistent, TypeOK, Band
<1> QED
  BY <1>1, <1>6, <1>7, <1>8, <1>9, <1>10, <1>11 DEF QueuesMatchBands, BestRuns

(* The ageing leaves the running process alone, and who is to come.  *)
LEMMA AgeStep == Inv /\ Age => Inv'
<1> SUFFICES ASSUME Inv, Age PROVE Inv'
  OBVIOUS
<1> USE DEF Inv, Age, job, cpu, history
<1>1. TypeOK'
  BY DEF TypeOK, Ages, q2_lp
<1>2. /\ \A p \in Procs : arrival_time[p] < ts + 1 <=> arrival_time[p] <= ts
      /\ Finished' = Finished /\ Enqueued' = Enqueued
  BY DEF JobTyped, TypeOK, Finished, Enqueued
<1>3. Admitted \subseteq Admitted' /\ Admitted' \ Finished = Admitted \ Finished
  <2>1. CASE Finished = Procs
    BY <1>2, <2>1 DEF Admitted, JobTyped, TypeOK
  <2>2. CASE Finished # Procs
    BY <1>2, <2>2 DEF Admitted, JobTyped, TypeOK
  <2> QED
    BY <2>1, <2>2
<1>4. EachProcessOnce'
  BY <1>2, <1>3 DEF EachProcessOnce
<1>5. CpuConsistent'
  BY <1>1 DEF CpuConsistent, Ages, Band, TypeOK, None
<1>6. Accounts' /\ Untouched'
  BY <1>2, <1>3 DEF Accounts, Untouched, Now
<1> QED
  BY <1>1, <1>4, <1>5, <1>6 DEF JobTyped, QueuesMatchBands, BestRuns

(* Together: every unit of time keeps the invariant. *)
LEMMA InvStep == Inv /\ [Next]_vars => Inv'
<1>1. Inv /\ UNCHANGED vars => Inv'
  BY DEF Inv, vars, TypeOK, JobTyped, EachProcessOnce, QueuesMatchBands, CpuConsistent, Untouched,
         Accounts, BestRuns, Enqueued, Admitted, Finished, Band, Now, job, cpu, history
<1> QED
  BY <1>1, AdmitStep, PickStep, PreemptStep, RunIdleStep, RunProcessStep, AgeStep DEF Next

(* So it always holds. *)
LEMMA Invariant == Spec => []Inv
BY InvInit, InvStep, PTL DEF Spec

-----------------------------------------------------------------------------
(* No process is lost, doubled or left in the heap of another band by          *)
(* mlfq_sched's moves between its three heaps and the processor, and its        *)
(* priorities and time slices keep within their ranges.                         *)
THEOREM QueuesAgree == Spec => []QueuesConsistent
<1>1. Inv => QueuesConsistent
  BY DEF Inv, QueuesConsistent
<1> QED
  BY <1>1, Invariant, PTL

(* The process that mlfq_sched lets run is the best of those that are there,   *)
(* by the queues and, in Q1, by the priorities of this very moment.             *)
THEOREM TheBestRuns == Spec => []BestRuns
<1>1. Inv => BestRuns
  BY DEF Inv
<1> QED
  BY <1>1, Invariant, PTL

(* Ageing never brings a process into Q1, and only the end of a slice in Q1 or  *)
(* Q2 moves one down, by one band.                                              *)
THEOREM PrioritiesMoveAsAnnounced == Spec => PriorityMoves
<1> DEFINE Moves == \A p \in Procs : /\ prt'[p] < q2_lp => prt[p] < q2_lp
                                     /\ prt'[p] > prt[p] => /\ p = index /\ slice = 1 /\ level < 3
                                                            /\ Band(p)' = Band(p) + 1
<1>1. ASSUME Inv, RunProcess PROVE Moves
  <2>1. /\ index \in Procs /\ level \in 1 .. 3 /\ slice > 0 /\ slice \in Int
        /\ prt \in [Procs -> 0 .. 39]
    BY <1>1 DEF Inv, RunProcess, TypeOK, CpuConsistent, None
  <2>2. prt' = prt \/ (slice = 1 /\ prt' = [prt EXCEPT ![index] = Demoted(index)])
    BY <1>1, <2>1 DEF RunProcess
  <2>3. /\ Demoted(index) >= q2_lp \/ level = 3
        /\ level = 3 => Demoted(index) = prt[index]
    BY <1>1, DemotedToLastPlace, <2>1 DEF Inv, RunProcess, q2_lp
  <2>4. \A p \in Procs : prt[p] \in Int /\ ~(prt[p] > prt[p])
    BY <2>1
  <2>5. CASE prt' = prt
    BY <2>4, <2>5
  <2>6. CASE level = 3 /\ prt' = [prt EXCEPT ![index] = Demoted(index)]
    <3>1. prt' = prt
      BY <2>1, <2>3, <2>6
    <3> QED
      BY <2>4, <3>1
  <2>7. CASE level # 3 /\ slice = 1 /\ prt' = [prt EXCEPT ![index] = Demoted(index)]
    <3>1. /\ \A p \in Procs : p # index => prt'[p] = prt[p]
          /\ prt'[index] >= q2_lp /\ level < 3
      BY <2>1, <2>3, <2>7
    <3>2. prt'[index] \in Int
      BY <1>1, DemotedToLastPlace, <2>1, <2>7 DEF Inv, RunProcess
    <3>3. SUFFICES ASSUME NEW p \in Procs
                   PROVE  /\ prt'[p] < q2_lp => prt[p] < q2_lp
                          /\ prt'[p] > prt[p] => /\ p = index /\ slice = 1 /\ level < 3
                                                 /\ Band(p)' = Band(p) + 1
      OBVIOUS
    <3>4. CASE p = index
      <4>1. /\ level = 1 => Band(p) = 1 /\ prt'[p] = 19
            /\ level = 2 => Band(p) = 2 /\ prt'[p] = 39
        BY <1>1, DemotedToLastPlace, <2>1, <2>7, <3>4 DEF Inv, RunProcess, CpuConsistent
      <4>2. /\ prt'[p] = 19 => Band(p)' = 2
            /\ prt'[p] = 39 => Band(p)' = 3
        BY DEF Band, q2_lp, q3_lp
      <4>3. level = 1 \/ level = 2
        BY <2>1, <2>7
      <4>4. Band(p)' = Band(p) + 1
        BY <4>1, <4>2, <4>3
      <4>5. ~(prt'[p] < q2_lp)
        BY <3>1, <3>2, <3>4 DEF q2_lp
      <4> QED
        BY <2>7, <3>1, <3>4, <4>4, <4>5
    <3>5. CASE p # index
      BY <2>4, <3>1, <3>5
    <3> QED
      BY <3>4, <3>5
  <2> QED
    BY <2>2, <2>5, <2>6, <2>7
<1>2. ASSUME Inv, Age PROVE Moves
  BY <1>2 DEF Inv, Age, Ages, TypeOK, q2_lp
<1>3. ASSUME Inv, UNCHANGED prt PROVE Moves
  BY <1>3 DEF Inv, TypeOK
<1>4. Inv /\ [Next]_vars => [Moves]_vars
  BY <1>1, <1>2, <1>3 DEF Next, Admit, Pick, Preempt, RunIdle, vars
<1> QED
  BY <1>4, Invariant, PTL DEF Spec, PriorityMoves

(* Q2 and Q3 serve first who came first, by arrival, demotion or ageing: the    *)
(* heaps order by res_arr_time, and that is the time of the last entry.         *)
THEOREM FirstComeFirstServed == Spec => FirstComeFirstRun
<1> DEFINE Fair == \A k \in {2, 3} : index' # index /\ level' = k
                     => \A p \in q'[k] \ {index} : entered[index'] <= entered[p]
<1>1. ASSUME Inv, NEW k \in Queues, NEW p \in q[k], Dispatch(p, k) PROVE Fair
  BY <1>1 DEF Inv, Dispatch, IsTop, Queues
<1>2. ASSUME Inv, Pick \/ Preempt PROVE Fair
  <2>1. CASE UNCHANGED cpu
    BY <2>1 DEF cpu
  <2>2. CASE \E k \in Queues : \E p \in q[k] : Dispatch(p, k)
    BY <1>1, <1>2, <2>2
  <2> QED
    BY <1>2, <2>1, <2>2 DEF Pick, Preempt, First
<1>3. ASSUME RunProcess PROVE Fair
  BY <1>3 DEF RunProcess, Release
<1>4. ASSUME UNCHANGED index PROVE Fair
  BY <1>4
<1>5. Inv /\ [Next]_vars => [Fair]_vars
  BY <1>2, <1>3, <1>4 DEF Next, Admit, RunIdle, Age, cpu, vars
<1> QED
  BY <1>5, Invariant, PTL DEF Spec, FirstComeFirstRun

(* mlfq_sched simulates a processor that always works when there is somebody   *)
(* to serve, and reports the waiting times that its processes really had.       *)
THEOREM AWorkConservingProcessor == Spec => ImplementsUniProcessor
<1>1. Init => Cpu!Init
  BY MlfqAssumption DEF Init, Cpu!Init
<1>2. ASSUME Inv, RunIdle PROVE Cpu!Idle
  <2>1. Admitted \ Finished = {}
    BY <1>2 DEF Inv, RunIdle, BestRuns, EachProcessOnce
  <2>2. Cpu!Ready = {}
    BY <1>2, <2>1 DEF Inv, RunIdle, Cpu!Ready, Admitted, Finished, JobTyped, TypeOK
  <2> QED
    BY <1>2, <2>2 DEF RunIdle, Cpu!Idle, job, history
<1>3. ASSUME Inv, RunProcess PROVE Cpu!Run(index)
  <2>1. /\ phase = "run" /\ phase' = "age" /\ index \in Procs
        /\ index \in Admitted \ Finished
        /\ Enqueued = (Admitted \ Finished) \ {index}
        /\ rem_time[index] \in Nat /\ rem_time \in [Procs -> Nat]
    BY <1>3 DEF Inv, RunProcess, EachProcessOnce, TypeOK, None
  <2>2. Cpu!Ready = Admitted \ Finished
    BY <1>3, <2>1 DEF Inv, Cpu!Ready, Admitted, Finished, JobTyped, TypeOK
  <2>3. waited' = [p \in Procs |-> IF p \in Cpu!Ready \ {index} THEN waited[p] + 1 ELSE waited[p]]
    BY <1>3, <2>1, <2>2 DEF RunProcess
  <2>4. rem_time[index] = 1 => WaitOf(index) = waited[index]
    <3>1. waited[index] = ts - arrival_time[index] - (burst_time[index] - rem_time[index])
      BY <1>3, <2>1 DEF Inv, Accounts, Now
    <3>2. ts \in Nat /\ arrival_time[index] \in Nat /\ burst_time[index] \in Nat
      BY <1>3, <2>1 DEF Inv, JobTyped, TypeOK
    <3> QED
      BY <3>1, <3>2 DEF WaitOf
  <2>5. wait_time' = [wait_time EXCEPT ![index] =
                        IF rem_time[index] = 1 THEN waited[index] ELSE @]
    <3>1. rem_time'[index] = rem_time[index] - 1 /\ wait_time \in [Procs -> Nat \cup {-1}]
      BY <1>3, <2>1 DEF RunProcess, Inv, TypeOK
    <3>2. CASE rem_time[index] = 1
      BY <1>3, <2>4, <3>1, <3>2 DEF RunProcess
    <3>3. CASE rem_time[index] # 1
      BY <1>3, <2>1, <3>1, <3>3 DEF RunProcess
    <3> QED
      BY <3>2, <3>3
  <2> QED
    BY <1>3, <2>1, <2>2, <2>3, <2>5 DEF RunProcess, Cpu!Run, job
<1>4. ASSUME Admit \/ Pick \/ Preempt \/ Age \/ UNCHANGED vars PROVE UNCHANGED Cpu!vars
  BY <1>4 DEF Admit, Pick, Preempt, Age, vars, Cpu!vars, job, history
<1>5. Inv /\ [Next]_vars => [Cpu!Next]_(Cpu!vars)
  <2> SUFFICES ASSUME Inv, [Next]_vars PROVE [Cpu!Next]_(Cpu!vars)
    OBVIOUS
  <2>1. CASE RunProcess
    <3>1. index \in Procs
      BY <2>1 DEF Inv, RunProcess, TypeOK
    <3> QED
      BY <1>3, <2>1, <3>1 DEF Cpu!Next
  <2>2. CASE RunIdle
    BY <1>2, <2>2 DEF Cpu!Next
  <2> QED
    BY <1>4, <2>1, <2>2 DEF Next
<1> QED
  BY <1>1, <1>5, Invariant, PTL DEF Spec, ImplementsUniProcessor, Cpu!Spec
=============================================================================
