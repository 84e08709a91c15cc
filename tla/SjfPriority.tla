---------------------------- MODULE SjfPriority ----------------------------
(***************************************************************************)
(* The preemptive schedulers of sjf_priority.cpp: shortest remaining time  *)
(* first (solver), static priorities (prt_main_func) and priorities with   *)
(* ageing (prt_main_func2).  All three remember in one variable how good   *)
(* the process is that they chose, and look only for a better one.  The    *)
(* process table is in the order of arrival by then, as sjf_sched (module  *)
(* Sjf), which runs first, has sorted it.                                  *)
(*                                                                         *)
(* One pass of the while loop is one unit of time, in two phases: the scan *)
(* for a better process, and the run.                                      *)
(***************************************************************************)
EXTENDS Sjf

CONSTANT
  Prts  \* bound: the priorities (rand() % 40)

INT_MAX == 2147483647
INT_MIN == -INT_MAX - 1

(* Any remaining time has to be better than the INT_MAX of nobody. *)
ASSUME SjfPriorityAssumption ==
  /\ Prts \subseteq 0 .. 39
  /\ \A b \in Bursts : b < INT_MAX

VARIABLES
  policy,                    \* which of the three: "sjf", "static" or "dynamic"
  rt,        \* the rest of each process's burst (remain in solver)
  pri,       \* the priority of each process; the greatest runs first
  best,      \* how good the chosen process was: minm in solver, max_pri
  chosen,    \* shortest in solver, largest in the others
  check,     \* is a process chosen?  (flag in solver)
  wt,        \* the reported waiting time, -1 until the process is finished
  t,         \* the time
  phase,     \* "sjf" while sjf_sched runs, then "scan", "run" or "end"
  waited     \* history: how long each process has waited

job == <<policy, arrival_time, burst_time>>
vars == <<job, sjfVars, rt, pri, best, chosen, check, wt, t, phase, waited>>

Ready == {p \in Procs : arrival_time[p] <= t /\ rt[p] > 0}
Key(p) == IF policy = "sjf" THEN rt[p] ELSE pri[p]
Better(a, b) == IF policy = "sjf" THEN a < b ELSE a > b
Worst == IF policy = "sjf" THEN INT_MAX ELSE INT_MIN

Init ==
  /\ SjfInit
  /\ policy \in {"sjf", "static", "dynamic"}
  /\ pri \in [Procs -> Prts]
  /\ rt = burst_time
  /\ best = Worst
  /\ chosen = 0 /\ check = FALSE
  /\ wt = [p \in Procs |-> -1]
  /\ t = 0
  /\ phase = IF SjfDone THEN "scan" ELSE "sjf"
  /\ waited = [p \in Procs |-> 0]

-----------------------------------------------------------------------------
(* main calls sjf_sched first; when that goes wild the program is over. *)
RunSjf ==
  /\ phase = "sjf"
  /\ SjfStep
  /\ phase' = IF SjfDone' THEN "scan" ELSE "sjf"
  /\ UNCHANGED <<policy, rt, pri, best, chosen, check, wt, t, waited>>

SjfCrash ==
  /\ phase = "sjf"
  /\ StaleCrashes
  /\ phase' = "end"
  /\ UNCHANGED <<job, sjfVars, rt, pri, best, chosen, check, wt, t, waited>>

(* The scan goes through the table in order and takes what is strictly better *)
(* than the best so far, so that the first of the best is left.               *)
Candidates == {p \in Ready : Better(Key(p), best)}

FirstOfBest_Last(S) ==
  CHOOSE p \in S :
    \A o \in S : Better(Key(p), Key(o)) \/ (Key(p) = Key(o) /\ p >= o)
FirstOfBest(S) ==
  CHOOSE p \in S :
    \A o \in S : Better(Key(p), Key(o)) \/ (Key(p) = Key(o) /\ p <= o)

Scan ==
  /\ phase = "scan"
  /\ IF Candidates = {}
     THEN UNCHANGED <<best, chosen, check>>
     ELSE /\ chosen' = FirstOfBest(Candidates)
          /\ best' = Key(chosen')
          /\ check' = TRUE
  /\ phase' = "run"
  /\ UNCHANGED <<job, sjfVars, rt, pri, wt, t, waited>>

RunIdle ==
  /\ phase = "run"
  /\ ~check
  /\ t' = t + 1
  /\ phase' = "scan"
  /\ UNCHANGED <<job, sjfVars, rt, pri, best, chosen, check, wt, waited>>

(* The dynamic policy raises the first of the processes of least priority,   *)
(* among those that have arrived and are not finished after this unit.       *)
Raise(priority) == priority + 1
Aged(rest) ==
  LET unfinished == {p \in Procs : arrival_time[p] <= t /\ rest[p] > 0}
      lowest(p) == \A o \in unfinished : pri[p] < pri[o] \/ (pri[p] = pri[o] /\ p <= o)
  IN  [p \in Procs |-> IF p \in unfinished /\ lowest(p) THEN Raise(pri[p]) ELSE pri[p]]

(* What is remembered of the process that has run: solver renews it in every *)
(* unit, the others let it be until the process is finished.                 *)
Remembered_NotReset(rest) == IF policy = "sjf" THEN rest ELSE best
Remembered(rest) ==
  CASE rest = 0 -> Worst
    [] rest # 0 /\ policy = "sjf" -> rest
    [] OTHER -> best

WaitOf_EndsEarly(p) == t - burst_time[p] - arrival_time[p]
WaitOf(p) == t + 1 - burst_time[p] - arrival_time[p]

RunProcess ==
  /\ phase = "run"
  /\ check
  /\ rt' = [rt EXCEPT ![chosen] = @ - 1]
  /\ best' = Remembered(rt'[chosen])
  /\ check' = (rt'[chosen] # 0)
  /\ wt' = [wt EXCEPT ![chosen] =
              IF rt'[chosen] # 0 THEN @
              ELSE IF WaitOf(chosen) < 0 THEN 0 ELSE WaitOf(chosen)]
  /\ pri' = IF policy = "dynamic" THEN Aged(rt') ELSE pri
  /\ t' = t + 1
  /\ phase' = IF \A p \in Procs : rt'[p] = 0 THEN "end" ELSE "scan"
  /\ waited' = [p \in Procs |-> IF p \in Ready \ {chosen} THEN waited[p] + 1 ELSE waited[p]]
  /\ UNCHANGED <<job, sjfVars, chosen>>

Next == RunSjf \/ SjfCrash \/ Scan \/ RunIdle \/ RunProcess

Spec == Init /\ [][Next]_vars

-----------------------------------------------------------------------------
(* Properties. *)

(* The best runs: no process that is ready is better than the one that runs, *)
(* by the remaining times and priorities of this very moment, although what   *)
(* the code compares with is remembered from an earlier one; and the          *)
(* processor is idle only when none is ready.                                 *)
BestRuns ==
  phase = "run" =>
    IF check THEN chosen \in Ready /\ \A p \in Ready : ~Better(Key(p), Key(chosen))
    ELSE Ready = {}

(* Between equals the first to come runs, to its end: a process loses the     *)
(* processor only to one that is strictly better by then, also while the      *)
(* ageing moves the priorities under the remembered one, and when the         *)
(* processor is free, equals are served in the order of arrival.              *)
FairAmongEquals ==
  [][/\ check /\ chosen' # chosen => Better(Key(chosen'), Key(chosen))
     /\ ~check /\ check' => \A p \in Ready : Key(p) = Key(chosen')
                             => arrival_time[chosen'] <= arrival_time[p]]_vars

(* The simulations are ones of a work-conserving processor, and the waiting  *)
(* times that they report are those that the processes really had.            *)
Cpu == INSTANCE UniProcessor WITH
         arrival  <- arrival_time,
         burst    <- burst_time,
         now      <- t,
         rem      <- rt,
         reported <- wt
ImplementsUniProcessor == Cpu!Spec
=============================================================================
