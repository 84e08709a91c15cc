---------------------------- MODULE UniProcessor ----------------------------
(***************************************************************************)
(* What every scheduling simulation of the repository promises, whatever   *)
(* its policy: one processor that in each unit of time runs exactly one of *)
(* the processes that have arrived and are not finished, and is idle only  *)
(* when there is none; and a reported waiting time which is the time that  *)
(* the process really spent waiting.                                       *)
(***************************************************************************)
EXTENDS Integers

CONSTANT Procs

VARIABLES
  arrival,  \* when each process arrives
  burst,    \* how long each process needs the processor
  now,      \* the current time
  rem,      \* how much of its burst each process still needs
  waited,   \* how long each process has waited so far
  reported  \* the waiting time reported of a finished process, else -1

vars == <<arrival, burst, now, rem, waited, reported>>

Ready == {p \in Procs : arrival[p] <= now /\ rem[p] > 0}

Init ==
  /\ arrival \in [Procs -> Nat]
  /\ burst \in [Procs -> Nat \ {0}]
  /\ now = 0
  /\ rem = burst
  /\ waited = [p \in Procs |-> 0]
  /\ reported = [p \in Procs |-> -1]

(* Process p runs for one unit of time, and the others that are ready wait. *)
Run(p) ==
  /\ p \in Ready
  /\ rem' = [rem EXCEPT ![p] = @ - 1]
  /\ waited' = [q \in Procs |-> IF q \in Ready \ {p} THEN waited[q] + 1 ELSE waited[q]]
  /\ reported' = [reported EXCEPT ![p] = IF rem[p] = 1 THEN waited[p] ELSE @]
  /\ now' = now + 1
  /\ UNCHANGED <<arrival, burst>>

(* No process is ready. *)
Idle ==
  /\ Ready = {}
  /\ now' = now + 1
  /\ UNCHANGED <<arrival, burst, rem, waited, reported>>

Next == Idle \/ \E p \in Procs : Run(p)

Spec == Init /\ [][Next]_vars
=============================================================================
