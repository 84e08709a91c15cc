-------------------------- MODULE RoundRobinProofs --------------------------
(***************************************************************************)
(* Proofs about RoundRobin, for any number of processes, any quantum and   *)
(* any times and bursts.                                                   *)
(***************************************************************************)
EXTENDS RoundRobin, WellFoundedInduction, TLAPS

Typed ==
  /\ policy \in {"rr", "mlq"} /\ system \in SUBSET Procs
  /\ policy = "rr" => system = {}
  /\ arrival_time \in [Procs -> Nat] /\ temp_bt \in [Procs -> Nat]
  /\ burst_time \in [Procs -> Nat]
  /\ flag \in SUBSET Procs
  /\ wait_time \in [Procs -> Int]
  /\ curr_time \in Nat /\ arrival_time[0] <= curr_time
  /\ k \in Procs
  /\ phase \in {"turn", "next", "end"}
  /\ waited \in [Procs -> Nat]
  /\ passed \in [Procs -> SUBSET Procs]
InOrder == \A p, o \in Procs : p < o => arrival_time[p] <= arrival_time[o]

(* Each unit of time since its arrival an unfinished process has either run  *)
(* or waited, and a system process runs only to its end.                     *)
Accounts ==
  \A p \in Procs \ flag :
    /\ IF arrival_time[p] > curr_time
       THEN waited[p] = 0 /\ burst_time[p] = temp_bt[p]
       ELSE waited[p] = curr_time - arrival_time[p] - (temp_bt[p] - burst_time[p])
    /\ p \in system => burst_time[p] = temp_bt[p]

(* The processes that the walk, now before place w, meets after process o. *)
After(o, w) == {p \in Procs : IF o < w THEN o < p /\ p < w ELSE o < p \/ p < w}

(* Whoever is there and not finished has been passed only by those that the   *)
(* walk has met since its own last turn.  Who is not there has not been       *)
(* passed: the walk goes back to process 0 no later than when it meets it, and *)
(* those behind it are not there either.                                      *)
Place == IF phase = "next" THEN k + 1 ELSE k
InTurn ==
  phase # "end" =>
    \A o \in Procs \ flag :
      /\ passed[o] \subseteq After(o, Place)
      /\ arrival_time[o] > curr_time => passed[o] = {}

(* Where no process needs a second turn, the walk gets through the table once. *)
(* It waits for everybody who has not arrived, and starts each process at the  *)
(* time that fifo_sched has for it.                                            *)
Short == \A p \in Procs \ system : temp_bt[p] <= Quantum
Start(p) == arrival_time[p] + FifoWait[p]
InLine ==
  Short =>
    /\ \A p \in flag : wait_time[p] = FifoWait[p]
    /\ phase = "turn" => flag = 0 .. k - 1 /\ curr_time = Start(k)
    /\ phase = "next" => flag = 0 .. k /\ curr_time = Start(k) + temp_bt[k]
    /\ phase = "end" => flag = Procs
    /\ \A p \in Procs \ flag : burst_time[p] = temp_bt[p]

(* The inductive invariant. *)
Inv ==
  /\ Typed
  /\ InOrder
  /\ Accounts
  /\ InTurn
  /\ WaitsAreTrue
  /\ InLine

-----------------------------------------------------------------------------
(* The least number principle. *)
LEMMA LeastNatural ==
  ASSUME NEW S \in SUBSET Nat, S # {}
  PROVE  \E n \in S : \A m \in S : n <= m
<1>1. \E x \in S : \A y \in S : ~(<<y, x>> \in OpToRel(<, Nat))
  BY NatLessThanWellFounded, WFMin, Zenon
<1>2. \A x, y \in S : <<y, x>> \in OpToRel(<, Nat) <=> y < x
  BY DEF OpToRel
<1>3. \E x \in S : \A y \in S : ~(y < x)
  BY <1>1, <1>2, Zenon
<1> QED
  BY <1>3

(* The recursion of fifo_sched: the waiting time of p, given f for the others. *)
FifoStep(f, p) ==
  IF p = 0 THEN 0
  ELSE NotNegative(f[p - 1] + temp_bt[p - 1] + arrival_time[p - 1] - arrival_time[p])

(* Each waiting time follows from the one before it. *)
LEMMA FifoStepIsNatural ==
  ASSUME NEW p \in Procs, NEW f, p # 0 => f[p - 1] \in Nat, Typed
  PROVE  FifoStep(f, p) \in Nat
<1>1. CASE p = 0
  BY <1>1 DEF FifoStep
<1>2. CASE p # 0
  <2>1. p \in Procs /\ p - 1 \in Procs
    BY <1>2, RoundRobinAssumption DEF Procs
  <2>2. /\ f[p - 1] \in Nat /\ temp_bt[p - 1] \in Nat
        /\ arrival_time[p - 1] \in Nat /\ arrival_time[p] \in Nat
    BY <1>2, <2>1 DEF Typed
  <2> QED
    BY <1>2, <2>2 DEF FifoStep, NotNegative
<1> QED
  BY <1>1, <1>2

(* There is a solution for the first n processes, for every n. *)
LEMMA FifoWaitExists ==
  ASSUME Typed
  PROVE  \E f : f = [p \in Procs |-> FifoStep(f, p)]
<1> USE RoundRobinAssumption
<1> DEFINE Solves(f, n) == \A p \in 0 .. n - 1 : f[p] = FifoStep(f, p)
           Bad == {n \in 0 .. N : ~\E f \in [0 .. n - 1 -> Nat] : Solves(f, n)}
<1>1. Bad = {}
  <2> SUFFICES ASSUME Bad # {} PROVE FALSE
    OBVIOUS
  <2>1. PICK n \in Bad : \A m \in Bad : n <= m
    <3> HIDE DEF Bad
    <3>1. Bad \in SUBSET Nat
      BY DEF Bad
    <3> QED
      BY <3>1, LeastNatural
  <2>2. n \in 0 .. N /\ ~\E f \in [0 .. n - 1 -> Nat] : Solves(f, n)
    OBVIOUS
  <2>3. n # 0
    <3> SUFFICES ASSUME n = 0 PROVE FALSE
      OBVIOUS
    <3>1. [p \in 0 .. n - 1 |-> 0] \in [0 .. n - 1 -> Nat]
      OBVIOUS
    <3>2. Solves([p \in 0 .. n - 1 |-> 0], n)
      OBVIOUS
    <3> QED
      BY <2>2, <3>1, <3>2
  <2>4. PICK f \in [0 .. (n - 1) - 1 -> Nat] : Solves(f, n - 1)
    <3>1. n - 1 \in 0 .. N /\ n - 1 \notin Bad
      <4> HIDE DEF Bad
      <4> QED
        BY <2>1, <2>2, <2>3
    <3> HIDE DEF Solves
    <3> QED
      BY <3>1
  <2> DEFINE g == [p \in 0 .. n - 1 |-> IF p = n - 1 THEN FifoStep(f, p) ELSE f[p]]
  <2>5. FifoStep(f, n - 1) \in Nat
    <3>1. n - 1 \in Procs
      BY <2>2, <2>3 DEF Procs
    <3>2. n - 1 # 0 => f[n - 1 - 1] \in Nat
      BY <2>2, <2>3
    <3> QED
      BY <3>1, <3>2, FifoStepIsNatural
  <2>6. \A p \in 0 .. n - 1 : FifoStep(g, p) = FifoStep(f, p)
    BY <2>2 DEF FifoStep
  <2>7. g \in [0 .. n - 1 -> Nat]
    BY <2>2, <2>5
  <2>8. Solves(g, n)
    <3> SUFFICES ASSUME NEW p \in 0 .. n - 1 PROVE g[p] = FifoStep(f, p)
      BY <2>6
    <3>1. CASE p = n - 1
      BY <3>1
    <3>2. CASE p # n - 1
      <4>1. p \in 0 .. (n - 1) - 1 /\ g[p] = f[p]
        BY <2>2, <3>2
      <4> QED
        BY <2>4, <4>1
    <3> QED
      BY <3>1, <3>2
  <2> QED
    BY <2>2, <2>7, <2>8
<1>2. \E f \in [0 .. N - 1 -> Nat] : Solves(f, N)
  <2>1. N \in 0 .. N
    OBVIOUS
  <2>2. N \notin Bad
    <3> HIDE DEF Bad
    <3> QED
      BY <1>1
  <2> HIDE DEF Solves
  <2> QED
    BY <2>1, <2>2
<1>3. PICK f \in [Procs -> Nat] : \A p \in Procs : f[p] = FifoStep(f, p)
  BY <1>2 DEF Procs
<1>4. f = [p \in Procs |-> FifoStep(f, p)]
  BY <1>3
<1> QED
  BY <1>4

(* So FifoWait is what the loop of fifo_sched computes. *)
LEMMA FifoWaitRecursion ==
  ASSUME Typed
  PROVE  /\ FifoWait \in [Procs -> Nat]
         /\ \A p \in Procs : FifoWait[p] = FifoStep(FifoWait, p)
<1>1. FifoWait = CHOOSE f : f = [p \in Procs |-> FifoStep(f, p)]
  BY DEF FifoWait, FifoStep
<1>2. FifoWait = [p \in Procs |-> FifoStep(FifoWait, p)]
  BY <1>1, FifoWaitExists
<1> DEFINE Bad == {p \in Procs : FifoWait[p] \notin Nat}
<1>3. Bad = {}
  <2> SUFFICES ASSUME Bad # {} PROVE FALSE
    OBVIOUS
  <2>1. PICK p \in Bad : \A o \in Bad : p <= o
    <3> HIDE DEF Bad
    <3>1. Bad \in SUBSET Nat
      BY DEF Bad, Procs
    <3> QED
      BY <3>1, LeastNatural
  <2>2. p \in Procs /\ FifoWait[p] \notin Nat /\ FifoWait[p] = FifoStep(FifoWait, p)
    BY <1>2
  <2>3. p # 0 => FifoWait[p - 1] \in Nat
    <3> SUFFICES ASSUME p # 0, p - 1 \in Bad PROVE FALSE
      BY <2>2, RoundRobinAssumption DEF Procs
    <3> HIDE DEF Bad
    <3> QED
      BY <2>1, <2>2 DEF Procs
  <2> QED
    BY <2>2, <2>3, FifoStepIsNatural
<1> QED
  BY <1>2, <1>3

(* The first process starts when it arrives. *)
LEMMA StartOfFirst ==
  ASSUME Typed
  PROVE  Start(0) = arrival_time[0] /\ FifoWait[0] = 0 /\ 0 \in Procs
<1>1. 0 \in Procs
  BY RoundRobinAssumption DEF Procs
<1>2. FifoWait[0] = FifoStep(FifoWait, 0)
  BY <1>1, FifoWaitRecursion
<1>3. FifoWait[0] = 0
  BY <1>2 DEF FifoStep
<1> QED
  BY <1>1, <1>3 DEF Start, Typed

(* Who comes next starts when the one before it is finished, or when it arrives. *)
LEMMA StartOfNext ==
  ASSUME Typed, NEW p \in Procs, p + 1 \in Procs
  PROVE  Start(p + 1) = IF Start(p) + temp_bt[p] < arrival_time[p + 1]
                        THEN arrival_time[p + 1] ELSE Start(p) + temp_bt[p]
<1>1. /\ FifoWait[p] \in Nat /\ p \in Nat
      /\ FifoWait[p + 1] = FifoStep(FifoWait, p + 1)
      /\ temp_bt[p] \in Nat /\ arrival_time[p] \in Nat /\ arrival_time[p + 1] \in Nat
  <2>1. p \in Nat
    BY DEF Procs
  <2>2. FifoWait \in [Procs -> Nat] /\ FifoWait[p + 1] = FifoStep(FifoWait, p + 1)
    BY FifoWaitRecursion
  <2> QED
    BY <2>1, <2>2 DEF Typed
<1>2. FifoStep(FifoWait, p + 1)
        = NotNegative(FifoWait[p] + temp_bt[p] + arrival_time[p] - arrival_time[p + 1])
  BY <1>1 DEF FifoStep
<1> QED
  BY <1>1, <1>2 DEF Start, NotNegative

-----------------------------------------------------------------------------
(* main starts with an untouched table, at the time of the first arrival. *)
LEMMA InvInit == Init => Inv
<1> SUFFICES ASSUME Init PROVE Inv
  OBVIOUS
<1> USE RoundRobinAssumption DEF Init
<1>1. Typed
  <2>1. arrival_time \in [Procs -> Nat] /\ temp_bt \in [Procs -> Nat]
    OBVIOUS
  <2>2. 0 \in Procs /\ arrival_time[0] \in Nat
    BY <2>1 DEF Procs
  <2> QED
    BY <2>1, <2>2 DEF Typed
<1>2. InOrder
  BY DEF InOrder
<1>3. Accounts
  <2>1. 0 \in Procs /\ \A p \in Procs : 0 <= p
    BY DEF Procs
  <2>2. \A p \in Procs : curr_time <= arrival_time[p]
    BY <1>1, <2>1 DEF Procs, Typed
  <2>3. \A p \in Procs : arrival_time[p] \in Nat /\ temp_bt[p] \in Nat /\ curr_time \in Nat
    BY <1>1 DEF Typed
  <2> QED
    BY <2>2, <2>3 DEF Accounts
<1>4. InTurn /\ WaitsAreTrue
  BY DEF InTurn, WaitsAreTrue
<1>5. InLine
  BY <1>1, StartOfFirst DEF InLine
<1> QED
  BY <1>1, <1>2, <1>3, <1>4, <1>5 DEF Inv

(* What a turn of p changes for the others: they are kept waiting if they are *)
(* there, and p is behind them in the walk.                                   *)
LEMMA AccountKeeps ==
  ASSUME Typed, Accounts, NEW p \in Procs, Account(p),
         curr_time' \in Nat, curr_time <= curr_time',
         flag \subseteq flag', flag' \subseteq flag \cup {p},
         burst_time' \in [Procs -> Nat], \A o \in Procs \ {p} : burst_time'[o] = burst_time[o],
         \A o \in Procs \ flag : /\ passed[o] \subseteq After(o, p)
                                 /\ arrival_time[o] > curr_time => passed[o] = {},
         k' = p, phase' = "next", UNCHANGED job
  PROVE  /\ waited' \in [Procs -> Nat] /\ passed' \in [Procs -> SUBSET Procs]
         /\ \A o \in flag \cup {p} : waited'[o] = waited[o]
         /\ \A o \in Procs \ (flag \cup {p}) :
              /\ IF arrival_time[o] > curr_time'
                 THEN waited'[o] = 0 /\ burst_time'[o] = temp_bt[o]
                 ELSE waited'[o] = curr_time' - arrival_time[o] - (temp_bt[o] - burst_time'[o])
              /\ o \in system => burst_time'[o] = temp_bt[o]
         /\ InTurn'
<1>1. \A o \in Procs : Kept(o, curr_time') \in Nat
  <2> SUFFICES ASSUME NEW o \in Procs PROVE Kept(o, curr_time') \in Nat
    OBVIOUS
  <2>1. arrival_time[o] \in Nat /\ curr_time \in Nat
    BY DEF Typed
  <2>2. \A later \in Nat : Kept(o, later) \in Nat
    BY <2>1 DEF Kept
  <2> QED
    BY <2>2
<1>2. waited' \in [Procs -> Nat] /\ \A o \in flag \cup {p} : waited'[o] = waited[o]
  BY <1>1 DEF Account, Typed
<1>3. passed' \in [Procs -> SUBSET Procs]
  BY DEF Account, Typed
<1>4. ASSUME NEW o \in Procs \ (flag \cup {p})
      PROVE  /\ IF arrival_time[o] > curr_time'
                THEN waited'[o] = 0 /\ burst_time'[o] = temp_bt[o]
                ELSE waited'[o] = curr_time' - arrival_time[o] - (temp_bt[o] - burst_time'[o])
             /\ o \in system => burst_time'[o] = temp_bt[o]
  <2>1. /\ arrival_time[o] \in Nat /\ temp_bt[o] \in Nat /\ burst_time[o] \in Nat
        /\ waited[o] \in Nat /\ curr_time \in Nat
    BY DEF Typed
  <2>2. waited'[o] = waited[o] + Kept(o, curr_time') /\ burst_time'[o] = burst_time[o]
    BY DEF Account
  <2>3. /\ IF arrival_time[o] > curr_time
           THEN waited[o] = 0 /\ burst_time[o] = temp_bt[o]
           ELSE waited[o] = curr_time - arrival_time[o] - (temp_bt[o] - burst_time[o])
        /\ o \in system => burst_time[o] = temp_bt[o]
    BY DEF Accounts
  <2>4. Kept(o, curr_time') =
          IF arrival_time[o] > curr_time'
          THEN 0
          ELSE curr_time' - (IF arrival_time[o] > curr_time THEN arrival_time[o] ELSE curr_time)
    BY <2>1 DEF Kept
  <2> QED
    BY <2>1, <2>2, <2>3, <2>4
<1>5. InTurn'
  <2> SUFFICES ASSUME NEW o \in Procs \ flag'
               PROVE  /\ passed'[o] \subseteq After(o, p + 1)
                      /\ arrival_time[o] > curr_time' => passed'[o] = {}
    BY DEF InTurn, Place, After, job
  <2>1. o \in Procs \ flag
    OBVIOUS
  <2>2. arrival_time[o] \in Nat /\ curr_time \in Nat
    BY DEF Typed
  <2>3. CASE o = p \/ arrival_time[o] > curr_time
    BY <2>1, <2>2, <2>3 DEF Account
  <2>4. CASE o # p /\ ~(arrival_time[o] > curr_time)
    <3>1. passed'[o] = passed[o] \cup {p}
      BY <2>1, <2>4 DEF Account
    <3>2. passed[o] \subseteq After(o, p)
      BY <2>1
    <3>3. After(o, p) \cup {p} \subseteq After(o, p + 1)
      BY <2>4 DEF After, Procs
    <3> QED
      BY <2>2, <2>4, <3>1, <3>2, <3>3
  <2> QED
    BY <2>3, <2>4
<1> QED
  BY <1>2, <1>3, <1>4, <1>5

(* Nobody who is not finished is passed a second time: the walk, before p or *)
(* sent back to process 0 by somebody who is not there, meets them first.     *)
LEMMA WalkGoesBack ==
  ASSUME Inv, phase = "turn", NEW p \in {0, k}, p # k => curr_time < arrival_time[k]
  PROVE  /\ p \in Procs
         /\ \A o \in Procs \ flag : /\ passed[o] \subseteq After(o, p)
                                    /\ arrival_time[o] > curr_time => passed[o] = {}
         /\ Short => p = k /\ arrival_time[k] <= curr_time
<1>1. p \in Procs /\ k \in Procs /\ 0 \in Procs
  BY RoundRobinAssumption DEF Inv, Typed, Procs
<1>2. \A o \in Procs \ flag : /\ passed[o] \subseteq After(o, k)
                              /\ arrival_time[o] > curr_time => passed[o] = {}
  BY DEF Inv, InTurn, Place
<1>3. ASSUME NEW o \in Procs \ flag, p # k PROVE passed[o] \subseteq After(o, p)
  <2>1. CASE o < k
    BY <1>1, <1>2, <1>3, <2>1 DEF After, Procs
  <2>2. CASE k <= o
    <3>1. arrival_time[k] <= arrival_time[o]
      <4>1. k = o \/ k < o
        BY <1>1, <2>2 DEF Procs
      <4> QED
        BY <1>1, <4>1 DEF Inv, InOrder, Typed
    <3>2. curr_time < arrival_time[o]
      BY <1>1, <1>3, <3>1 DEF Inv, Typed
    <3> QED
      BY <1>2, <3>2
  <2> QED
    BY <1>1, <2>1, <2>2 DEF Procs
<1>4. ASSUME Short PROVE p = k /\ arrival_time[k] <= curr_time
  <2>1. curr_time = Start(k)
    BY <1>4 DEF Inv, InLine
  <2>2. FifoWait[k] \in Nat /\ arrival_time[k] \in Nat
    BY <1>1, FifoWaitRecursion DEF Inv, Typed
  <2> QED
    BY <2>1, <2>2 DEF Start
<1> QED
  BY <1>1, <1>2, <1>3, <1>4

(* The turn of p, who is there, for a quantum or to its end. *)
LEMMA RunQuantumStep ==
  ASSUME Inv, phase = "turn", NEW p \in Procs \ (flag \cup system), RunQuantum(p),
         p \in {0, k}, p # k => curr_time < arrival_time[k],
         arrival_time[p] <= curr_time, k' = p, phase' = "next", UNCHANGED job
  PROVE  Inv'
<1> DEFINE slice == IF burst_time[p] < Quantum THEN burst_time[p] ELSE Quantum
<1>1. /\ curr_time \in Nat /\ arrival_time[p] \in Nat /\ temp_bt[p] \in Nat
      /\ burst_time[p] \in Nat /\ burst_time \in [Procs -> Nat]
      /\ slice \in Nat /\ slice <= burst_time[p]
      /\ burst_time[p] <= Quantum => slice = burst_time[p]
  BY RoundRobinAssumption DEF Inv, Typed
<1>2. /\ curr_time' = curr_time + slice
      /\ burst_time' = [burst_time EXCEPT ![p] = burst_time[p] - slice]
      /\ burst_time'[p] = burst_time[p] - slice
      /\ \/ /\ burst_time'[p] = 0 /\ flag' = flag \cup {p}
            /\ wait_time' = [wait_time EXCEPT ![p] = WaitAtEnd(p)]
         \/ burst_time'[p] # 0 /\ UNCHANGED <<flag, wait_time>>
      /\ Account(p)
  BY <1>1 DEF RunQuantum
<1> HIDE DEF slice
<1>3. /\ curr_time' \in Nat /\ curr_time <= curr_time'
      /\ burst_time' \in [Procs -> Nat]
      /\ \A o \in Procs \ {p} : burst_time'[o] = burst_time[o]
  BY <1>1, <1>2
<1>4. /\ waited' \in [Procs -> Nat] /\ passed' \in [Procs -> SUBSET Procs]
      /\ \A o \in flag \cup {p} : waited'[o] = waited[o]
      /\ \A o \in Procs \ (flag \cup {p}) :
           /\ IF arrival_time[o] > curr_time'
              THEN waited'[o] = 0 /\ burst_time'[o] = temp_bt[o]
              ELSE waited'[o] = curr_time' - arrival_time[o] - (temp_bt[o] - burst_time'[o])
           /\ o \in system => burst_time'[o] = temp_bt[o]
      /\ InTurn'
  BY <1>2, <1>3, WalkGoesBack, AccountKeeps DEF Inv
<1>5. waited[p] = curr_time - arrival_time[p] - (temp_bt[p] - burst_time[p])
  BY <1>1 DEF Inv, Accounts
<1>6. waited'[p] = curr_time' - arrival_time[p] - (temp_bt[p] - burst_time'[p])
  BY <1>1, <1>2, <1>4, <1>5
<1>7. WaitAtEnd(p) \in Int /\ (burst_time'[p] = 0 => WaitAtEnd(p) = waited'[p])
  BY <1>1, <1>2, <1>3, <1>6 DEF WaitAtEnd
<1>8. Typed'
  <2>1. wait_time' \in [Procs -> Int] /\ flag' \in SUBSET Procs
    BY <1>2, <1>7 DEF Inv, Typed
  <2>2. arrival_time[0] <= curr_time'
    <3>1. arrival_time[0] \in Nat /\ arrival_time[0] <= curr_time
      BY RoundRobinAssumption DEF Inv, Typed, Procs
    <3> QED
      BY <1>1, <1>3, <3>1
  <2> QED
    BY <1>3, <1>4, <2>1, <2>2 DEF Inv, Typed, job
<1>9. Accounts'
  <2>1. \A o \in Procs \ flag' :
          /\ IF arrival_time[o] > curr_time'
             THEN waited'[o] = 0 /\ burst_time'[o] = temp_bt[o]
             ELSE waited'[o] = curr_time' - arrival_time[o] - (temp_bt[o] - burst_time'[o])
          /\ o \in system => burst_time'[o] = temp_bt[o]
    <3> SUFFICES ASSUME NEW o \in Procs \ flag'
                 PROVE  /\ IF arrival_time[o] > curr_time'
                           THEN waited'[o] = 0 /\ burst_time'[o] = temp_bt[o]
                           ELSE waited'[o] = curr_time' - arrival_time[o]
                                              - (temp_bt[o] - burst_time'[o])
                        /\ o \in system => burst_time'[o] = temp_bt[o]
      OBVIOUS
    <3>1. CASE o = p
      BY <1>1, <1>3, <1>6, <3>1
    <3>2. CASE o # p
      BY <1>2, <1>4, <3>2
    <3> QED
      BY <3>1, <3>2
  <2>2. UNCHANGED <<arrival_time, temp_bt, system>>
    BY DEF job
  <2> QED
    BY <2>1, <2>2 DEF Accounts
<1>10. WaitsAreTrue'
  <2> SUFFICES ASSUME NEW o \in flag'
               PROVE  wait_time'[o] = waited'[o]
                      \/ (o \in system /\ wait_time'[o] < 0 /\ waited'[o] = 0)
    BY DEF WaitsAreTrue, job
  <2>1. CASE o = p
    BY <1>2, <1>7, <2>1 DEF Inv, Typed
  <2>2. CASE o # p
    <3>1. o \in flag /\ wait_time'[o] = wait_time[o]
      BY <1>2, <2>2 DEF Inv, Typed
    <3> QED
      BY <1>4, <3>1 DEF Inv, WaitsAreTrue
  <2> QED
    BY <2>1, <2>2
<1>11. InLine'
  <2> SUFFICES ASSUME Short PROVE InLine'
    BY DEF InLine, Short, job
  <2>1. /\ p = k /\ flag = 0 .. k - 1 /\ curr_time = Start(k)
        /\ \A o \in flag : wait_time[o] = FifoWait[o]
        /\ \A o \in Procs \ flag : burst_time[o] = temp_bt[o]
    BY WalkGoesBack DEF Inv, InLine
  <2>2. slice = temp_bt[p] /\ burst_time'[p] = 0
    BY <1>1, <1>2, <2>1 DEF Short
  <2>3. FifoWait[p] \in Nat /\ p \in Nat
    BY FifoWaitRecursion DEF Inv, Procs
  <2>4. /\ flag' = flag \cup {p} /\ wait_time' = [wait_time EXCEPT ![p] = WaitAtEnd(p)]
        /\ curr_time' = curr_time + temp_bt[p]
    BY <1>2, <2>2
  <2>5. flag' = 0 .. k /\ curr_time' = Start(k) + temp_bt[k]
    BY <2>1, <2>3, <2>4
  <2>6. WaitAtEnd(p) = FifoWait[p]
    <3>1. curr_time = arrival_time[p] + FifoWait[p]
      BY <2>1 DEF Start
    <3> QED
      BY <1>1, <2>3, <2>4, <3>1 DEF WaitAtEnd
  <2>7. /\ \A o \in flag' : wait_time'[o] = FifoWait[o]
        /\ \A o \in Procs \ flag' : burst_time'[o] = temp_bt[o]
    <3>1. wait_time \in [Procs -> Int] /\ flag \subseteq Procs
      BY DEF Inv, Typed
    <3>2. \A o \in flag' : wait_time'[o] = FifoWait[o]
      BY <2>1, <2>4, <2>6, <3>1
    <3>3. \A o \in Procs \ flag' : burst_time'[o] = temp_bt[o]
      BY <1>3, <2>1, <2>4
    <3> QED
      BY <3>2, <3>3
  <2>8. FifoWait' = FifoWait /\ UNCHANGED <<temp_bt, arrival_time>>
    BY DEF FifoWait, job
  <2> QED
    BY <2>1, <2>5, <2>7, <2>8 DEF InLine, Start
<1> QED
  BY <1>4, <1>8, <1>9, <1>10, <1>11 DEF Inv, InOrder, job

(* Finished processes are passed over. *)
LEMMA PassedOverStep ==
  ASSUME Inv, phase = "turn", NEW p \in flag,
         p \in {0, k}, p # k => curr_time < arrival_time[k], k' = p, phase' = "next",
         UNCHANGED <<job, burst_time, flag, wait_time, curr_time, waited, passed>>
  PROVE  Inv'
<1>1. p \in Procs
  BY DEF Inv, Typed
<1>2. Typed' /\ InOrder' /\ Accounts' /\ WaitsAreTrue'
  BY <1>1 DEF Inv, Typed, InOrder, Accounts, WaitsAreTrue, job
<1>3. InTurn'
  <2>1. \A o \in Procs \ flag : After(o, p) \subseteq After(o, p + 1)
    BY <1>1 DEF After, Procs
  <2> QED
    BY <2>1, WalkGoesBack DEF InTurn, Place, After, job
<1>4. ~Short
  BY <1>1, WalkGoesBack DEF Inv, InLine, Procs
<1> QED
  BY <1>2, <1>3, <1>4 DEF Inv, InLine, Short, job

(* Round robin: process k has its turn, or process 0 if k has not arrived. *)
LEMMA RoundRobinTurnStep == Inv /\ RoundRobinTurn => Inv'
<1> SUFFICES ASSUME Inv, RoundRobinTurn PROVE Inv'
  OBVIOUS
<1>1. /\ phase = "turn" /\ phase' = "next" /\ system = {} /\ k' = Turn /\ Turn \in {0, k}
      /\ Turn # k => curr_time < arrival_time[k]
      /\ UNCHANGED job
  BY DEF Inv, Typed, RoundRobinTurn, Turn
<1>2. Turn \in Procs /\ arrival_time[Turn] <= curr_time
  BY <1>1, RoundRobinAssumption DEF Inv, Typed, Turn, Procs
<1>3. CASE Turn \in flag
  BY <1>1, <1>3, PassedOverStep DEF RoundRobinTurn
<1>4. CASE Turn \notin flag
  BY <1>1, <1>2, <1>4, RunQuantumStep DEF RoundRobinTurn
<1> QED
  BY <1>3, <1>4

(* mlq_sched passes over the finished processes too. *)
LEMMA FinishedTurnStep == Inv /\ FinishedTurn => Inv'
BY PassedOverStep DEF FinishedTurn

(* An interactive process has its turn, or is not there and sends the walk *)
(* back to process 0.                                                      *)
LEMMA InteractiveTurnStep == Inv /\ InteractiveTurn => Inv'
<1> SUFFICES ASSUME Inv, InteractiveTurn PROVE Inv'
  OBVIOUS
<1>1. /\ phase = "turn" /\ k \in Procs \ (flag \cup system) /\ UNCHANGED job
      /\ curr_time \in Nat /\ arrival_time[k] \in Nat
  BY DEF InteractiveTurn, Inv, Typed
<1>2. CASE curr_time < arrival_time[k]
  <2>1. /\ k' = 0
        /\ UNCHANGED <<job, burst_time, flag, wait_time, curr_time, phase, waited, passed>>
    BY <1>1, <1>2 DEF InteractiveTurn
  <2>2. 0 \in Procs
    BY RoundRobinAssumption DEF Procs
  <2>3. ~Short
    BY <1>1, <1>2, WalkGoesBack
  <2>4. InTurn'
    BY <1>1, <1>2, <2>1, WalkGoesBack DEF InTurn, Place, After, job
  <2> QED
    BY <2>1, <2>2, <2>3, <2>4 DEF Inv, Typed, InOrder, Accounts, WaitsAreTrue, InLine, Short, job
<1>3. CASE ~(curr_time < arrival_time[k])
  BY <1>1, <1>3, RunQuantumStep DEF InteractiveTurn
<1> QED
  BY <1>2, <1>3

(* A system process runs to its end, and is reported with a negative waiting *)
(* time if it has not arrived.                                               *)
LEMMA SystemTurnStep == Inv /\ SystemTurn => Inv'
<1> SUFFICES ASSUME Inv, SystemTurn PROVE Inv'
  OBVIOUS
<1>1. /\ phase = "turn" /\ phase' = "next" /\ UNCHANGED <<job, burst_time, k>>
      /\ k \in Procs /\ k \in system \ flag
      /\ wait_time' = [wait_time EXCEPT ![k] = curr_time - arrival_time[k]]
      /\ curr_time' = curr_time + temp_bt[k] /\ flag' = flag \cup {k} /\ Account(k)
  BY DEF SystemTurn, Inv, Typed
<1>2. /\ curr_time \in Nat /\ temp_bt[k] \in Nat /\ arrival_time[k] \in Nat
      /\ curr_time' \in Nat /\ curr_time <= curr_time' /\ burst_time' \in [Procs -> Nat]
  BY <1>1 DEF Inv, Typed
<1>3. /\ waited' \in [Procs -> Nat] /\ passed' \in [Procs -> SUBSET Procs]
      /\ \A o \in flag \cup {k} : waited'[o] = waited[o]
      /\ \A o \in Procs \ (flag \cup {k}) :
           /\ IF arrival_time[o] > curr_time'
              THEN waited'[o] = 0 /\ burst_time'[o] = temp_bt[o]
              ELSE waited'[o] = curr_time' - arrival_time[o] - (temp_bt[o] - burst_time'[o])
           /\ o \in system => burst_time'[o] = temp_bt[o]
      /\ InTurn'
  BY <1>1, <1>2, WalkGoesBack, AccountKeeps DEF Inv
<1>4. Typed'
  <2>1. wait_time' \in [Procs -> Int] /\ flag' \in SUBSET Procs
    BY <1>1, <1>2 DEF Inv, Typed
  <2>2. arrival_time[0] <= curr_time'
    <3>1. arrival_time[0] \in Nat /\ arrival_time[0] <= curr_time
      BY RoundRobinAssumption DEF Inv, Typed, Procs
    <3> QED
      BY <1>2, <3>1
  <2> QED
    BY <1>1, <1>2, <1>3, <2>1, <2>2 DEF Inv, Typed, job
<1>5. Accounts'
  <2>1. UNCHANGED <<arrival_time, temp_bt, system>> /\ flag' = flag \cup {k}
    BY <1>1 DEF job
  <2> QED
    BY <1>3, <2>1 DEF Accounts
<1>6. WaitsAreTrue'
  <2> SUFFICES ASSUME NEW o \in flag'
               PROVE  wait_time'[o] = waited'[o]
                      \/ (o \in system /\ wait_time'[o] < 0 /\ waited'[o] = 0)
    BY <1>1 DEF WaitsAreTrue, job
  <2>1. CASE o = k
    <3>1. wait_time'[k] = curr_time - arrival_time[k] /\ waited'[k] = waited[k]
      BY <1>1, <1>3 DEF Inv, Typed
    <3>2. /\ burst_time[k] = temp_bt[k]
          /\ IF arrival_time[k] > curr_time THEN waited[k] = 0
             ELSE waited[k] = curr_time - arrival_time[k] - (temp_bt[k] - burst_time[k])
      BY <1>1 DEF Inv, Accounts
    <3> QED
      BY <1>1, <1>2, <2>1, <3>1, <3>2
  <2>2. CASE o # k
    <3>1. o \in flag /\ wait_time'[o] = wait_time[o]
      BY <1>1, <2>2 DEF Inv, Typed
    <3> QED
      BY <1>3, <3>1 DEF Inv, WaitsAreTrue
  <2> QED
    BY <2>1, <2>2
<1>7. InLine'
  <2> SUFFICES ASSUME Short PROVE InLine'
    BY <1>1 DEF InLine, Short, job
  <2>1. /\ flag = 0 .. k - 1 /\ curr_time = Start(k)
        /\ \A o \in flag : wait_time[o] = FifoWait[o]
        /\ \A o \in Procs \ flag : burst_time[o] = temp_bt[o]
    BY <1>1 DEF Inv, InLine
  <2>2. FifoWait[k] \in Nat /\ k \in Nat
    BY <1>1, FifoWaitRecursion DEF Inv, Procs
  <2>3. flag' = 0 .. k /\ curr_time' = Start(k) + temp_bt[k]
    BY <1>1, <2>1, <2>2
  <2>4. curr_time - arrival_time[k] = FifoWait[k]
    BY <1>2, <2>1, <2>2 DEF Start
  <2>5. \A o \in flag' : wait_time'[o] = FifoWait[o]
    BY <1>1, <2>1, <2>4 DEF Inv, Typed
  <2>6. \A o \in Procs \ flag' : burst_time'[o] = temp_bt[o]
    BY <1>1, <2>1
  <2>7. FifoWait' = FifoWait /\ UNCHANGED <<temp_bt, arrival_time>>
    BY <1>1 DEF FifoWait, job
  <2> QED
    BY <1>1, <2>3, <2>5, <2>6, <2>7 DEF InLine, Start
<1> QED
  BY <1>1, <1>3, <1>4, <1>5, <1>6, <1>7 DEF Inv, InOrder, job

(* The move to the next process, with the wait for its arrival when nobody is *)
(* left before it.                                                            *)
LEMMA NextProcessStep == Inv /\ NextProcess => Inv'
<1> SUFFICES ASSUME Inv, NextProcess PROVE Inv'
  OBVIOUS
<1>1. /\ phase = "next" /\ phase' = IF flag = Procs THEN "end" ELSE "turn"
      /\ k \in Procs /\ k \in Nat /\ N \in Nat \ {0}
      /\ UNCHANGED <<job, burst_time, flag, wait_time, passed>>
      /\ curr_time \in Nat
  BY RoundRobinAssumption DEF NextProcess, Inv, Typed, Procs
<1>2. k' = (IF k = N - 1 THEN 0 ELSE k + 1) /\ k' \in Procs
  <2>1. k \in 0 .. N - 1
    BY <1>1 DEF Procs
  <2>2. (k + 1) % N = IF k = N - 1 THEN 0 ELSE k + 1
    BY <1>1, <2>1
  <2> QED
    BY <1>1, <2>1, <2>2 DEF NextProcess, Following, Procs
<1>3. curr_time' \in Nat /\ curr_time <= curr_time'
      /\ curr_time' = IF MustWait THEN arrival_time[k + 1] ELSE curr_time
  <2>1. MustWait => k + 1 \in Procs /\ curr_time < arrival_time[k + 1]
    BY <1>1 DEF MustWait, Procs
  <2> QED
    BY <1>1, <2>1 DEF NextProcess, Inv, Typed
<1>4. /\ \A o \in flag : waited'[o] = waited[o]
      /\ \A o \in Procs \ flag : waited'[o] = waited[o] + Kept(o, curr_time')
      /\ waited' \in [Procs -> Nat]
  <2>1. \A o \in Procs : Kept(o, curr_time') \in Nat
    <3> SUFFICES ASSUME NEW o \in Procs PROVE Kept(o, curr_time') \in Nat
      OBVIOUS
    <3>1. arrival_time[o] \in Nat
      BY DEF Inv, Typed
    <3>2. \A later \in Nat : Kept(o, later) \in Nat
      BY <1>1, <3>1 DEF Kept
    <3> QED
      BY <1>3, <3>2
  <2>2. waited' = [o \in Procs |-> IF o \in flag THEN waited[o]
                                   ELSE waited[o] + Kept(o, curr_time')]
    BY DEF NextProcess
  <2> HIDE DEF NextProcess
  <2> QED
    BY <2>1, <2>2 DEF Inv, Typed
<1>5. Typed'
  <2>1. arrival_time[0] <= curr_time'
    <3>1. arrival_time[0] \in Nat /\ arrival_time[0] <= curr_time
      BY RoundRobinAssumption DEF Inv, Typed, Procs
    <3> QED
      BY <1>1, <1>3, <3>1
  <2> QED
    BY <1>1, <1>2, <1>3, <1>4, <2>1 DEF Inv, Typed, job
<1>6. Accounts'
  <2>1. ASSUME NEW o \in Procs \ flag
        PROVE  /\ IF arrival_time[o] > curr_time'
                  THEN waited'[o] = 0 /\ burst_time[o] = temp_bt[o]
                  ELSE waited'[o] = curr_time' - arrival_time[o] - (temp_bt[o] - burst_time[o])
               /\ o \in system => burst_time[o] = temp_bt[o]
    <3>1. /\ arrival_time[o] \in Nat /\ temp_bt[o] \in Nat /\ burst_time[o] \in Nat
          /\ waited[o] \in Nat
      BY DEF Inv, Typed
    <3>2. /\ IF arrival_time[o] > curr_time
             THEN waited[o] = 0 /\ burst_time[o] = temp_bt[o]
             ELSE waited[o] = curr_time - arrival_time[o] - (temp_bt[o] - burst_time[o])
          /\ o \in system => burst_time[o] = temp_bt[o]
      BY DEF Inv, Accounts
    <3>3. Kept(o, curr_time') =
            IF arrival_time[o] > curr_time'
            THEN 0
            ELSE curr_time' - (IF arrival_time[o] > curr_time THEN arrival_time[o] ELSE curr_time)
      BY <1>1, <1>3, <3>1 DEF Kept
    <3>4. waited'[o] = waited[o] + Kept(o, curr_time')
      BY <1>4
    <3> QED
      BY <1>1, <1>3, <3>1, <3>2, <3>3, <3>4
  <2>2. UNCHANGED <<arrival_time, temp_bt, system, flag, burst_time>>
    BY <1>1 DEF job
  <2> QED
    BY <2>1, <2>2 DEF Accounts
<1>7. InTurn'
  <2> SUFFICES ASSUME NEW o \in Procs \ flag
               PROVE  /\ passed[o] \subseteq After(o, k')
                      /\ arrival_time[o] > curr_time' => passed[o] = {}
    BY <1>1 DEF InTurn, Place, After, job
  <2>1. /\ passed[o] \subseteq After(o, k + 1)
        /\ arrival_time[o] > curr_time => passed[o] = {}
    BY <1>1 DEF Inv, InTurn, Place
  <2>2. After(o, k + 1) \subseteq After(o, k')
    BY <1>1, <1>2 DEF After, Procs
  <2>3. arrival_time[o] \in Nat
    BY DEF Inv, Typed
  <2> QED
    BY <1>1, <1>3, <2>1, <2>2, <2>3
<1>8. WaitsAreTrue'
  BY <1>1, <1>4 DEF Inv, Typed, WaitsAreTrue, job
<1>9. InLine'
  <2> SUFFICES ASSUME Short PROVE InLine'
    BY <1>1 DEF InLine, Short, job
  <2>1. /\ flag = 0 .. k /\ curr_time = Start(k) + temp_bt[k]
        /\ \A o \in flag : wait_time[o] = FifoWait[o]
        /\ \A o \in Procs \ flag : burst_time[o] = temp_bt[o]
    BY <1>1 DEF Inv, InLine
  <2>2. CASE k = N - 1
    <3>1. flag = Procs
      BY <2>1, <2>2 DEF Procs
    <3> QED
      BY <1>1, <2>1, <3>1 DEF InLine, FifoWait, job
  <2>3. CASE k # N - 1
    <3>1. k + 1 \in Procs /\ k' = k + 1 /\ flag # Procs /\ k < N - 1
      BY <1>1, <1>2, <2>1, <2>3 DEF Procs
    <3>2. MustWait <=> curr_time < arrival_time[k + 1]
      BY <2>1, <3>1 DEF MustWait
    <3>3. curr_time' = Start(k + 1)
      BY <1>1, <1>3, <2>1, <3>1, <3>2, StartOfNext DEF Inv
    <3>4. flag = 0 .. k' - 1 /\ phase' = "turn"
      BY <1>1, <2>1, <3>1
    <3>5. FifoWait' = FifoWait /\ UNCHANGED <<arrival_time, temp_bt, flag, burst_time, wait_time>>
      BY <1>1 DEF FifoWait, job
    <3>6. /\ \A p \in flag' : wait_time'[p] = FifoWait'[p]
          /\ \A p \in Procs \ flag' : burst_time'[p] = temp_bt'[p]
      BY <2>1, <3>5
    <3>7. Start(k)' = Start(k')
      BY <3>5 DEF Start
    <3> QED
      BY <3>1, <3>3, <3>4, <3>5, <3>6, <3>7 DEF InLine
  <2> QED
    BY <2>2, <2>3
<1> QED
  BY <1>1, <1>5, <1>6, <1>7, <1>8, <1>9 DEF Inv, InOrder, job

(* Every step of the two simulations keeps the invariant. *)
LEMMA InvStep == Inv /\ [Next]_vars => Inv'
<1>1. Inv /\ UNCHANGED vars => Inv'
  <2> SUFFICES ASSUME Inv, UNCHANGED vars PROVE Inv'
    OBVIOUS
  <2>1. FifoWait' = FifoWait
    BY DEF FifoWait, vars, job
  <2>2. InLine'
    BY <2>1 DEF Inv, InLine, Short, Start, vars, job
  <2> QED
    BY <2>2 DEF Inv, vars, Typed, InOrder, Accounts, InTurn, Place, After, WaitsAreTrue, job
<1> QED
  BY <1>1, RoundRobinTurnStep, SystemTurnStep, InteractiveTurnStep, FinishedTurnStep,
     NextProcessStep DEF Next

(* So it always holds. *)
LEMMA Invariant == Spec => []Inv
BY InvInit, InvStep, PTL DEF Spec

-----------------------------------------------------------------------------
(* The waiting times that rr_sched and mlq_sched compute from the time are     *)
(* what the processes waited, but for the system processes that mlq_sched      *)
(* starts before they arrive.                                                  *)
THEOREM WaitsAreWhatWasWaited == Spec => []WaitsAreTrue
<1>1. Inv => WaitsAreTrue
  BY DEF Inv
<1> QED
  BY <1>1, Invariant, PTL

(* The time that rr_sched and mlq_sched skip ends no later than the next        *)
(* arrival of an unfinished process.                                            *)
THEOREM NobodyIsThereWhenIdle == Spec => IdleOnlyWhenEmpty
<1> DEFINE Idles == phase = "next" /\ curr_time' > curr_time
                      => \A p \in Procs \ flag : arrival_time[p] >= curr_time'
<1>1. ASSUME Inv, NextProcess PROVE Idles
  <2> SUFFICES ASSUME curr_time' > curr_time, NEW p \in Procs \ flag
               PROVE  arrival_time[p] >= curr_time'
    OBVIOUS
  <2>1. MustWait /\ curr_time' = arrival_time[k + 1] /\ k + 1 \in Procs /\ 0 .. k \subseteq flag
    <3>1. MustWait /\ curr_time' = arrival_time[k + 1]
      BY <1>1 DEF Inv, Typed, NextProcess
    <3>2. k \in Procs /\ N \in Nat
      BY <1>1, RoundRobinAssumption DEF Inv, Typed
    <3> QED
      BY <3>1, <3>2 DEF MustWait, Procs
  <2>2. p = k + 1 \/ k + 1 < p
    BY <1>1, <2>1 DEF Inv, Typed, Procs
  <2> QED
    BY <1>1, <2>1, <2>2 DEF Inv, InOrder, Typed
<1>2. ASSUME Inv, [Next]_vars, ~NextProcess PROVE Idles
  BY <1>2 DEF Next, RoundRobinTurn, SystemTurn, InteractiveTurn, FinishedTurn, vars, Inv, Typed
<1>3. Inv /\ [Next]_vars => [Idles]_vars
  BY <1>1, <1>2
<1> QED
  BY <1>3, Invariant, PTL DEF Spec, IdleOnlyWhenEmpty

(* Nobody has a second turn while somebody who was there for the first has had *)
(* none, although the walk jumps back to process 0.                             *)
THEOREM TheyTakeTurns == Spec => TakeTurns
<1> DEFINE Fair == \A p \in Procs : burst_time'[p] < burst_time[p] \/ p \in flag' \ flag
                     => \A o \in Procs \ (flag \cup {p}) : p \notin passed[o]
<1>1. ASSUME Inv, phase = "turn", NEW p \in {0, k}, p # k => curr_time < arrival_time[k],
             \A o \in Procs \ {p} : burst_time'[o] = burst_time[o], flag' \subseteq flag \cup {p}
      PROVE  Fair
  <2>1. \A o \in Procs \ flag : passed[o] \subseteq After(o, p)
    BY <1>1, WalkGoesBack
  <2>2. \A o \in Procs \ {p} : p \notin After(o, p)
    BY <1>1 DEF After, Inv, Typed, Procs
  <2>3. \A o \in Procs : ~(burst_time[o] < burst_time[o])
    BY <1>1 DEF Inv, Typed
  <2> QED
    BY <1>1, <2>1, <2>2, <2>3
<1>2. ASSUME Inv, UNCHANGED <<burst_time, flag>> PROVE Fair
  BY <1>2 DEF Inv, Typed
<1>3. ASSUME Inv, NEW p, RunQuantum(p)
      PROVE  /\ \A o \in Procs \ {p} : burst_time'[o] = burst_time[o]
             /\ flag' \subseteq flag \cup {p}
  BY <1>3 DEF RunQuantum, Inv, Typed
<1>4. ASSUME Inv, RoundRobinTurn PROVE Fair
  <2>1. phase = "turn" /\ Turn \in {0, k} /\ (Turn # k => curr_time < arrival_time[k])
    BY <1>4 DEF RoundRobinTurn, Turn
  <2>2. UNCHANGED <<burst_time, flag>> \/ RunQuantum(Turn)
    BY <1>4 DEF RoundRobinTurn
  <2> QED
    BY <1>1, <1>2, <1>3, <1>4, <2>1, <2>2
<1>5. ASSUME Inv, SystemTurn PROVE Fair
  BY <1>1, <1>5 DEF SystemTurn
<1>6. ASSUME Inv, InteractiveTurn PROVE Fair
  <2>1. phase = "turn" /\ (UNCHANGED <<burst_time, flag>> \/ RunQuantum(k))
    BY <1>6 DEF InteractiveTurn
  <2> QED
    BY <1>1, <1>2, <1>3, <1>6, <2>1
<1>7. Inv /\ [Next]_vars => [Fair]_vars
  BY <1>2, <1>4, <1>5, <1>6 DEF Next, FinishedTurn, NextProcess, vars
<1> QED
  BY <1>7, Invariant, PTL DEF Spec, TakeTurns

(* Where no process needs a second turn, rr_sched and mlq_sched are first in,  *)
(* first out, and report the times that fifo_sched computes.                    *)
THEOREM FifoWhenNoSecondTurn == Spec => []FifoWhenShort
<1>1. Inv => FifoWhenShort
  <2> SUFFICES ASSUME Inv, phase = "end", Short PROVE wait_time = FifoWait
    BY DEF FifoWhenShort, Short
  <2>1. \A p \in Procs : wait_time[p] = FifoWait[p]
    BY DEF Inv, InLine
  <2>2. wait_time \in [Procs -> Int] /\ FifoWait \in [Procs -> Nat]
    BY FifoWaitRecursion DEF Inv, Typed
  <2> QED
    BY <2>1, <2>2
<1> QED
  BY <1>1, Invariant, PTL
=============================================================================
