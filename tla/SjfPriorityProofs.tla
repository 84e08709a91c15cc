-------------------------- MODULE SjfPriorityProofs --------------------------
(***************************************************************************)
(* Proofs about SjfPriority, for any number of processes and any times,    *)
(* bursts and priorities.                                                  *)
(***************************************************************************)
EXTENDS SjfPriority, WellFoundedInduction, TLAPS

(* The scheduler's view of the process table is well typed, the times are in *)
(* the order of arrival, and the loops are about one of the three policies.  *)
Typed ==
  /\ arrival_time \in [Procs -> Nat] /\ burst_time \in [Procs -> 1 .. INT_MAX - 1]
  /\ rt \in [Procs -> 0 .. INT_MAX - 1]
  /\ pri \in [Procs -> Nat]
  /\ wt \in [Procs -> Nat \cup {-1}]
  /\ waited \in [Procs -> Nat]
  /\ best \in Int /\ chosen \in Procs /\ check \in BOOLEAN /\ t \in Nat
  /\ policy \in {"sjf", "static", "dynamic"}
  /\ phase \in {"sjf", "scan", "run", "end"}
InOrder == \A p, o \in Procs : p < o => arrival_time[p] <= arrival_time[o]

(* What the code remembers of the process that runs: how good it is at the   *)
(* moment, but for the ageing.  This raises the running process, which is the *)
(* best, only when all that are ready are as good and it is the first; then   *)
(* it is better than each of them, and those that come are behind it.         *)
Remembers ==
  IF check
  THEN /\ chosen \in Ready
       /\ \/ best = Key(chosen)
          \/ /\ policy = "dynamic" /\ phase = "scan" /\ best < pri[chosen]
             /\ \A p \in Ready : pri[p] = pri[chosen] => chosen <= p
  ELSE best = Worst

(* Each unit of time since its arrival a process has either run or waited. *)
Accounts ==
  \A p \in Procs :
    IF arrival_time[p] > t THEN rt[p] = burst_time[p] /\ waited[p] = 0
    ELSE rt[p] > 0 => waited[p] = t - arrival_time[p] - (burst_time[p] - rt[p])

(* The inductive invariant. *)
Inv ==
  /\ Typed
  /\ InOrder
  /\ Remembers
  /\ Accounts
  /\ BestRuns

-----------------------------------------------------------------------------
(* The least number principle. *)
LEMMA LeastNatural ==
  ASSUME NEW S \in SUBSET Nat, S # {}
  PROVE  \E n \in S : \A m \in S : n <= m
<1>1. \E p \in S : \A y \in S : ~(<<y, p>> \in OpToRel(<, Nat))
  BY NatLessThanWellFounded, WFMin, Zenon
<1>2. \A p, y \in S : <<y, p>> \in OpToRel(<, Nat) <=> y < p
  BY DEF OpToRel
<1>3. \E p \in S : \A y \in S : ~(y < p)
  BY <1>1, <1>2, Zenon
<1> QED
  BY <1>3

(* Nobody is as bad as INT_MAX or INT_MIN.  The numbers themselves matter to *)
(* no other proof.                                                            *)
LEMMA Extremes == INT_MAX \in Nat /\ INT_MAX > 0 /\ INT_MIN \in Int /\ INT_MIN < 0
BY SMT DEF INT_MAX, INT_MIN

(* p is the first of the best of S. *)
IsFirstOfBest(p, S) ==
  p \in S /\ \A o \in S : Better(Key(p), Key(o)) \/ (Key(p) = Key(o) /\ p <= o)

(* The scan over any set of processes ends with the first of the best, by  *)
(* induction on the end of the table: of the first n processes the best is *)
(* that of the first n - 1, or the last.                                   *)
LEMMA ScanFindsFirstOfBest ==
  ASSUME \A p \in Procs : Key(p) \in Int,
         NEW S \in SUBSET Procs, S # {}
  PROVE  IsFirstOfBest(FirstOfBest(S), S)
<1> USE SjfAssumption DEF Procs
<1> DEFINE Scanned(n) == \A T \in SUBSET (0 .. n - 1) :
                           T # {} /\ T \subseteq Procs => \E p \in T : IsFirstOfBest(p, T)
           Bad == {n \in Nat : ~Scanned(n)}
<1>1. Bad = {}
  <2> SUFFICES ASSUME Bad # {} PROVE FALSE
    OBVIOUS
  <2>1. PICK n \in Bad : \A m \in Bad : n <= m
    <3> HIDE DEF Bad
    <3>1. Bad \in SUBSET Nat
      BY DEF Bad
    <3> QED
      BY <3>1, LeastNatural
  <2>2. PICK T \in SUBSET (0 .. n - 1) :
          T # {} /\ T \subseteq Procs /\ ~\E p \in T : IsFirstOfBest(p, T)
    BY <2>1
  <2>3. n # 0 /\ n \in Nat /\ n - 1 \in Nat /\ Scanned(n - 1)
    <3>1. n # 0 /\ n \in Nat /\ n - 1 \in Nat
      <4>1. n \in Nat
        OBVIOUS
      <4>2. \E m \in 0 .. n - 1 : TRUE
        BY <2>2
      <4> HIDE DEF Bad, Scanned
      <4> QED
        BY <4>1, <4>2
    <3>2. n - 1 \notin Bad
      <4> HIDE DEF Bad
      <4> QED
        BY <2>1, <3>1
    <3> HIDE DEF Scanned
    <3> QED
      BY <3>1, <3>2
  <2> DEFINE U == T \ {n - 1}
  <2>4. U \in SUBSET (0 .. (n - 1) - 1) /\ U \subseteq Procs
    BY <2>2, <2>3
  <2>5. CASE n - 1 \notin T
    BY <2>2, <2>3, <2>4, <2>5
  <2>6. CASE T = {n - 1}
    BY <2>2, <2>6 DEF IsFirstOfBest
  <2>7. CASE n - 1 \in T /\ U # {}
    <3> HIDE DEF U, Bad
    <3>1. PICK b \in U : IsFirstOfBest(b, U)
      BY <2>3, <2>4, <2>7
    <3>2. b < n - 1 /\ b \in T /\ T = U \cup {n - 1}
      BY <2>2, <2>3, <2>4, <2>7 DEF U
    <3>3. /\ Key(b) \in Int /\ Key(n - 1) \in Int
          /\ \A o \in U : Key(o) \in Int
      BY <2>2, <2>4, <2>7, <3>2
    <3> HIDE DEF Scanned
    <3>4. CASE Better(Key(n - 1), Key(b))
      <4>1. \A o \in U : Better(Key(n - 1), Key(o))
        BY <3>1, <3>3, <3>4 DEF IsFirstOfBest, Better
      <4>2. IsFirstOfBest(n - 1, T)
        BY <2>3, <3>2, <4>1 DEF IsFirstOfBest
      <4> QED
        BY <2>2, <2>7, <4>2
    <3>5. CASE ~Better(Key(n - 1), Key(b))
      <4>1. Better(Key(b), Key(n - 1)) \/ Key(b) = Key(n - 1)
        BY <3>3, <3>5 DEF Better
      <4>2. IsFirstOfBest(b, T)
        BY <2>3, <3>1, <3>2, <4>1 DEF IsFirstOfBest
      <4> QED
        BY <2>2, <3>2, <4>2
    <3> QED
      BY <3>4, <3>5
  <2> QED
    BY <2>5, <2>6, <2>7
<1>2. \E p \in S : IsFirstOfBest(p, S)
  <2>1. N \in Nat /\ Scanned(N)
    BY <1>1
  <2> HIDE DEF Bad
  <2> QED
    BY <2>1
<1> HIDE DEF Scanned, Bad
<1> QED
  BY <1>2 DEF IsFirstOfBest, FirstOfBest

(* Nobody's priority falls, and a process that is as good as all the others  *)
(* that are there is raised only if it is the first of them.                 *)
LEMMA AgedProperties ==
  ASSUME Typed, NEW rest
  PROVE  /\ Aged(rest) \in [Procs -> Nat]
         /\ \A p \in Procs : Aged(rest)[p] = pri[p] \/ Aged(rest)[p] = pri[p] + 1
         /\ \A p \in Procs : Aged(rest)[p] # pri[p] =>
              \A o \in Procs : arrival_time[o] <= t /\ rest[o] > 0 /\ o # p =>
                /\ Aged(rest)[o] = pri[o]
                /\ pri[p] < pri[o] \/ (pri[p] = pri[o] /\ p < o)
<1> DEFINE unfinished == {p \in Procs : arrival_time[p] <= t /\ rest[p] > 0}
           lowest(p) == \A o \in unfinished : pri[p] < pri[o] \/ (pri[p] = pri[o] /\ p <= o)
           raised == {p \in unfinished : lowest(p)}
<1>1. Aged(rest) = [p \in Procs |-> IF p \in raised THEN pri[p] + 1 ELSE pri[p]]
  BY DEF Aged, Raise
<1>2. \A p \in Procs : pri[p] \in Nat /\ p \in Int
  BY DEF Typed, Procs
<1>3. \A p \in raised : \A o \in unfinished \ {p} :
        /\ o \notin raised
        /\ pri[p] < pri[o] \/ (pri[p] = pri[o] /\ p < o)
  BY <1>2
<1>4. \A p \in Procs : arrival_time[p] <= t /\ rest[p] > 0 <=> p \in unfinished
  OBVIOUS
<1> HIDE DEF unfinished, raised
<1> QED
  BY <1>1, <1>2, <1>3, <1>4

-----------------------------------------------------------------------------
(* main sorts the table, and has sjf_sched run before anything is chosen. *)
LEMMA InvInit == Init => Inv
<1> SUFFICES ASSUME Init PROVE Inv
  OBVIOUS
<1> USE SjfAssumption, SjfPriorityAssumption, Extremes DEF Init, SjfInit
<1>1. Typed
  <2>1. /\ arrival_time \in [Procs -> Nat] /\ pri \in [Procs -> Nat]
        /\ burst_time \in [Procs -> 1 .. INT_MAX - 1]
    <3>1. Bursts \subseteq 1 .. INT_MAX - 1
      OBVIOUS
    <3>2. Prts \subseteq Nat
      OBVIOUS
    <3> HIDE SjfAssumption, SjfPriorityAssumption
    <3> QED
      BY SjfAssumption, <3>1, <3>2
  <2>2. rt \in [Procs -> 0 .. INT_MAX - 1]
    BY <2>1
  <2>3. wt \in [Procs -> Nat \cup {-1}] /\ waited \in [Procs -> Nat]
    OBVIOUS
  <2>4. best \in Int
    BY DEF Worst
  <2>5. chosen \in Procs /\ check \in BOOLEAN /\ t \in Nat
    <3>1. chosen = 0 /\ check = FALSE /\ t = 0
      OBVIOUS
    <3>2. 0 \in Procs
      BY DEF Procs
    <3> HIDE DEF Init, SjfInit
    <3> QED
      BY <3>1, <3>2
  <2>6. policy \in {"sjf", "static", "dynamic"} /\ phase \in {"sjf", "scan", "run", "end"}
    OBVIOUS
  <2> HIDE DEF Init, SjfInit
  <2> QED
    BY <2>1, <2>2, <2>3, <2>4, <2>5, <2>6 DEF Typed
<1>2. Remembers /\ InOrder
  BY DEF Remembers, InOrder
<1>3. Accounts
  BY <1>1 DEF Accounts, Typed
<1>4. BestRuns
  BY DEF BestRuns
<1> QED
  BY <1>1, <1>2, <1>3, <1>4 DEF Inv

(* sjf_sched leaves the table alone. *)
LEMMA SjfKeeps ==
  ASSUME Inv, RunSjf \/ SjfCrash \/ UNCHANGED vars
  PROVE  Inv'
<1>1. UNCHANGED <<job, rt, pri, best, chosen, check, wt, t, waited>>
  BY DEF RunSjf, SjfCrash, SjfStep, FindAndServe, ServeStale, Serve, job, vars
<1>2. (phase' \in {"scan", "sjf", "end"} /\ phase = "sjf") \/ phase' = phase
  BY DEF RunSjf, SjfCrash, vars
<1>3. Typed'
  BY <1>1, <1>2 DEF Inv, Typed, job
<1>4. Ready' = Ready /\ Worst' = Worst /\ \A p : Key(p)' = Key(p)
  BY <1>1 DEF Ready, Worst, Key, job
<1>5. Remembers'
  BY <1>1, <1>2, <1>4 DEF Inv, Remembers, job
<1>6. BestRuns'
  BY <1>1, <1>2, <1>4 DEF Inv, BestRuns, Better, job
<1> QED
  BY <1>1, <1>3, <1>5, <1>6 DEF Inv, InOrder, Accounts, job

(* After the scan the chosen process is the best of those that are ready, and *)
(* what is remembered is how good it is now.                                  *)
LEMMA ScanStep == Inv /\ Scan => Inv'
<1> SUFFICES ASSUME Inv, Scan PROVE Inv'
  OBVIOUS
<1>1. /\ \A p \in Procs : Key(p) \in Int /\ Better(Key(p), Worst)
      /\ best \in Int /\ Candidates \in SUBSET Procs
  BY Extremes DEF Inv, Typed, Key, Better, Worst, Candidates, Ready
<1>2. /\ phase = "scan" /\ phase' = "run"
      /\ UNCHANGED <<job, sjfVars, rt, pri, wt, t, waited>>
      /\ Ready' = Ready /\ Worst' = Worst /\ \A p : Key(p)' = Key(p)
  BY DEF Scan, Ready, Worst, Key, job
<1>3. CASE Candidates = {}
  <2>1. UNCHANGED <<best, chosen, check>>
    BY <1>3 DEF Scan
  <2>2. \A p \in Ready : ~Better(Key(p), best)
    BY <1>3 DEF Candidates
  <2>3. ~check => Ready = {}
    <3> SUFFICES ASSUME ~check, NEW p \in Ready PROVE FALSE
      OBVIOUS
    <3>1. best = Worst /\ p \in Procs
      BY DEF Inv, Remembers, Ready
    <3> QED
      BY <1>1, <2>2, <3>1
  <2>4. check => chosen \in Ready /\ best = Key(chosen)
    <3> SUFFICES ASSUME check PROVE chosen \in Ready /\ best = Key(chosen)
      OBVIOUS
    <3>1. chosen \in Ready /\ chosen \in Procs
      BY DEF Inv, Remembers, Ready
    <3>2. ~(policy = "dynamic" /\ best < pri[chosen])
      BY <2>2, <3>1 DEF Better, Key
    <3> QED
      BY <3>1, <3>2 DEF Inv, Remembers
  <2>5. Remembers'
    BY <1>2, <2>1, <2>4 DEF Inv, Remembers
  <2>6. BestRuns'
    BY <1>2, <2>1, <2>2, <2>3, <2>4 DEF BestRuns, Better, job
  <2>7. Typed'
    BY <1>2, <2>1 DEF Inv, Typed, job
  <2> QED
    BY <1>2, <2>5, <2>6, <2>7 DEF Inv, InOrder, Accounts, job
<1>4. CASE Candidates # {}
  <2>1. IsFirstOfBest(chosen', Candidates)
    BY <1>1, <1>4, ScanFindsFirstOfBest DEF Scan
  <2>2. best' = Key(chosen') /\ check'
    BY <1>4 DEF Scan
  <2>3. chosen' \in Ready /\ chosen' \in Procs /\ Better(Key(chosen'), best)
    BY <2>1 DEF IsFirstOfBest, Candidates, Ready
  <2>4. \A p \in Ready : ~Better(Key(p), Key(chosen'))
    <3> SUFFICES ASSUME NEW p \in Ready PROVE ~Better(Key(p), Key(chosen'))
      OBVIOUS
    <3>1. Key(p) \in Int /\ Key(chosen') \in Int
      BY <1>1, <2>3 DEF Ready
    <3>2. CASE p \in Candidates
      BY <2>1, <3>1, <3>2 DEF IsFirstOfBest, Better
    <3>3. CASE ~Better(Key(p), best)
      BY <1>1, <2>3, <3>1, <3>3 DEF Better
    <3> QED
      BY <3>2, <3>3 DEF Candidates
  <2>5. Remembers'
    BY <1>2, <2>2, <2>3 DEF Remembers, Key
  <2>6. BestRuns'
    BY <1>2, <2>2, <2>3, <2>4 DEF BestRuns, Better, Key, job
  <2>7. Typed'
    BY <1>1, <1>2, <2>2, <2>3 DEF Inv, Typed, job
  <2> QED
    BY <1>2, <2>5, <2>6, <2>7 DEF Inv, InOrder, Accounts, job
<1> QED
  BY <1>3, <1>4

(* Nobody is there, so that nobody waits. *)
LEMMA RunIdleStep == Inv /\ RunIdle => Inv'
<1> SUFFICES ASSUME Inv, RunIdle PROVE Inv'
  OBVIOUS
<1>1. Ready = {}
  BY DEF Inv, RunIdle, BestRuns
<1>2. Typed'
  BY DEF Inv, Typed, RunIdle, job
<1>3. Remembers'
  BY DEF Inv, Remembers, RunIdle, Worst, job
<1>4. Accounts'
  BY <1>1 DEF Inv, Accounts, Typed, RunIdle, Ready, job
<1> QED
  BY <1>2, <1>3, <1>4 DEF Inv, InOrder, BestRuns, RunIdle, job

(* The chosen process runs for a unit of time, the others wait, and if it is *)
(* not finished it is still the best, or equal to it, of those that were      *)
(* there: what is remembered keeps up with it but for the ageing.             *)
LEMMA RunProcessStep == Inv /\ RunProcess => Inv'
<1> SUFFICES ASSUME Inv, RunProcess PROVE Inv'
  OBVIOUS
<1>1. /\ chosen \in Ready /\ chosen \in Procs /\ best = Key(chosen)
      /\ \A p \in Ready : ~Better(Key(p), Key(chosen))
  BY DEF Inv, RunProcess, Remembers, BestRuns, Ready
<1>2. rt \in [Procs -> Nat] /\ rt[chosen] > 0 /\ t \in Nat /\ pri \in [Procs -> Nat]
  BY <1>1 DEF Inv, Typed, Ready
<1>3. /\ rt' = [rt EXCEPT ![chosen] = rt[chosen] - 1]
      /\ rt'[chosen] = rt[chosen] - 1
      /\ chosen' = chosen /\ t' = t + 1 /\ phase' \in {"scan", "end"}
      /\ check' = (rt'[chosen] # 0)
      /\ UNCHANGED job
  BY <1>2, <1>1 DEF RunProcess
<1>4. /\ pri' \in [Procs -> Nat]
      /\ \A p \in Procs : pri'[p] = pri[p] \/ pri'[p] = pri[p] + 1
      /\ policy # "dynamic" => pri' = pri
      /\ policy = "dynamic" => pri' = Aged(rt')
  BY <1>2, AgedProperties DEF RunProcess, Inv
<1>5. Typed'
  <2>1. rt' \in [Procs -> 0 .. INT_MAX - 1] /\ best' \in Int
    BY <1>1, <1>2, <1>3, Extremes DEF Inv, Typed, RunProcess, Remembered, Worst
  <2>2. wt' \in [Procs -> Nat \cup {-1}] /\ waited' \in [Procs -> Nat]
    <3>1. WaitOf(chosen) \in Int
      BY <1>1, <1>2 DEF WaitOf, Inv, Typed
    <3> QED
      BY <1>1, <3>1 DEF Inv, Typed, RunProcess
  <2> QED
    BY <1>3, <1>4, <2>1, <2>2 DEF Inv, Typed, job
<1>6. Accounts'
  <2>1. ASSUME NEW p \in Procs
        PROVE  IF arrival_time[p] > t + 1 THEN rt'[p] = burst_time[p] /\ waited'[p] = 0
               ELSE rt'[p] > 0 => waited'[p] = t + 1 - arrival_time[p]
                                                 - (burst_time[p] - rt'[p])
    <3>1. /\ arrival_time[p] \in Nat /\ burst_time[p] \in Nat /\ rt[p] \in Nat /\ waited[p] \in Nat
      BY DEF Inv, Typed
    <3>2. IF arrival_time[p] > t THEN rt[p] = burst_time[p] /\ waited[p] = 0
          ELSE rt[p] > 0 => waited[p] = t - arrival_time[p] - (burst_time[p] - rt[p])
      BY DEF Inv, Accounts
    <3>3. CASE p = chosen
      <4>1. waited'[p] = waited[p] /\ rt'[p] = rt[p] - 1 /\ arrival_time[p] <= t
        BY <1>1, <1>3, <3>3 DEF RunProcess, Ready
      <4> QED
        BY <1>2, <3>1, <3>2, <4>1
    <3>4. CASE p # chosen
      <4>1. rt'[p] = rt[p]
            /\ waited'[p] = IF arrival_time[p] <= t /\ rt[p] > 0 THEN waited[p] + 1 ELSE waited[p]
        BY <1>2, <1>3, <3>4 DEF RunProcess, Ready
      <4> QED
        BY <1>2, <3>1, <3>2, <4>1
    <3> QED
      BY <3>3, <3>4
  <2>2. \A p \in Procs : arrival_time[p] \in Nat /\ burst_time[p] \in Nat /\ rt'[p] \in Nat
                           /\ waited'[p] \in Nat
    BY <1>5 DEF Inv, Typed
  <2>3. arrival_time' = arrival_time /\ burst_time' = burst_time /\ t' = t + 1
    BY <1>3 DEF job
  <2> QED
    BY <1>2, <2>1, <2>2, <2>3 DEF Accounts
<1>7. Remembers'
  <2>1. CASE rt'[chosen] = 0
    BY <1>3, <2>1 DEF Remembers, RunProcess, Remembered, Worst, job
  <2>2. CASE rt'[chosen] # 0
    <3>1. phase' = "scan" /\ check' /\ chosen \in Ready'
      <4>1. phase' = "scan"
        BY <1>1, <2>2 DEF RunProcess
      <4>2. arrival_time'[chosen] <= t' /\ rt'[chosen] > 0
        <5>1. arrival_time[chosen] <= t /\ arrival_time[chosen] \in Nat
          BY <1>1 DEF Ready, Inv, Typed
        <5> QED
          BY <1>2, <1>3, <2>2, <5>1 DEF job
      <4> QED
        BY <1>1, <1>3, <2>2, <4>1, <4>2 DEF Ready
    <3>2. CASE policy = "sjf"
      BY <1>3, <2>2, <3>1, <3>2 DEF Remembers, RunProcess, Remembered, Key, job
    <3>3. CASE policy # "sjf" /\ pri'[chosen] = pri[chosen]
      BY <1>1, <1>3, <2>2, <3>1, <3>3 DEF Remembers, RunProcess, Remembered, Key, job
    <3>4. CASE policy # "sjf" /\ pri'[chosen] # pri[chosen]
      <4>1. policy = "dynamic" /\ best' = best /\ best = pri[chosen] /\ best < pri'[chosen]
        <5>1. policy = "dynamic" /\ pri'[chosen] = pri[chosen] + 1
          BY <1>1, <1>4, <3>4
        <5>2. best' = Remembered(rt'[chosen])
          BY DEF RunProcess
        <5>3. best' = best /\ best = pri[chosen]
          BY <1>1, <2>2, <5>1, <5>2 DEF Remembered, Key
        <5> QED
          BY <1>1, <1>2, <5>1, <5>3
      <4>2. \A o \in Procs : arrival_time[o] <= t /\ rt'[o] > 0 /\ o # chosen =>
              pri'[o] = pri[o] /\ pri[chosen] <= pri[o]
        BY <1>1, <1>2, <1>4, <3>4, <4>1, AgedProperties DEF Inv
      <4>3. \A o \in Ready' : pri'[o] = pri'[chosen] => chosen <= o
        <5> SUFFICES ASSUME NEW o \in Ready', pri'[o] = pri'[chosen], o < chosen PROVE FALSE
          BY <1>1 DEF Ready, Procs
        <5>1. o \in Procs /\ arrival_time[o] <= t /\ rt'[o] > 0 /\ o # chosen
          <6>1. arrival_time[o] <= arrival_time[chosen] /\ arrival_time[chosen] <= t
            BY <1>1 DEF Ready, Inv, InOrder
          <6> QED
            BY <1>1, <1>2, <6>1 DEF Ready, Inv, Typed, Procs
        <5>2. o \in Ready
          BY <1>1, <1>2, <1>3, <5>1 DEF Ready
        <5>3. pri[o] <= pri[chosen]
          BY <1>1, <1>2, <4>1, <5>1, <5>2 DEF Better, Key
        <5> QED
          BY <1>2, <4>1, <4>2, <5>1, <5>3, <1>1
      <4> QED
        BY <1>3, <3>1, <4>1, <4>3 DEF Remembers, job
    <3> QED
      BY <3>2, <3>3, <3>4
  <2> QED
    BY <2>1, <2>2
<1>8. InOrder' /\ BestRuns'
  BY <1>3 DEF Inv, InOrder, BestRuns, job
<1> QED
  BY <1>5, <1>6, <1>7, <1>8 DEF Inv

(* Every unit of time keeps the invariant. *)
LEMMA InvStep == Inv /\ [Next]_vars => Inv'
BY SjfKeeps, ScanStep, RunIdleStep, RunProcessStep DEF Next

(* So it always holds. *)
LEMMA Invariant == Spec => []Inv
BY InvInit, InvStep, PTL DEF Spec

-----------------------------------------------------------------------------
(* The best of those that are ready runs, by the remaining times or the        *)
(* priorities of this very moment, although solver, prt_main_func and           *)
(* prt_main_func2 compare with what they remember of an earlier one.             *)
THEOREM TheBestRuns == Spec => []BestRuns
<1>1. Inv => BestRuns
  BY DEF Inv
<1> QED
  BY <1>1, Invariant, PTL

(* A process loses the processor only to one that is strictly better by then,  *)
(* also under the ageing of prt_main_func2, and the free processor goes to the  *)
(* first of the equals.                                                         *)
THEOREM EqualsAreServedInOrder == Spec => FairAmongEquals
<1> DEFINE Fair == /\ check /\ chosen' # chosen => Better(Key(chosen'), Key(chosen))
                   /\ ~check /\ check' => \A p \in Ready : Key(p) = Key(chosen')
                                            => arrival_time[chosen'] <= arrival_time[p]
<1>1. ASSUME Inv, Scan PROVE Fair
  <2>1. /\ \A p \in Procs : Key(p) \in Int /\ Better(Key(p), Worst)
        /\ best \in Int /\ Candidates \in SUBSET Procs
    BY <1>1, Extremes DEF Inv, Typed, Key, Better, Worst, Candidates, Ready
  <2>2. CASE Candidates = {}
    BY <1>1, <2>2 DEF Scan
  <2>3. CASE Candidates # {}
    <3>1. IsFirstOfBest(chosen', Candidates)
      BY <1>1, <2>1, <2>3, ScanFindsFirstOfBest DEF Scan
    <3>2. chosen' \in Candidates /\ chosen' \in Procs /\ Better(Key(chosen'), best)
      BY <3>1 DEF IsFirstOfBest, Candidates, Ready
    <3>3. ASSUME check, chosen' # chosen PROVE Better(Key(chosen'), Key(chosen))
      <4>1. chosen \in Ready /\ chosen \in Procs
        BY <1>1, <3>3 DEF Inv, Remembers, Ready
      <4>2. CASE best = Key(chosen)
        BY <3>2, <4>2
      <4>3. CASE /\ policy = "dynamic" /\ best < pri[chosen]
                 /\ \A p \in Ready : pri[p] = pri[chosen] => chosen <= p
        <5>1. chosen \in Candidates
          BY <4>1, <4>3 DEF Candidates, Better, Key
        <5>2. Better(Key(chosen'), Key(chosen))
              \/ (Key(chosen') = Key(chosen) /\ chosen' <= chosen)
          BY <3>1, <5>1 DEF IsFirstOfBest
        <5>3. Key(chosen') = Key(chosen) => chosen <= chosen'
          BY <3>2, <4>3 DEF Candidates, Key
        <5> QED
          BY <3>2, <3>3, <4>1, <5>2, <5>3 DEF Procs
      <4> QED
        BY <1>1, <3>3, <4>2, <4>3 DEF Inv, Remembers
    <3>4. ASSUME ~check, NEW p \in Ready, Key(p) = Key(chosen')
          PROVE  arrival_time[chosen'] <= arrival_time[p]
      <4>1. p \in Candidates /\ p \in Procs
        BY <1>1, <2>1, <3>4 DEF Inv, Remembers, Candidates, Ready
      <4>2. chosen' <= p
        BY <2>1, <3>1, <3>4, <4>1 DEF IsFirstOfBest, Better
      <4>3. chosen' = p \/ chosen' < p
        BY <3>2, <4>1, <4>2 DEF Procs
      <4> QED
        BY <1>1, <3>2, <4>1, <4>3 DEF Inv, InOrder, Typed
    <3> QED
      BY <3>3, <3>4
  <2> QED
    BY <2>2, <2>3
<1>2. ASSUME ~Scan, [Next]_vars PROVE chosen' = chosen /\ (check' => check)
  BY <1>2 DEF Next, RunSjf, SjfCrash, RunIdle, RunProcess, vars
<1>3. Inv /\ [Next]_vars => [Fair]_vars
  BY <1>1, <1>2
<1> QED
  BY <1>3, Invariant, PTL DEF Spec, FairAmongEquals

(* The simulations are ones of a processor that always works when there is     *)
(* somebody to serve, and report the waiting times that the processes had.      *)
THEOREM AWorkConservingProcessor == Spec => ImplementsUniProcessor
<1>1. Init => Cpu!Init
  BY SjfAssumption DEF Init, SjfInit, Cpu!Init
<1>2. Cpu!Ready = Ready
  BY DEF Cpu!Ready, Ready
<1>3. ASSUME Inv, RunIdle PROVE Cpu!Idle
  BY <1>2, <1>3 DEF Inv, BestRuns, RunIdle, Cpu!Idle, job
<1>4. ASSUME Inv, RunProcess PROVE Cpu!Run(chosen)
  <2>1. /\ chosen \in Ready /\ chosen \in Procs /\ rt[chosen] \in Nat
        /\ rt'[chosen] = rt[chosen] - 1 /\ wt \in [Procs -> Nat \cup {-1}]
    BY <1>4 DEF Inv, Typed, BestRuns, RunProcess
  <2>2. rt[chosen] = 1 => WaitOf(chosen) = waited[chosen] /\ waited[chosen] \in Nat
    <3>1. /\ t \in Nat /\ arrival_time[chosen] \in Nat /\ burst_time[chosen] \in Nat
          /\ waited[chosen] \in Nat /\ arrival_time[chosen] <= t
      BY <1>4, <2>1 DEF Inv, Typed, Ready
    <3>2. rt[chosen] > 0 =>
            waited[chosen] = t - arrival_time[chosen] - (burst_time[chosen] - rt[chosen])
      BY <1>4, <2>1, <3>1 DEF Inv, Accounts
    <3> QED
      BY <3>1, <3>2 DEF WaitOf
  <2>3. wt' = [wt EXCEPT ![chosen] = IF rt[chosen] = 1 THEN waited[chosen] ELSE @]
    <3>1. wt' = [wt EXCEPT ![chosen] = IF rt'[chosen] # 0 THEN @
                                       ELSE IF WaitOf(chosen) < 0 THEN 0 ELSE WaitOf(chosen)]
      BY <1>4 DEF RunProcess
    <3>2. CASE rt[chosen] = 1
      <4>1. ~(rt'[chosen] # 0)
        BY <2>1, <3>2
      <4>2. ~(WaitOf(chosen) < 0) /\ WaitOf(chosen) = waited[chosen]
        BY <2>2, <3>2
      <4> QED
        BY <3>1, <3>2, <4>1, <4>2
    <3>3. CASE rt[chosen] # 1
      BY <2>1, <3>1, <3>3
    <3> QED
      BY <3>2, <3>3
  <2> QED
    BY <1>2, <1>4, <2>1, <2>3 DEF RunProcess, Cpu!Run, job
<1>5. ASSUME RunSjf \/ SjfCrash \/ Scan \/ UNCHANGED vars PROVE UNCHANGED Cpu!vars
  BY <1>5 DEF RunSjf, SjfStep, FindAndServe, ServeStale, Serve, SjfCrash, Scan, vars, Cpu!vars, job
<1>6. Inv /\ [Next]_vars => [Cpu!Next]_(Cpu!vars)
  <2> SUFFICES ASSUME Inv, [Next]_vars PROVE [Cpu!Next]_(Cpu!vars)
    OBVIOUS
  <2>1. CASE RunProcess
    <3>1. chosen \in Procs
      BY DEF Inv, Typed
    <3> QED
      BY <1>4, <2>1, <3>1 DEF Cpu!Next
  <2>2. CASE RunIdle
    BY <1>3, <2>2 DEF Cpu!Next
  <2> QED
    BY <1>5, <2>1, <2>2 DEF Next
<1> QED
  BY <1>1, <1>6, Invariant, PTL DEF Spec, ImplementsUniProcessor, Cpu!Spec

-----------------------------------------------------------------------------
(* Sums.  sjf_sched's table is a matter of the sums of the bursts of those who *)
(* were served before.                                                         *)

(* What holds at the beginning and is kept by each pass holds after n passes. *)
LEMMA Passes ==
  ASSUME NEW n \in Nat, NEW T, 0 \in T, \A k \in 0 .. n - 1 : k \in T => k + 1 \in T
  PROVE  \A k \in 0 .. n : k \in T
<1> DEFINE Bad == {k \in 0 .. n : k \notin T}
<1> SUFFICES ASSUME Bad # {} PROVE FALSE
  OBVIOUS
<1>1. Bad \in SUBSET Nat
  OBVIOUS
<1>2. PICK k \in Bad : \A m \in Bad : k <= m
  <2> HIDE DEF Bad
  <2> QED
    BY <1>1, LeastNatural
<1>3. k \in 0 .. n /\ k \notin T /\ k # 0
  OBVIOUS
<1>4. k - 1 \in 0 .. n - 1 /\ k - 1 + 1 = k /\ ~(k <= k - 1)
  BY <1>3
<1>5. k - 1 \notin Bad
  <2> HIDE DEF Bad
  <2> QED
    BY <1>2, <1>4
<1>6. k - 1 \in T
  BY <1>4, <1>5
<1> QED
  BY <1>3, <1>4, <1>6

(* f holds the sums of d up to the n-th. *)
AreSums(f, d, n) == \A k \in 0 .. n : f[k] = IF k = 0 THEN 0 ELSE f[k - 1] + d[k - 1]
NumbersOf == [Procs -> Nat]

(* There are such sums. *)
LEMMA SumsExist ==
  ASSUME NEW d \in NumbersOf
  PROVE  \E f \in [0 .. N -> Nat] : AreSums(f, d, N)
<1> USE DEF NumbersOf
<1> DEFINE T == {m \in 0 .. N : \E f \in [0 .. m -> Nat] : AreSums(f, d, m)}
<1>0. N \in Nat
  BY SjfAssumption
<1>1. 0 \in T
  <2>1. [k \in 0 .. 0 |-> 0] \in [0 .. 0 -> Nat]
    OBVIOUS
  <2>2. AreSums([k \in 0 .. 0 |-> 0], d, 0)
    BY DEF AreSums
  <2> QED
    BY <1>0, <2>1, <2>2
<1>2. ASSUME NEW m \in 0 .. N - 1, m \in T PROVE m + 1 \in T
  <2>1. PICK f \in [0 .. m -> Nat] : AreSums(f, d, m)
    BY <1>2
  <2> DEFINE g == [k \in 0 .. m + 1 |-> IF k = m + 1 THEN f[m] + d[m] ELSE f[k]]
  <2>2. f[m] + d[m] \in Nat
    <3>1. m \in Procs /\ m \in 0 .. m
      BY <1>0 DEF Procs
    <3> QED
      BY <3>1
  <2>3. g \in [0 .. m + 1 -> Nat]
    <3>1. \A k \in 0 .. m + 1 : k = m + 1 \/ k \in 0 .. m
      OBVIOUS
    <3> QED
      BY <2>2, <3>1
  <2>4. ASSUME NEW k \in 0 .. m + 1 PROVE g[k] = IF k = 0 THEN 0 ELSE g[k - 1] + d[k - 1]
    <3>1. CASE k = m + 1
      <4>1. k - 1 = m /\ g[m] = f[m] /\ g[k] = f[m] + d[m] /\ k # 0
        BY <3>1
      <4> HIDE DEF g
      <4> QED
        BY <3>1, <4>1
    <3>2. CASE k # m + 1
      <4>1. k \in 0 .. m /\ g[k] = f[k] /\ (k # 0 => g[k - 1] = f[k - 1])
        BY <3>2
      <4> HIDE DEF g
      <4> QED
        BY <2>1, <4>1 DEF AreSums
    <3> QED
      BY <3>1, <3>2
  <2>5. AreSums(g, d, m + 1)
    <3> HIDE DEF g
    <3> QED
      BY <2>4 DEF AreSums
  <2>6. m + 1 \in 0 .. N
    BY <1>0
  <2> HIDE DEF g
  <2> QED
    BY <2>3, <2>5, <2>6
<1>3. N \in T
  <2> HIDE DEF T
  <2>1. \A k \in 0 .. N : k \in T
    BY <1>0, <1>1, <1>2, Passes
  <2> QED
    BY <1>0, <2>1
<1> QED
  BY <1>3

(* SumBefore is one of them, whatever the number up to which it is defined. *)
LEMMA SumIsUnique ==
  ASSUME NEW d \in NumbersOf, NEW f \in [0 .. N -> Nat], AreSums(f, d, N), NEW n \in 0 .. N
  PROVE  SumBefore(d, n) = f[n]
<1> DEFINE Value(g, k) == IF k = 0 THEN 0 ELSE g[k - 1] + d[k - 1]
           h == [k \in 0 .. n |-> f[k]]
           sum == CHOOSE g : g = [k \in 0 .. n |-> Value(g, k)]
<1>0. N \in Nat /\ n \in Nat
  BY SjfAssumption
<1>1. ASSUME NEW k \in 0 .. n PROVE h[k] = Value(h, k)
  <2>1. k \in 0 .. N /\ (k # 0 => k - 1 \in 0 .. n) /\ h[k] = f[k]
    BY <1>0
  <2>2. k # 0 => h[k - 1] = f[k - 1]
    BY <2>1
  <2> HIDE DEF h
  <2> QED
    BY <2>1, <2>2 DEF AreSums
<1>2. h = [k \in 0 .. n |-> Value(h, k)]
  <2> HIDE DEF Value
  <2> QED
    BY <1>1
<1>3. sum = [k \in 0 .. n |-> Value(sum, k)]
  <2> HIDE DEF Value, h
  <2> QED
    BY <1>2
<1>4. SumBefore(d, n) = sum[n]
  BY DEF SumBefore
<1> HIDE DEF sum, h
<1> DEFINE T == {k \in 0 .. n : sum[k] = f[k]}
<1>5. 0 \in T
  <2>1. sum[0] = 0 /\ f[0] = 0
    BY <1>0, <1>3 DEF AreSums
  <2> QED
    BY <1>0, <2>1
<1>6. ASSUME NEW k \in 0 .. n - 1, k \in T PROVE k + 1 \in T
  <2>1. k + 1 \in 0 .. n /\ k + 1 \in 0 .. N /\ k + 1 # 0 /\ k + 1 - 1 = k
    BY <1>0
  <2>2. sum[k + 1] = sum[k] + d[k]
    BY <1>3, <2>1
  <2>3. f[k + 1] = f[k] + d[k]
    BY <2>1 DEF AreSums
  <2> QED
    BY <1>6, <2>1, <2>2, <2>3
<1>7. n \in T
  <2> HIDE DEF T
  <2>1. \A k \in 0 .. n : k \in T
    BY <1>0, <1>5, <1>6, Passes
  <2> QED
    BY <1>0, <2>1
<1> QED
  BY <1>4, <1>7

(* How sums are computed. *)
LEMMA Sums ==
  ASSUME NEW d \in NumbersOf
  PROVE  /\ SumBefore(d, 0) = 0
         /\ \A n \in 0 .. N : SumBefore(d, n) \in Nat
         /\ \A n \in 0 .. N - 1 : SumBefore(d, n + 1) = SumBefore(d, n) + d[n]
<1>0. N \in Nat
  BY SjfAssumption
<1>1. PICK f \in [0 .. N -> Nat] : AreSums(f, d, N)
  BY SumsExist
<1>2. \A n \in 0 .. N : SumBefore(d, n) = f[n]
  BY <1>1, SumIsUnique
<1>3. f[0] = 0
  BY <1>0, <1>1 DEF AreSums
<1>4. ASSUME NEW n \in 0 .. N - 1 PROVE SumBefore(d, n + 1) = SumBefore(d, n) + d[n]
  <2>1. n + 1 \in 0 .. N /\ n \in 0 .. N /\ n + 1 # 0 /\ n + 1 - 1 = n
    BY <1>0
  <2>2. f[n + 1] = f[n] + d[n]
    BY <1>1, <2>1 DEF AreSums
  <2> QED
    BY <1>2, <2>1, <2>2
<1> QED
  BY <1>0, <1>2, <1>3, <1>4

(* A sum depends on what is before n only. *)
LEMMA SumsAgree ==
  ASSUME NEW d \in NumbersOf, NEW e \in NumbersOf, NEW n \in 0 .. N,
         \A k \in 0 .. n - 1 : d[k] = e[k]
  PROVE  SumBefore(d, n) = SumBefore(e, n)
<1> DEFINE T == {k \in 0 .. n : SumBefore(d, k) = SumBefore(e, k)}
<1>0. N \in Nat /\ n \in Nat
  BY SjfAssumption
<1>1. 0 \in T
  BY <1>0, Sums
<1>2. ASSUME NEW k \in 0 .. n - 1, k \in T PROVE k + 1 \in T
  <2>1. k \in 0 .. N - 1 /\ k + 1 \in 0 .. n
    BY <1>0
  <2> QED
    BY <1>2, <2>1, Sums
<1>3. \A k \in 0 .. n : k \in T
  <2> HIDE DEF T
  <2> QED
    BY <1>0, <1>1, <1>2, Passes
<1> QED
  BY <1>0, <1>3

(* A sum grows with what is added. *)
LEMMA SumsGrow ==
  ASSUME NEW d \in NumbersOf, NEW n \in 0 .. N
  PROVE  SumBefore(d, n) <= SumBefore(d, N)
<1> DEFINE T == {k \in 0 .. N - n : SumBefore(d, n) <= SumBefore(d, n + k)}
<1>0. N \in Nat /\ n \in Nat /\ N - n \in Nat /\ n + 0 = n /\ n + (N - n) = N
  BY SjfAssumption
<1>1. 0 \in T
  BY <1>0, Sums
<1>2. ASSUME NEW k \in 0 .. (N - n) - 1, k \in T PROVE k + 1 \in T
  <2>1. n + k \in 0 .. N - 1 /\ k + 1 \in 0 .. N - n /\ n + (k + 1) = n + k + 1
        /\ n + k \in 0 .. N /\ n + k + 1 \in 0 .. N
    BY <1>0
  <2>2. SumBefore(d, n + k + 1) = SumBefore(d, n + k) + d[n + k] /\ d[n + k] \in Nat
    BY <2>1, Sums DEF Procs, NumbersOf
  <2>3. SumBefore(d, n) \in Nat /\ SumBefore(d, n + k) \in Nat
    BY <2>1, Sums
  <2> QED
    BY <1>2, <2>1, <2>2, <2>3
<1>3. N - n \in T
  <2> HIDE DEF T
  <2>1. \A k \in 0 .. N - n : k \in T
    BY <1>0, <1>1, <1>2, Passes
  <2> QED
    BY <1>0, <2>1
<1> QED
  BY <1>0, <1>3

(* A number put in one place, where there was 0, is added to the sum of all. *)
LEMMA SumsAdd ==
  ASSUME NEW d \in NumbersOf, NEW q \in Procs, d[q] = 0, NEW b \in Nat
  PROVE  SumBefore([d EXCEPT ![q] = b], N) = SumBefore(d, N) + b
<1> DEFINE e == [d EXCEPT ![q] = b]
           T == {k \in 0 .. N : SumBefore(e, k) = SumBefore(d, k) + IF k <= q THEN 0 ELSE b}
<1>0. N \in Nat /\ q \in 0 .. N - 1 /\ e \in NumbersOf
      /\ e[q] = b /\ \A k \in Procs \ {q} : e[k] = d[k]
  BY SjfAssumption DEF Procs, NumbersOf
<1> HIDE DEF e
<1>1. 0 \in T
  <2>1. SumBefore(e, 0) = 0 /\ SumBefore(d, 0) = 0 /\ 0 <= q
    BY <1>0, Sums
  <2> QED
    BY <1>0, <2>1
<1>2. ASSUME NEW k \in 0 .. N - 1, k \in T PROVE k + 1 \in T
  <2>1. k + 1 \in 0 .. N /\ k \in 0 .. N /\ k \in Procs /\ k \in Int /\ q \in Int
    BY <1>0 DEF Procs
  <2>2. /\ SumBefore(e, k + 1) = SumBefore(e, k) + e[k]
        /\ SumBefore(d, k + 1) = SumBefore(d, k) + d[k]
        /\ SumBefore(d, k) \in Nat /\ d[k] \in Nat
    BY <1>0, <2>1, Sums DEF NumbersOf
  <2>3. CASE k = q
    <3>1. ~(k + 1 <= q) /\ k <= q /\ d[k] = 0 /\ e[k] = b
      BY <1>0, <2>1, <2>3
    <3> QED
      BY <1>2, <2>1, <2>2, <3>1
  <2>4. CASE k # q
    <3>1. (k + 1 <= q <=> k <= q) /\ e[k] = d[k]
      BY <1>0, <2>1, <2>4
    <3> QED
      BY <1>2, <2>1, <2>2, <3>1
  <2> QED
    BY <2>3, <2>4
<1>3. N \in T
  <2> HIDE DEF T
  <2>1. \A k \in 0 .. N : k \in T
    BY <1>0, <1>1, <1>2, Passes
  <2> QED
    BY <1>0, <2>1
<1>4. ~(N <= q)
  BY <1>0
<1> QED
  BY <1>3, <1>4 DEF e

-----------------------------------------------------------------------------
(* The table of sjf_sched, where arrivals leave no gap. *)

BurstsInPlace == [j \in Procs |-> BurstAt(j)]
BurstsServed == [p \in Procs |-> IF p \in Served THEN burst_time[p] ELSE 0]

(* The swaps permute the processes. *)
Permuted ==
  /\ \A j, k \in Procs : order[j] = order[k] => j = k
  /\ \A p \in Procs : \E j \in Procs : order[j] = p

(* A place loses its own process only to one that has been served before it, *)
(* when both had arrived.                                                      *)
Displaced ==
  \A j \in i .. N - 1 :
    order[j] # j => arrival_time[j] <= FreeAt /\ arrival_time[order[j]] <= FreeAt

(* The columns of those that have been served. *)
Columns ==
  \A j \in 0 .. i - 1 :
    /\ finish[order[j]] = arrival_time[0] + SumBefore(BurstsInPlace, j + 1)
    /\ waitCol[order[j]] = finish[order[j]] - arrival_time[order[j]] - burst_time[order[j]]

(* All the time since the first arrival has been used. *)
NeverIdle == FreeAt = arrival_time[0] + SumBefore(BurstsServed, N)

TableTyped ==
  /\ arrival_time \in [Procs -> Nat] /\ burst_time \in [Procs -> Nat \ {0}]
  /\ order \in [Procs -> Procs] /\ i \in 1 .. N
  /\ finish \in [Procs -> Nat] /\ waitCol \in [Procs -> Int]

TableInv ==
  TableTyped /\ InOrder /\ Permuted /\ Displaced /\ Columns /\ NeverIdle

(* The numbers in the invariant are numbers. *)
LEMMA TableNumbers ==
  ASSUME TableTyped
  PROVE  /\ N \in Nat \ {0} /\ Procs = 0 .. N - 1 /\ i \in Nat /\ i - 1 \in Procs
         /\ FreeAt \in Nat /\ Served \subseteq Procs
         /\ BurstsInPlace \in NumbersOf /\ BurstsServed \in NumbersOf /\ burst_time \in NumbersOf
         /\ \A j \in Procs : order[j] \in Procs /\ BurstAt(j) \in Nat /\ BurstsInPlace[j] = BurstAt(j)
<1>1. N \in Nat \ {0} /\ Procs = 0 .. N - 1 /\ i \in Nat /\ i - 1 \in Procs
  BY SjfAssumption DEF TableTyped, Procs
<1>2. FreeAt \in Nat
  BY <1>1 DEF TableTyped, FreeAt
<1>3. \A j \in Procs : order[j] \in Procs /\ BurstAt(j) \in Nat /\ BurstsInPlace[j] = BurstAt(j)
  BY DEF TableTyped, BurstAt, BurstsInPlace
<1>4. \A j \in 0 .. i - 1 : j \in Procs
  BY <1>1 DEF TableTyped
<1>5. Served \subseteq Procs
  BY <1>3, <1>4 DEF Served
<1>6. BurstsInPlace \in NumbersOf /\ BurstsServed \in NumbersOf /\ burst_time \in NumbersOf
  BY <1>3 DEF TableTyped, BurstsInPlace, BurstsServed, NumbersOf
<1> QED
  BY <1>1, <1>2, <1>3, <1>5, <1>6

(* In each round the process in place i has arrived, so that the search finds it *)
(* at least: either it was displaced, or somebody behind it was, or all before   *)
(* it have been served and there is no gap.                                       *)
LEMMA SomebodyIsThere ==
  ASSUME TableInv, NoGap, i < N
  PROVE  i \in Procs /\ ArrivedAt(i)
<1>0. /\ N \in Nat \ {0} /\ Procs = 0 .. N - 1 /\ i \in Nat /\ i - 1 \in Procs /\ FreeAt \in Nat
      /\ Served \subseteq Procs /\ arrival_time \in [Procs -> Nat]
      /\ BurstsServed \in NumbersOf /\ burst_time \in NumbersOf
      /\ i \in 1 .. N
  BY TableNumbers DEF TableInv, TableTyped
<1>1. i \in Procs /\ i \in i .. N - 1 /\ i \in 0 .. N /\ i # 0
  BY <1>0
<1>2. CASE order[i] # i
  BY <1>1, <1>2 DEF TableInv, Displaced, ArrivedAt
<1>3. CASE order[i] = i /\ \E j \in i .. N - 1 : order[j] # j
  <2>1. PICK j \in i .. N - 1 : order[j] # j
    BY <1>3
  <2>2. j \in Procs /\ i < j
    BY <1>0, <1>3, <2>1
  <2>3. arrival_time[j] <= FreeAt /\ arrival_time[i] <= arrival_time[j]
    BY <1>1, <2>1, <2>2 DEF TableInv, Displaced, InOrder
  <2>4. arrival_time[i] \in Nat /\ arrival_time[j] \in Nat
    BY <1>0, <1>1, <2>2
  <2> QED
    BY <1>0, <1>1, <1>3, <2>3, <2>4 DEF ArrivedAt
<1>4. CASE \A j \in i .. N - 1 : order[j] = j
  <2>1. ASSUME NEW q \in 0 .. i - 1 PROVE q \in Served
    <3>1. q \in Procs /\ ~(q \in i .. N - 1)
      BY <1>0
    <3>2. PICK k \in Procs : order[k] = q
      BY <3>1 DEF TableInv, Permuted
    <3>3. k \notin i .. N - 1
      BY <1>4, <3>1, <3>2
    <3>4. k \in 0 .. i - 1
      BY <1>0, <3>3
    <3> QED
      BY <3>2, <3>4 DEF Served
  <2>2. \A q \in 0 .. i - 1 : burst_time[q] = BurstsServed[q]
    BY <1>0, <2>1 DEF BurstsServed
  <2>3. SumBefore(burst_time, i) = SumBefore(BurstsServed, i)
    BY <1>0, <1>1, <2>2, SumsAgree
  <2>4. SumBefore(BurstsServed, i) <= SumBefore(BurstsServed, N)
    BY <1>0, <1>1, SumsGrow
  <2>5. /\ SumBefore(BurstsServed, i) \in Nat /\ SumBefore(BurstsServed, N) \in Nat
        /\ arrival_time[0] \in Nat /\ arrival_time[i] \in Nat
    <3>1. N \in 0 .. N /\ 0 \in Procs
      BY <1>0
    <3> QED
      BY <1>0, <1>1, <3>1, Sums
  <2>6. arrival_time[i] <= arrival_time[0] + SumBefore(burst_time, i)
    BY <1>1 DEF NoGap
  <2>7. FreeAt = arrival_time[0] + SumBefore(BurstsServed, N)
    BY DEF TableInv, NeverIdle
  <2>8. arrival_time[i] <= FreeAt
    BY <2>3, <2>4, <2>5, <2>6, <2>7
  <2> QED
    BY <1>1, <1>4, <2>8 DEF ArrivedAt
<1> QED
  BY <1>1, <1>2, <1>3, <1>4

(* The search leaves one of the shortest of those that it finds. *)
LEMMA SearchFinds ==
  ASSUME TableTyped, Found # {}
  PROVE  /\ LastShortest(Found) \in Found
         /\ \A k \in Found : BurstAt(LastShortest(Found)) <= BurstAt(k)
<1>0. /\ N \in Nat /\ Found \subseteq 0 .. N - 1 /\ \A j \in Found : BurstAt(j) \in Nat /\ j \in Int
  <2>1. N \in Nat /\ i \in Nat /\ Procs = 0 .. N - 1 /\ \A j \in Procs : BurstAt(j) \in Nat
    BY TableNumbers
  <2>2. \A j \in i .. N - 1 : j \in 0 .. N - 1 /\ j \in Int
    BY <2>1
  <2> QED
    BY <2>1, <2>2 DEF Found
<1> DEFINE S == {BurstAt(j) : j \in Found}
<1>1. PICK low \in S : \A b \in S : low <= b
  <2>1. S \in SUBSET Nat /\ S # {}
    BY <1>0
  <2> HIDE DEF S
  <2> QED
    BY <2>1, LeastNatural
<1>2. low \in Nat /\ \A j \in Found : low <= BurstAt(j)
  BY <1>0, <1>1
<1> DEFINE L == {N - 1 - j : j \in {k \in Found : BurstAt(k) = low}}
<1>3. PICK l \in L : \A b \in L : l <= b
  <2>1. L \in SUBSET Nat
    BY <1>0
  <2>2. L # {}
    BY <1>1
  <2> HIDE DEF L
  <2> QED
    BY <2>1, <2>2, LeastNatural
<1>4. PICK last \in Found : BurstAt(last) = low /\ l = N - 1 - last
  OBVIOUS
<1>5. ASSUME NEW k \in Found
      PROVE  BurstAt(last) < BurstAt(k) \/ (BurstAt(last) = BurstAt(k) /\ k <= last)
  <2>1. CASE BurstAt(k) = low
    <3>1. N - 1 - k \in L
      BY <2>1
    <3>2. N - 1 - last <= N - 1 - k
      <4> HIDE DEF L
      <4> QED
        BY <1>3, <1>4, <3>1
    <3>3. k \in Int /\ last \in Int
      BY <1>0
    <3> QED
      BY <1>0, <1>4, <2>1, <3>2, <3>3
  <2>2. CASE BurstAt(k) # low
    BY <1>0, <1>2, <1>4, <2>2
  <2> QED
    BY <2>1, <2>2
<1> DEFINE IsLast(j) == \A k \in Found : BurstAt(j) < BurstAt(k) \/ (BurstAt(j) = BurstAt(k) /\ k <= j)
<1>6. \E j \in Found : IsLast(j)
  BY <1>5
<1>7. LastShortest(Found) = CHOOSE j \in Found : IsLast(j)
  BY DEF LastShortest
<1>8. LastShortest(Found) \in Found /\ IsLast(LastShortest(Found))
  <2> HIDE DEF IsLast
  <2> QED
    BY <1>6, <1>7
<1>9. ASSUME NEW k \in Found PROVE BurstAt(LastShortest(Found)) <= BurstAt(k)
  BY <1>0, <1>8
<1> QED
  BY <1>8, <1>9

(* A round of the loop, under the invariant. *)
LEMMA Round ==
  ASSUME TableInv, NoGap, SjfStep
  PROVE  /\ i < N /\ i' = i + 1 /\ x' \in i .. N - 1 /\ ArrivedAt(x') /\ ArrivedAt(i)
         /\ \A k \in i .. N - 1 : ArrivedAt(k) => BurstAt(x') <= BurstAt(k)
         /\ Serve(x')
<1>0. i < N
  BY DEF SjfStep, FindAndServe, ServeStale
<1>1. i \in Procs /\ ArrivedAt(i)
  BY <1>0, SomebodyIsThere
<1>2. TableTyped /\ N \in Nat /\ i \in Nat /\ \A k \in Procs : BurstAt(k) \in Nat
  BY TableNumbers DEF TableInv
<1>3. i \in Found
  BY <1>0, <1>1, <1>2 DEF Found, Procs
<1>4. x' = LastShortest(Found) /\ Serve(x')
  BY <1>3 DEF SjfStep, FindAndServe, ServeStale
<1>5. x' \in Found /\ \A k \in Found : BurstAt(x') <= BurstAt(k)
  BY <1>2, <1>3, <1>4, SearchFinds
<1>6. ASSUME NEW k \in i .. N - 1, ArrivedAt(k) PROVE BurstAt(x') <= BurstAt(k)
  <2>1. k \in Procs /\ x' \in Procs
    BY <1>2, <1>5 DEF Found, Procs
  <2>2. CASE BurstAt(k) <= BurstAt(i)
    BY <1>5, <1>6, <2>2 DEF Found
  <2>3. CASE ~(BurstAt(k) <= BurstAt(i))
    <3>1. BurstAt(x') <= BurstAt(i)
      BY <1>3, <1>5
    <3>2. BurstAt(x') \in Nat /\ BurstAt(i) \in Nat /\ BurstAt(k) \in Nat
      BY <1>1, <1>2, <2>1
    <3> QED
      BY <2>3, <3>1, <3>2
  <2> QED
    BY <2>2, <2>3
<1> QED
  BY <1>0, <1>1, <1>4, <1>5, <1>6 DEF Found, Serve

LEMMA TableInvInit == Init => TableInv
<1> SUFFICES ASSUME Init PROVE TableInv
  OBVIOUS
<1>0. /\ arrival_time \in [Procs -> Nat] /\ burst_time \in [Procs -> Nat \ {0}]
      /\ order = [j \in Procs |-> j] /\ i = 1 /\ waitCol = [p \in Procs |-> 0]
      /\ finish = [p \in Procs |-> IF p = 0 THEN arrival_time[0] + burst_time[0] ELSE 0]
      /\ N \in Nat \ {0} /\ 0 \in Procs /\ Procs = 0 .. N - 1
      /\ InOrder
  <2>1. N \in Nat \ {0} /\ Procs = 0 .. N - 1 /\ 0 \in Procs
    BY SjfAssumption DEF Procs
  <2>2. arrival_time \in [Procs -> Nat] /\ burst_time \in [Procs -> Nat \ {0}]
    <3>1. arrival_time \in [Procs -> Arrivals] /\ burst_time \in [Procs -> Bursts]
      BY DEF Init, SjfInit
    <3>2. Arrivals \subseteq Nat /\ Bursts \subseteq Nat \ {0}
      BY SjfAssumption
    <3> QED
      BY <3>1, <3>2
  <2>3. InOrder
    BY DEF Init, SjfInit, InOrder
  <2>4. /\ order = [j \in Procs |-> j] /\ i = 1 /\ waitCol = [p \in Procs |-> 0]
        /\ finish = [p \in Procs |-> IF p = 0 THEN arrival_time[0] + burst_time[0] ELSE 0]
    BY DEF Init, SjfInit
  <2> QED
    BY <2>1, <2>2, <2>3, <2>4
<1>1. TableTyped
  BY <1>0 DEF TableTyped
<1>2. Permuted /\ Displaced
  BY <1>0 DEF Permuted, Displaced
<1>3. /\ FreeAt = arrival_time[0] + burst_time[0] /\ order[0] = 0
      /\ finish[0] = arrival_time[0] + burst_time[0] /\ Served = {0} /\ waitCol[0] = 0
  <2>1. 0 .. i - 1 = {0} /\ i - 1 = 0
    BY <1>0
  <2>2. order[0] = 0
    BY <1>0
  <2> QED
    BY <1>0, <2>1, <2>2 DEF FreeAt, Served
<1>4. BurstsInPlace \in NumbersOf /\ BurstsServed \in NumbersOf /\ BurstsInPlace[0] = burst_time[0]
  BY <1>0, <1>1, <1>3, TableNumbers DEF BurstAt
<1>5. Columns
  <2>1. SumBefore(BurstsInPlace, 0 + 1) = burst_time[0]
    <3>1. 0 \in 0 .. N - 1
      BY <1>0
    <3>2. SumBefore(BurstsInPlace, 0) = 0 /\ burst_time[0] \in Nat
      BY <1>0, <1>4, Sums
    <3> QED
      BY <1>4, <3>1, <3>2, Sums
  <2>2. \A j \in 0 .. i - 1 : j = 0
    BY <1>0
  <2>3. finish[0] - arrival_time[0] - burst_time[0] = 0
    <3>1. arrival_time[0] \in Nat /\ burst_time[0] \in Nat
      BY <1>0
    <3> QED
      BY <1>3, <3>1
  <2> QED
    BY <1>3, <2>1, <2>2, <2>3 DEF Columns
<1>6. NeverIdle
  <2> DEFINE none == [p \in Procs |-> 0]
  <2>1. none \in NumbersOf /\ none[0] = 0
    BY <1>0 DEF NumbersOf
  <2>2. BurstsServed = [none EXCEPT ![0] = burst_time[0]]
    BY <1>0, <1>3 DEF BurstsServed
  <2>3. SumBefore(BurstsServed, N) = SumBefore(none, N) + burst_time[0]
    <3>1. burst_time[0] \in Nat
      BY <1>0
    <3> HIDE DEF none
    <3> QED
      BY <1>0, <2>1, <2>2, <3>1, SumsAdd
  <2>4. SumBefore(none, N) = 0
    <3> DEFINE T == {k \in 0 .. N : SumBefore(none, k) = 0}
    <3>1. 0 \in T
      <4> HIDE DEF none
      <4> QED
        BY <1>0, <2>1, Sums
    <3>2. ASSUME NEW k \in 0 .. N - 1, k \in T PROVE k + 1 \in T
      <4>1. k \in Procs /\ none[k] = 0 /\ k + 1 \in 0 .. N
        BY <1>0
      <4> HIDE DEF none
      <4> QED
        BY <2>1, <3>2, <4>1, Sums
    <3>3. N \in T
      <4> HIDE DEF T
      <4>1. \A k \in 0 .. N : k \in T
        BY <1>0, <3>1, <3>2, Passes
      <4> QED
        BY <1>0, <4>1
    <3> QED
      BY <3>3
  <2> HIDE DEF none
  <2>5. burst_time[0] \in Nat
    BY <1>0
  <2> QED
    BY <1>3, <2>3, <2>4, <2>5 DEF NeverIdle
<1> QED
  BY <1>0, <1>1, <1>2, <1>5, <1>6 DEF TableInv

(* Each round keeps it. *)
LEMMA TableInvRound ==
  ASSUME TableInv, NoGap, SjfStep
  PROVE  TableInv'
<1>x. PICK j : j = x'
  OBVIOUS
<1>0. /\ i < N /\ i' = i + 1 /\ j \in i .. N - 1 /\ ArrivedAt(j) /\ ArrivedAt(i) /\ Serve(j)
  BY <1>x, Round
<1>p. PICK p : p = order[j]
  OBVIOUS
<1>n. /\ N \in Nat \ {0} /\ Procs = 0 .. N - 1 /\ i \in Nat /\ i \in 1 .. N /\ FreeAt \in Nat
  BY TableNumbers DEF TableInv
<1>t. /\ arrival_time \in [Procs -> Nat] /\ burst_time \in [Procs -> Nat]
      /\ order \in [Procs -> Procs] /\ finish \in [Procs -> Nat] /\ waitCol \in [Procs -> Int]
  <2>1. TableTyped
    BY DEF TableInv
  <2> QED
    BY <2>1 DEF TableTyped
<1>s. BurstsInPlace \in NumbersOf /\ BurstsServed \in NumbersOf
  BY TableNumbers DEF TableInv
<1>r. i \in Procs /\ j \in Procs /\ 0 \in Procs /\ i' - 1 = i /\ i' \in 1 .. N
  BY <1>0, <1>n
<1>q. p \in Procs /\ burst_time[p] \in Nat /\ arrival_time[p] \in Nat
  BY <1>p, <1>r, <1>t
<1>a. /\ N \in Nat \ {0} /\ Procs = 0 .. N - 1 /\ i \in Nat /\ i \in 1 .. N /\ i < N
      /\ j \in Nat /\ i <= j /\ j <= N - 1
  BY <1>0, <1>n, <1>r
<1>e. i - 1 \in 0 .. i - 1 /\ 0 .. i = (0 .. i - 1) \cup {i}
  BY <1>n
<1>z. i' - 1 = i
  BY <1>r
<1>3. /\ order' = [order EXCEPT ![i] = p, ![j] = order[i]]
      /\ finish' = [finish EXCEPT ![p] = FreeAt + burst_time[p]]
      /\ waitCol' = [waitCol EXCEPT ![p] = finish'[p] - arrival_time[p] - burst_time[p]]
      /\ arrival_time' = arrival_time /\ burst_time' = burst_time
  BY <1>0, <1>p DEF Serve, Swapped
<1>4. /\ order' \in [Procs -> Procs] /\ order'[i] = p /\ (j # i => order'[j] = order[i])
      /\ \A k \in Procs \ {i, j} : order'[k] = order[k]
  BY <1>t, <1>r, <1>q, <1>3, <1>p
<1>5. /\ finish' \in [Procs -> Nat] /\ finish'[p] = FreeAt + burst_time[p]
      /\ \A q \in Procs \ {p} : finish'[q] = finish[q]
  <2>1. FreeAt + burst_time[p] \in Nat
    BY <1>n, <1>q
  <2> QED
    BY <1>t, <1>q, <1>3, <2>1
<1>6. /\ waitCol' \in [Procs -> Int] /\ waitCol'[p] = finish'[p] - arrival_time[p] - burst_time[p]
      /\ \A q \in Procs \ {p} : waitCol'[q] = waitCol[q]
  <2>1. finish'[p] - arrival_time[p] - burst_time[p] \in Int
    BY <1>q, <1>5
  <2> QED
    BY <1>t, <1>q, <1>3, <2>1
<1>7. TableTyped' /\ InOrder'
  <2>1. TableTyped /\ InOrder
    BY DEF TableInv
  <2>2. TableTyped'
    BY <2>1, <1>3, <1>4, <1>5, <1>6, <1>r DEF TableTyped
  <2> QED
    BY <2>1, <2>2, <1>3 DEF InOrder
<1>8. FreeAt' = FreeAt + burst_time[p]
  <2>1. FreeAt' = finish'[order'[i' - 1]]
    BY DEF FreeAt
  <2> QED
    BY <2>1, <1>r, <1>4, <1>5
<1>9. \A k \in 0 .. i - 1 : k \in Procs /\ k # i /\ k # j /\ order'[k] = order[k] /\ order[k] # p
  <2> SUFFICES ASSUME NEW k \in 0 .. i - 1
               PROVE  k \in Procs /\ k # i /\ k # j /\ order'[k] = order[k] /\ order[k] # p
    OBVIOUS
  <2>1. k \in Procs /\ k # i /\ k # j
    BY <1>a
  <2>2. order[k] # p
    BY <1>r, <1>q, <1>p, <2>1 DEF TableInv, Permuted
  <2> QED
    BY <1>4, <2>1, <2>2
<1>10. Served' = Served \cup {p} /\ p \notin Served
  <2>1. 0 .. i' - 1 = (0 .. i - 1) \cup {i}
    BY <1>e, <1>z
  <2>2. \A k \in 0 .. i - 1 : order'[k] = order[k] /\ order[k] # p
    BY <1>9
  <2> QED
    BY <1>4, <2>1, <2>2 DEF Served
<1>11. Permuted'
  <2>1. ASSUME NEW k \in Procs, NEW l \in Procs, order'[k] = order'[l] PROVE k = l
    <3> DEFINE from(m) == IF m = i THEN j ELSE IF m = j THEN i ELSE m
    <3>1. \A m \in Procs : from(m) \in Procs /\ order'[m] = order[from(m)]
      BY <1>r, <1>q, <1>4, <1>p
    <3>2. from(k) = from(l)
      <4>1. order[from(k)] = order[from(l)] /\ from(k) \in Procs /\ from(l) \in Procs
        BY <2>1, <3>1
      <4> HIDE DEF from
      <4> QED
        BY <4>1 DEF TableInv, Permuted
    <3> QED
      BY <3>2
  <2>2. ASSUME NEW q \in Procs PROVE \E k \in Procs : order'[k] = q
    <3>1. PICK l \in Procs : order[l] = q
      BY DEF TableInv, Permuted
    <3>2. CASE l = j
      BY <1>r, <1>q, <1>4, <1>p, <3>1, <3>2
    <3>3. CASE l = i /\ l # j
      BY <1>r, <1>q, <1>4, <3>1, <3>3
    <3>4. CASE l # i /\ l # j
      BY <1>4, <3>1, <3>4
    <3> QED
      BY <3>2, <3>3, <3>4
  <2> QED
    BY <2>1, <2>2 DEF Permuted
<1>12. Displaced'
  <2> SUFFICES ASSUME NEW k \in i + 1 .. N - 1, order'[k] # k
               PROVE  arrival_time[k] <= FreeAt' /\ arrival_time[order'[k]] <= FreeAt'
    BY <1>0, <1>3 DEF Displaced
  <2>0. k \in Procs /\ k # i /\ k \in i .. N - 1 /\ arrival_time[k] \in Nat
    <3>1. k \in Procs /\ k # i /\ k \in i .. N - 1
      BY <1>a
    <3> QED
      BY <3>1, <1>t
  <2>1. \A a \in Nat : a <= FreeAt => a <= FreeAt'
    BY <1>n, <1>q, <1>8
  <2>2. \A q \in Procs : arrival_time[q] \in Nat /\ arrival_time[order[q]] \in Nat
    BY <1>n, <1>t, <1>r
  <2>3. CASE k = j
    <3>1. order'[k] = order[i]
      BY <1>4, <2>0, <2>3
    <3>2. arrival_time[order[i]] <= FreeAt
      BY <1>0 DEF ArrivedAt
    <3>3. arrival_time[k] <= FreeAt
      BY <1>0, <2>0, <2>3 DEF ArrivedAt, TableInv, Displaced
    <3> QED
      BY <1>r, <1>q, <2>0, <2>1, <2>2, <3>1, <3>2, <3>3
  <2>4. CASE k # j
    <3>1. order'[k] = order[k]
      BY <1>4, <2>0, <2>4
    <3>2. arrival_time[k] <= FreeAt /\ arrival_time[order[k]] <= FreeAt
      BY <2>0, <3>1 DEF TableInv, Displaced
    <3> QED
      BY <2>0, <2>1, <2>2, <3>1, <3>2
  <2> QED
    BY <2>3, <2>4
<1>13. BurstsInPlace' \in NumbersOf /\ BurstsInPlace'[i] = burst_time[p]
       /\ \A k \in 0 .. i - 1 : BurstsInPlace'[k] = BurstsInPlace[k]
  <2>1. BurstsInPlace' = [k \in Procs |-> burst_time[order'[k]]]
    BY <1>3 DEF BurstsInPlace, BurstAt
  <2>2. BurstsInPlace = [k \in Procs |-> burst_time[order[k]]]
    BY DEF BurstsInPlace, BurstAt
  <2> QED
    BY <1>n, <1>r, <1>q, <1>t, <1>4, <1>9, <2>1, <2>2 DEF NumbersOf
<1>14. \A n \in 0 .. i : SumBefore(BurstsInPlace', n) = SumBefore(BurstsInPlace, n)
  <2> SUFFICES ASSUME NEW n \in 0 .. i PROVE SumBefore(BurstsInPlace', n) = SumBefore(BurstsInPlace, n)
    OBVIOUS
  <2>1. n \in 0 .. N /\ \A k \in 0 .. n - 1 : k \in 0 .. i - 1
    BY <1>a
  <2> QED
    BY <1>a, <1>s, <1>13, <2>1, SumsAgree
<1>15. Columns'
  <2> SUFFICES ASSUME NEW k \in 0 .. i
               PROVE  /\ finish'[order'[k]] = arrival_time[0] + SumBefore(BurstsInPlace', k + 1)
                      /\ waitCol'[order'[k]] = finish'[order'[k]] - arrival_time[order'[k]]
                                                 - burst_time[order'[k]]
    BY <1>r, <1>q, <1>3 DEF Columns
  <2>1. CASE k = i
    <3>1. /\ finish[order[i - 1]] = arrival_time[0] + SumBefore(BurstsInPlace, i - 1 + 1)
      BY <1>a, <1>e DEF TableInv, Columns
    <3>2. FreeAt = arrival_time[0] + SumBefore(BurstsInPlace, i)
      <4>1. i - 1 + 1 = i
        BY <1>n, <1>t, <1>r
      <4> QED
        BY <3>1, <4>1 DEF FreeAt
    <3>3. SumBefore(BurstsInPlace', i + 1) = SumBefore(BurstsInPlace, i) + burst_time[p]
      <4>1. i \in 0 .. N - 1 /\ i \in 0 .. i
        BY <1>n, <1>r
      <4>2. SumBefore(BurstsInPlace', i + 1) = SumBefore(BurstsInPlace', i) + BurstsInPlace'[i]
        BY <1>13, <4>1, Sums
      <4> QED
        BY <1>13, <1>14, <4>1, <4>2
    <3>4. SumBefore(BurstsInPlace, i) \in Nat /\ arrival_time[0] \in Nat
      <4>1. i \in 0 .. N /\ 0 \in Procs
        BY <1>n, <1>t, <1>r
      <4> QED
        BY <1>t, <1>s, <4>1, Sums
    <3> QED
      BY <1>r, <1>q, <1>4, <1>5, <1>6, <2>1, <3>2, <3>3, <3>4
  <2>2. CASE k # i
    <3>1. k \in 0 .. i - 1 /\ k + 1 \in 0 .. i
      BY <1>n, <1>t, <1>r, <2>2
    <3>2. /\ order'[k] = order[k] /\ order[k] # p /\ order[k] \in Procs
      BY <1>n, <1>t, <1>r, <1>9, <3>1
    <3>3. finish'[order[k]] = finish[order[k]] /\ waitCol'[order[k]] = waitCol[order[k]]
      BY <1>5, <1>6, <3>2
    <3> QED
      BY <1>14, <3>1, <3>2, <3>3 DEF TableInv, Columns
  <2> QED
    BY <2>1, <2>2
<1>16. NeverIdle'
  <2>1. BurstsServed' = [BurstsServed EXCEPT ![p] = burst_time[p]] /\ BurstsServed[p] = 0
    BY <1>r, <1>q, <1>3, <1>10 DEF BurstsServed
  <2>2. SumBefore(BurstsServed', N) = SumBefore(BurstsServed, N) + burst_time[p]
    BY <1>n, <1>q, <1>s, <2>1, SumsAdd
  <2>3. SumBefore(BurstsServed, N) \in Nat /\ arrival_time[0] \in Nat
    <3>1. N \in 0 .. N /\ 0 \in Procs
      BY <1>n, <1>t, <1>r
    <3> QED
      BY <1>t, <1>s, <3>1, Sums
  <2>4. FreeAt = arrival_time[0] + SumBefore(BurstsServed, N)
    BY DEF TableInv, NeverIdle
  <2> QED
    BY <1>r, <1>q, <1>3, <1>8, <2>2, <2>3, <2>4 DEF NeverIdle
<1> QED
  BY <1>7, <1>11, <1>12, <1>15, <1>16 DEF TableInv

(* The preemptive schedulers leave the table alone, and nobody changes whether *)
(* there is a gap.                                                              *)
LEMMA TableInvStep == (NoGap => TableInv) /\ [Next]_vars => (NoGap => TableInv)'
<1> SUFFICES ASSUME NoGap => TableInv, [Next]_vars PROVE (NoGap => TableInv)'
  OBVIOUS
<1>1. arrival_time' = arrival_time /\ burst_time' = burst_time
  BY DEF Next, RunSjf, SjfStep, FindAndServe, ServeStale, Serve, SjfCrash, Scan, RunIdle, RunProcess,
         vars, job
<1>2. NoGap' <=> NoGap
  BY <1>1 DEF NoGap
<1>3. CASE RunSjf
  BY <1>2, <1>3, TableInvRound DEF RunSjf
<1>4. CASE ~RunSjf
  <2>1. UNCHANGED sjfVars
    BY <1>4 DEF Next, SjfCrash, Scan, RunIdle, RunProcess, vars
  <2>2. TableInv' <=> TableInv
    BY <1>1, <2>1 DEF sjfVars, TableInv, TableTyped, InOrder, Permuted, Displaced, Columns, NeverIdle,
                      FreeAt, BurstsInPlace, BurstsServed, BurstAt, Served
  <2> QED
    BY <1>2, <2>2
<1> QED
  BY <1>3, <1>4

LEMMA TableInvariant == Spec => [](NoGap => TableInv)
BY TableInvInit, TableInvStep, PTL DEF Spec

(* Non-preemptive shortest job first serves in each round the shortest of those *)
(* who are there, for any table whose arrivals leave no gap: the value from which *)
(* the search starts hides nobody, and no x of an earlier round is used.           *)
THEOREM TheShortestIsServed == Spec => ShortestFirst
<1> DEFINE Good == NoGap /\ i' = i + 1 =>
                     /\ order'[i] \in ReadyJobs
                     /\ \A p \in ReadyJobs : burst_time[order'[i]] <= burst_time[p]
<1>1. (NoGap => TableInv) /\ [Next]_vars => [Good]_sjfVars
  <2> SUFFICES ASSUME NoGap => TableInv, [Next]_vars, ~UNCHANGED sjfVars, NoGap, i' = i + 1
               PROVE  /\ order'[i] \in ReadyJobs
                      /\ \A p \in ReadyJobs : burst_time[order'[i]] <= burst_time[p]
    BY DEF sjfVars
  <2>1. SjfStep
    BY DEF Next, RunSjf, SjfCrash, Scan, RunIdle, RunProcess, vars
  <2>2. /\ i < N /\ x' \in i .. N - 1 /\ ArrivedAt(x') /\ Serve(x')
        /\ \A k \in i .. N - 1 : ArrivedAt(k) => BurstAt(x') <= BurstAt(k)
    BY <2>1, Round
  <2>3. TableInv /\ N \in Nat /\ i \in Nat /\ i \in 1 .. N /\ Procs = 0 .. N - 1 /\ order \in [Procs -> Procs]
    BY TableNumbers DEF TableInv, TableTyped
  <2>4. order'[i] = order[x'] /\ x' \in Procs /\ order[x'] \in Procs
    <3>1. x' \in Procs /\ i \in Procs
      BY <2>2, <2>3
    <3>2. order' = [order EXCEPT ![i] = order[x'], ![x'] = order[i]]
      BY <2>2 DEF Serve, Swapped
    <3> HIDE DEF Serve
    <3> QED
      BY <2>3, <3>1, <3>2
  <2>5. order[x'] \notin Served
    <3> SUFFICES ASSUME NEW k \in 0 .. i - 1, order[k] = order[x'] PROVE FALSE
      BY DEF Served
    <3>1. k \in Procs /\ k # x'
      BY <2>2, <2>3
    <3> QED
      BY <2>3, <2>4, <3>1 DEF TableInv, Permuted
  <2>6. order'[i] \in ReadyJobs
    BY <2>2, <2>4, <2>5 DEF ReadyJobs, ArrivedAt
  <2>7. ASSUME NEW p \in ReadyJobs PROVE burst_time[order'[i]] <= burst_time[p]
    <3>1. PICK k \in Procs : order[k] = p
      BY <2>3 DEF ReadyJobs, TableInv, Permuted
    <3>2. k \notin 0 .. i - 1
      BY <3>1 DEF ReadyJobs, Served
    <3>3. k \in i .. N - 1 /\ ArrivedAt(k)
      BY <2>3, <3>1, <3>2 DEF ReadyJobs, ArrivedAt
    <3> QED
      BY <2>2, <2>4, <3>1, <3>3 DEF BurstAt
  <2> QED
    BY <2>6, <2>7
<1>2. Spec => [][Good]_sjfVars
  <2> HIDE DEF Good
  <2> QED
    BY <1>1, TableInvariant, PTL DEF Spec
<1> QED
  BY <1>2 DEF ShortestFirst

(* The table that sjf_sched prints is then a true account: it has every process *)
(* once, and the waiting times are the sums of the bursts of those before.       *)
THEOREM TheTableIsTrue == Spec => []TrueTable
<1>1. (NoGap => TableInv) => TrueTable
  <2> SUFFICES ASSUME TableInv, i = N
               PROVE  /\ \A p \in Procs : \E j \in Procs : order[j] = p
                      /\ \A j \in Procs :
                           waitCol[order[j]] = arrival_time[0] - arrival_time[order[j]]
                                               + SumBefore([k \in Procs |-> BurstAt(k)], j)
    BY DEF TrueTable, SjfDone
  <2>1. \A p \in Procs : \E j \in Procs : order[j] = p
    BY DEF TableInv, Permuted
  <2>2. ASSUME NEW j \in Procs
        PROVE  waitCol[order[j]] = arrival_time[0] - arrival_time[order[j]] + SumBefore(BurstsInPlace, j)
    <3>1. /\ N \in Nat /\ j \in 0 .. i - 1 /\ j \in 0 .. N - 1 /\ j \in 0 .. N /\ 0 \in Procs
          /\ BurstsInPlace \in NumbersOf
          /\ order[j] \in Procs /\ BurstsInPlace[j] = BurstAt(j) /\ BurstAt(j) \in Nat
      BY TableNumbers DEF TableInv
    <3>2. /\ finish[order[j]] = arrival_time[0] + SumBefore(BurstsInPlace, j + 1)
          /\ waitCol[order[j]] = finish[order[j]] - arrival_time[order[j]] - burst_time[order[j]]
      BY <3>1 DEF TableInv, Columns
    <3>3. SumBefore(BurstsInPlace, j + 1) = SumBefore(BurstsInPlace, j) + burst_time[order[j]]
      BY <3>1, Sums DEF BurstAt
    <3>4. /\ arrival_time[0] \in Nat /\ arrival_time[order[j]] \in Nat /\ burst_time[order[j]] \in Nat
          /\ SumBefore(BurstsInPlace, j) \in Nat
      BY <3>1, Sums DEF TableInv, TableTyped
    <3> QED
      BY <3>2, <3>3, <3>4
  <2> QED
    BY <2>1, <2>2 DEF BurstsInPlace
<1> QED
  BY <1>1, TableInvariant, PTL
=============================================================================
