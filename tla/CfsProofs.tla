---------------------------- MODULE CfsProofs ----------------------------
(***************************************************************************)
(* Proofs about Cfs, for any number of processes and any times, bursts and  *)
(* nice values.                                                             *)
(***************************************************************************)
EXTENDS Cfs, FiniteSetTheorems, SequenceTheorems, WellFoundedInduction, TLAPS

-----------------------------------------------------------------------------
(* Numbers and loops. *)

(* The least number principle. *)
LEMMA LeastNatural ==
  ASSUME NEW S \in SUBSET Nat, S # {}
  PROVE  \E n \in S : \A m \in S : n <= m
<1>1. \E x \in S : \A y \in S : ~(<<y, x>> \in OpToRel(<, Nat))
  BY NatLessThanWellFounded, WFMin, Zenon
<1>2. \A x, y \in S : <<y, x>> \in OpToRel(<, Nat) <=> y < x
  BY DEF OpToRel
<1>3. \E x \in S : \A y \in S : ~(y < x)
  BY <1>1, <1>2, Zenon
<1> QED
  BY <1>3

(* What holds at the beginning and is kept by each pass holds after n passes. *)
LEMMA Passes ==
  ASSUME NEW n \in Nat, NEW T, 0 \in T, \A k \in 0 .. n - 1 : k \in T => k + 1 \in T
  PROVE  \A k \in 0 .. n : k \in T
<1> DEFINE Bad == {k \in 0 .. n : k \notin T}
<1> SUFFICES ASSUME Bad # {} PROVE FALSE
  OBVIOUS
<1>1. Bad \in SUBSET Nat
  OBVIOUS
<1>2. PICK k \in Bad : \A m \in Bad : k <= m
  <2> HIDE DEF Bad
  <2> QED
    BY <1>1, LeastNatural
<1>3. k \in 0 .. n /\ k \notin T /\ k # 0
  OBVIOUS
<1>4. k - 1 \in 0 .. n - 1 /\ k - 1 + 1 = k /\ ~(k <= k - 1)
  BY <1>3
<1>5. k - 1 \notin Bad
  <2> HIDE DEF Bad
  <2> QED
    BY <1>2, <1>4
<1>6. k - 1 \in T
  BY <1>4, <1>5
<1> QED
  BY <1>3, <1>4, <1>6

(* A loop that begins with base and makes n passes, each of which leads from one *)
(* element of S to another: pass k does body[k].                                 *)
IsLoop(S, base, n, body) == base \in S /\ n \in Nat /\ body \in [1 .. n -> [S -> S]]
AreItsValues(f, S, base, n, body) ==
  f \in [0 .. n -> S] /\ f[0] = base /\ \A k \in 1 .. n : f[k] = body[k][f[k - 1]]

(* There are such values. *)
LEMMA LoopHasValues ==
  ASSUME NEW S, NEW base, NEW n, NEW body, IsLoop(S, base, n, body)
  PROVE  \E f : AreItsValues(f, S, base, n, body)
<1> USE DEF IsLoop
<1> DEFINE Value(f, k) == IF k = 0 THEN base ELSE body[k][f[k - 1]]
           T == {m \in Nat : \E f \in [0 .. m -> S] : \A k \in 0 .. m : f[k] = Value(f, k)}
<1>1. 0 \in T
  <2>1. [k \in 0 .. 0 |-> base] \in [0 .. 0 -> S]
    OBVIOUS
  <2>2. \A k \in 0 .. 0 : [j \in 0 .. 0 |-> base][k] = Value([j \in 0 .. 0 |-> base], k)
    OBVIOUS
  <2> QED
    BY <2>1, <2>2
<1>2. ASSUME NEW m \in 0 .. n - 1, m \in T PROVE m + 1 \in T
  <2>1. PICK f \in [0 .. m -> S] : \A k \in 0 .. m : f[k] = Value(f, k)
    BY <1>2
  <2> DEFINE g == [k \in 0 .. m + 1 |-> IF k = m + 1 THEN body[m + 1][f[m]] ELSE f[k]]
  <2>2. body[m + 1][f[m]] \in S
    OBVIOUS
  <2>3. g \in [0 .. m + 1 -> S]
    <3>1. \A k \in 0 .. m + 1 : k = m + 1 \/ k \in 0 .. m
      OBVIOUS
    <3> QED
      BY <2>2, <3>1
  <2>4. ASSUME NEW k \in 0 .. m + 1 PROVE g[k] = Value(g, k)
    <3>1. CASE k = m + 1
      <4>1. k - 1 = m /\ g[m] = f[m] /\ g[k] = body[m + 1][f[m]] /\ k # 0
        BY <3>1
      <4> HIDE DEF g
      <4> QED
        BY <3>1, <4>1
    <3>2. CASE k # m + 1
      <4>1. k \in 0 .. m /\ g[k] = f[k] /\ (k # 0 => g[k - 1] = f[k - 1])
        BY <3>2
      <4> HIDE DEF g
      <4> QED
        BY <2>1, <4>1
    <3> QED
      BY <3>1, <3>2
  <2>5. m + 1 \in Nat
    OBVIOUS
  <2> HIDE DEF g, Value
  <2> QED
    BY <2>3, <2>4, <2>5
<1>3. n \in T
  <2> HIDE DEF T
  <2>1. \A k \in 0 .. n : k \in T
    BY <1>1, <1>2, Passes
  <2> QED
    BY <2>1
<1>4. PICK f \in [0 .. n -> S] : \A k \in 0 .. n : f[k] = Value(f, k)
  BY <1>3
<1>5. f[0] = base
  BY <1>4
<1>6. \A k \in 1 .. n : f[k] = body[k][f[k - 1]]
  BY <1>4
<1> QED
  BY <1>5, <1>6 DEF AreItsValues

-----------------------------------------------------------------------------
(* Trees. *)

Elems(t) == {t[i] : i \in 1 .. Len(t)}
IsTree(t, key) ==
  /\ t \in Seq(Procs)
  /\ \A i, j \in 1 .. Len(t) : i < j => key[t[i]] <= key[t[j]] /\ t[i] # t[j]

(* The places of a tree hold processes. *)
LEMMA TreeTyped ==
  ASSUME NEW t, NEW key, IsTree(t, key)
  PROVE  /\ Len(t) \in Nat /\ DOMAIN t = 1 .. Len(t) /\ Elems(t) \subseteq Procs
         /\ \A i \in 1 .. Len(t) : t[i] \in Procs
  BY LenProperties, ElementOfSeq DEF IsTree, Elems

(* A tree with p in its place: those before it are those whose key is not above. *)
LEMMA PlaceInTree ==
  ASSUME NEW t, NEW key \in [Procs -> Nat], IsTree(t, key), NEW p \in Procs
  PROVE  \E m \in 0 .. Len(t) :
           /\ {i \in DOMAIN t : key[t[i]] <= key[p]} = 1 .. m
           /\ Cardinality({i \in DOMAIN t : key[t[i]] <= key[p]}) = m
<1> DEFINE B == {i \in 1 .. Len(t) : ~(key[t[i]] <= key[p])}
<1>0. /\ Len(t) \in Nat /\ DOMAIN t = 1 .. Len(t) /\ key[p] \in Nat
      /\ \A i \in 1 .. Len(t) : t[i] \in Procs /\ key[t[i]] \in Nat
  BY TreeTyped
<1>1. \E m \in 0 .. Len(t) : {i \in DOMAIN t : key[t[i]] <= key[p]} = 1 .. m
  <2>1. CASE B = {}
    <3>1. {i \in DOMAIN t : key[t[i]] <= key[p]} = 1 .. Len(t)
      BY <1>0, <2>1
    <3> QED
      BY <1>0, <3>1
  <2>2. CASE B # {}
    <3>1. B \in SUBSET Nat
      BY <1>0
    <3>2. PICK n \in B : \A o \in B : n <= o
      <4> HIDE DEF B
      <4> QED
        BY <2>2, <3>1, LeastNatural
    <3>3. n \in 1 .. Len(t) /\ ~(key[t[n]] <= key[p])
      OBVIOUS
    <3>4. ASSUME NEW i \in 1 .. Len(t), i < n PROVE key[t[i]] <= key[p]
      <4>1. i \notin B
        <5> HIDE DEF B
        <5> QED
          BY <1>0, <3>2, <3>3, <3>4
      <4> QED
        BY <4>1
    <3>5. ASSUME NEW i \in 1 .. Len(t), n < i PROVE ~(key[t[i]] <= key[p])
      <4>1. key[t[n]] <= key[t[i]]
        BY <3>3, <3>5 DEF IsTree
      <4>2. key[t[n]] \in Nat /\ key[t[i]] \in Nat /\ key[p] \in Nat
        BY <1>0, <3>3
      <4> QED
        BY <3>3, <4>1, <4>2
    <3>6. \A i \in 1 .. Len(t) : key[t[i]] <= key[p] <=> i <= n - 1
      <4> SUFFICES ASSUME NEW i \in 1 .. Len(t) PROVE key[t[i]] <= key[p] <=> i <= n - 1
        OBVIOUS
      <4>1. CASE i < n
        BY <1>0, <3>3, <3>4, <4>1
      <4>2. CASE i = n
        BY <1>0, <3>3, <4>2
      <4>3. CASE n < i
        BY <1>0, <3>3, <3>5, <4>3
      <4> QED
        BY <1>0, <3>3, <4>1, <4>2, <4>3
    <3>7. {i \in DOMAIN t : key[t[i]] <= key[p]} = 1 .. n - 1
      BY <1>0, <3>3, <3>6
    <3>8. n - 1 \in 0 .. Len(t)
      BY <1>0, <3>3
    <3> QED
      BY <3>7, <3>8
  <2> QED
    BY <2>1, <2>2
<1>2. \A m \in 0 .. Len(t) : Cardinality(1 .. m) = m
  <2>1. \A m \in 0 .. Len(t) : Cardinality(1 .. m) = IF 1 > m THEN 0 ELSE m - 1 + 1
    BY <1>0, FS_Interval
  <2> QED
    BY <1>0, <2>1
<1> QED
  BY <1>1, <1>2

(* How the library writes an insertion. *)
LEMMA InsertionIsTwoConcatenations ==
  ASSUME NEW t, NEW i, NEW p
  PROVE  InsertAt(t, i, p) = (SubSeq(t, 1, i - 1) \o <<p>>) \o SubSeq(t, i, Len(t))
  BY Zenon DEF InsertAt

(* r is t with p after the first m elements. *)
IsInsertion(r, S, t, m, p) ==
  /\ r \in Seq(S) /\ Len(r) = Len(t) + 1
  /\ \A i \in 1 .. Len(t) + 1 : r[i] = IF i <= m THEN t[i] ELSE IF i = m + 1 THEN p ELSE t[i - 1]

(* InsertAt does that. *)
LEMMA InsertedAt ==
  ASSUME NEW S, NEW t \in Seq(S), NEW m \in 0 .. Len(t), NEW p \in S, NEW k, k = m + 1
  PROVE  IsInsertion(InsertAt(t, k, p), S, t, m, p)
<1> DEFINE a == SubSeq(t, 1, k - 1)
           b == SubSeq(t, k, Len(t))
           c == a \o <<p>>
           r == c \o b
<1>0. /\ Len(t) \in Nat /\ m \in Nat /\ m <= Len(t) /\ k \in Nat /\ k = m + 1
      /\ \A i \in 1 .. Len(t) : t[i] \in S
  BY LenProperties, ElementOfSeq
<1>1. a \in Seq(S) /\ Len(a) = m /\ \A i \in 1 .. m : a[i] = t[i]
  <2>1. 1 \in Int /\ k - 1 \in Int /\ \A i \in 1 .. k - 1 : t[i] \in S
    BY <1>0
  <2>2. /\ a \in Seq(S) /\ Len(a) = IF 1 <= k - 1 THEN k - 1 - 1 + 1 ELSE 0
        /\ \A i \in 1 .. k - 1 - 1 + 1 : a[i] = t[1 + i - 1]
    BY <2>1, SubSeqProperties
  <2> HIDE DEF a
  <2>3. \A i \in 1 .. m : i \in 1 .. k - 1 - 1 + 1 /\ 1 + i - 1 = i
    BY <1>0
  <2> QED
    BY <1>0, <2>2, <2>3
<1>2. b \in Seq(S) /\ Len(b) = Len(t) - m /\ \A i \in 1 .. Len(t) - m : b[i] = t[m + i]
  <2>1. k \in Int /\ Len(t) \in Int /\ \A i \in k .. Len(t) : t[i] \in S
    BY <1>0
  <2>2. /\ b \in Seq(S) /\ Len(b) = IF k <= Len(t) THEN Len(t) - k + 1 ELSE 0
        /\ \A i \in 1 .. Len(t) - k + 1 : b[i] = t[k + i - 1]
    BY <2>1, SubSeqProperties
  <2> HIDE DEF b
  <2>3. \A i \in 1 .. Len(t) - m : i \in 1 .. Len(t) - k + 1 /\ k + i - 1 = m + i
    BY <1>0
  <2>4. Len(b) = Len(t) - m
    BY <1>0, <2>2
  <2> QED
    BY <2>2, <2>3, <2>4
<1>3. c \in Seq(S) /\ Len(c) = m + 1 /\ \A i \in 1 .. m + 1 : c[i] = IF i <= m THEN t[i] ELSE p
  <2>1. <<p>> \in Seq(S) /\ Len(<<p>>) = 1 /\ <<p>>[1] = p
    OBVIOUS
  <2>2. /\ c \in Seq(S) /\ Len(c) = Len(a) + Len(<<p>>)
        /\ \A i \in 1 .. Len(a) + Len(<<p>>) : c[i] = IF i <= Len(a) THEN a[i] ELSE <<p>>[i - Len(a)]
    BY <1>1, <2>1, ConcatProperties
  <2> HIDE DEF a, c
  <2>3. Len(c) = m + 1
    BY <1>0, <1>1, <2>1, <2>2
  <2>4. ASSUME NEW i \in 1 .. m + 1 PROVE c[i] = IF i <= m THEN t[i] ELSE p
    <3>1. CASE i <= m
      <4>1. i \in 1 .. m /\ i \in 1 .. Len(a) + Len(<<p>>) /\ i <= Len(a)
        BY <1>0, <1>1, <2>1, <3>1
      <4> QED
        BY <1>1, <2>2, <3>1, <4>1
    <3>2. CASE ~(i <= m)
      <4>1. i \in 1 .. Len(a) + Len(<<p>>) /\ ~(i <= Len(a)) /\ i - Len(a) = 1
        BY <1>0, <1>1, <2>1, <3>2
      <4> QED
        BY <2>1, <2>2, <3>2, <4>1
    <3> QED
      BY <3>1, <3>2
  <2> QED
    BY <2>2, <2>3, <2>4
<1>4. /\ r \in Seq(S) /\ Len(r) = Len(c) + Len(b)
      /\ \A i \in 1 .. Len(c) + Len(b) : r[i] = IF i <= Len(c) THEN c[i] ELSE b[i - Len(c)]
  <2> HIDE DEF b, c
  <2> QED
    BY <1>2, <1>3, ConcatProperties
<1>5. InsertAt(t, k, p) = r
  BY InsertionIsTwoConcatenations, Zenon
<1> HIDE DEF a, b, c, r
<1>6. Len(r) = Len(t) + 1
  BY <1>0, <1>2, <1>3, <1>4
<1>7. ASSUME NEW i \in 1 .. Len(t) + 1
      PROVE  r[i] = IF i <= m THEN t[i] ELSE IF i = m + 1 THEN p ELSE t[i - 1]
  <2>1. i \in 1 .. Len(c) + Len(b)
    BY <1>0, <1>2, <1>3
  <2>2. CASE i <= m + 1
    <3>1. i \in 1 .. m + 1 /\ i <= Len(c)
      BY <1>0, <1>3, <2>2
    <3>2. ~(i <= m) => i = m + 1
      BY <1>0, <2>2
    <3> QED
      BY <1>3, <1>4, <2>1, <3>1, <3>2
  <2>3. CASE ~(i <= m + 1)
    <3>1. /\ ~(i <= Len(c)) /\ i - Len(c) \in 1 .. Len(t) - m /\ m + (i - Len(c)) = i - 1
          /\ ~(i <= m) /\ i # m + 1
      BY <1>0, <1>3, <2>3
    <3> QED
      BY <1>2, <1>4, <2>1, <3>1
  <2> QED
    BY <2>2, <2>3
<1> QED
  BY <1>4, <1>5, <1>6, <1>7 DEF IsInsertion

(* multimap::insert keeps the tree in order. *)
LEMMA InsertFacts ==
  ASSUME NEW t, NEW key \in [Procs -> Nat], IsTree(t, key), NEW p \in Procs, p \notin Elems(t)
  PROVE  /\ IsTree(InsertByVrt(t, key, p), key)
         /\ Elems(InsertByVrt(t, key, p)) = Elems(t) \cup {p}
         /\ InsertByVrt(t, key, p) # <<>>
<1> DEFINE r == InsertByVrt(t, key, p)
<1>0. /\ Len(t) \in Nat /\ t \in Seq(Procs)
      /\ \A i \in 1 .. Len(t) : t[i] \in Procs /\ key[t[i]] \in Nat /\ t[i] # p
  BY TreeTyped DEF IsTree, Elems
<1>1. PICK m \in 0 .. Len(t) :
        /\ {i \in DOMAIN t : key[t[i]] <= key[p]} = 1 .. m
        /\ Cardinality({i \in DOMAIN t : key[t[i]] <= key[p]}) = m
  BY PlaceInTree
<1> DEFINE next == Cardinality({i \in DOMAIN t : key[t[i]] <= key[p]}) + 1
<1>2. r = InsertAt(t, next, p) /\ next = m + 1
  BY <1>1 DEF InsertByVrt
<1>3. /\ r \in Seq(Procs) /\ Len(r) = Len(t) + 1
      /\ \A i \in 1 .. Len(t) + 1 : r[i] = IF i <= m THEN t[i] ELSE IF i = m + 1 THEN p ELSE t[i - 1]
  <2>1. IsInsertion(InsertAt(t, next, p), Procs, t, m, p)
    <3> HIDE DEF next
    <3> QED
      BY <1>0, <1>2, InsertedAt, Zenon
  <2> QED
    BY <1>2, <2>1 DEF IsInsertion
<1> HIDE DEF r
<1>4. \A i \in 1 .. Len(t) : IF i <= m THEN key[t[i]] <= key[p] ELSE ~(key[t[i]] <= key[p])
  <2>1. DOMAIN t = 1 .. Len(t)
    BY TreeTyped
  <2> QED
    BY <1>0, <1>1, <2>1
<1>5. ASSUME NEW i \in 1 .. Len(t) + 1, NEW j \in 1 .. Len(t) + 1, i < j
      PROVE  key[r[i]] <= key[r[j]] /\ r[i] # r[j]
  <2>1. \A k, l \in 1 .. Len(t) : k < l => key[t[k]] <= key[t[l]] /\ t[k] # t[l]
    BY DEF IsTree
  <2>2. CASE j <= m
    <3>1. i \in 1 .. Len(t) /\ j \in 1 .. Len(t) /\ i <= m
      BY <1>0, <1>5, <2>2
    <3>2. r[i] = t[i] /\ r[j] = t[j]
      BY <1>3, <2>2, <3>1
    <3> QED
      BY <1>5, <2>1, <3>1, <3>2
  <2>3. CASE j = m + 1
    <3>1. i \in 1 .. Len(t) /\ i <= m /\ ~(j <= m)
      BY <1>0, <1>5, <2>3
    <3>2. r[i] = t[i] /\ r[j] = p
      BY <1>3, <2>3, <3>1
    <3> QED
      BY <1>0, <1>4, <3>1, <3>2
  <2>4. CASE m + 1 < j /\ i <= m
    <3>1. i \in 1 .. Len(t) /\ j - 1 \in 1 .. Len(t) /\ i < j - 1 /\ ~(j <= m) /\ j # m + 1
      BY <1>0, <1>5, <2>4
    <3>2. r[i] = t[i] /\ r[j] = t[j - 1]
      BY <1>3, <2>4, <3>1
    <3> QED
      BY <2>1, <3>1, <3>2
  <2>5. CASE m + 1 < j /\ i = m + 1
    <3>1. j - 1 \in 1 .. Len(t) /\ ~(j - 1 <= m) /\ ~(i <= m) /\ ~(j <= m) /\ j # m + 1
      BY <1>0, <1>5, <2>5
    <3>2. r[i] = p /\ r[j] = t[j - 1]
      BY <1>3, <2>5, <3>1
    <3>3. ~(key[t[j - 1]] <= key[p]) /\ key[t[j - 1]] \in Nat /\ key[p] \in Nat /\ t[j - 1] # p
      BY <1>0, <1>4, <3>1
    <3> QED
      BY <3>2, <3>3
  <2>6. CASE m + 1 < j /\ m + 1 < i
    <3>1. /\ i - 1 \in 1 .. Len(t) /\ j - 1 \in 1 .. Len(t) /\ i - 1 < j - 1
          /\ ~(i <= m) /\ i # m + 1 /\ ~(j <= m) /\ j # m + 1
      BY <1>0, <1>5, <2>6
    <3>2. r[i] = t[i - 1] /\ r[j] = t[j - 1]
      BY <1>3, <3>1
    <3> QED
      BY <2>1, <3>1, <3>2
  <2> QED
    BY <1>0, <2>2, <2>3, <2>4, <2>5, <2>6
<1>6. IsTree(r, key)
  BY <1>3, <1>5 DEF IsTree
<1>7. Elems(r) = Elems(t) \cup {p}
  <2>1. \A i \in 1 .. Len(t) + 1 : r[i] \in Elems(t) \cup {p}
    <3> SUFFICES ASSUME NEW i \in 1 .. Len(t) + 1 PROVE r[i] \in Elems(t) \cup {p}
      OBVIOUS
    <3>1. (i <= m => i \in 1 .. Len(t)) /\ (~(i <= m) /\ i # m + 1 => i - 1 \in 1 .. Len(t))
      BY <1>0
    <3> QED
      BY <1>3, <3>1 DEF Elems
  <2>2. m + 1 \in 1 .. Len(r) /\ r[m + 1] = p
    BY <1>0, <1>3
  <2>3. ASSUME NEW i \in 1 .. Len(t) PROVE t[i] \in Elems(r)
    <3>1. CASE i <= m
      <4>1. i \in 1 .. Len(r) /\ r[i] = t[i]
        BY <1>0, <1>3, <3>1
      <4> QED
        BY <4>1 DEF Elems
    <3>2. CASE ~(i <= m)
      <4>1. i + 1 \in 1 .. Len(t) + 1 /\ ~(i + 1 <= m) /\ i + 1 # m + 1 /\ i + 1 - 1 = i
        BY <1>0, <3>2
      <4>2. r[i + 1] = t[i] /\ i + 1 \in 1 .. Len(r)
        BY <1>3, <4>1
      <4> QED
        BY <4>2 DEF Elems
    <3> QED
      BY <3>1, <3>2
  <2>4. p \in Elems(r)
    BY <2>2 DEF Elems
  <2>5. \A x \in Elems(r) : x \in Elems(t) \cup {p}
    BY <1>3, <2>1 DEF Elems
  <2>6. \A x \in Elems(t) : x \in Elems(r)
    BY <2>3 DEF Elems
  <2> QED
    BY <2>4, <2>5, <2>6
<1>8. r # <<>>
  <2>1. Len(<<>>) = 0
    OBVIOUS
  <2> QED
    BY <1>0, <1>3, <2>1
<1> QED
  BY <1>6, <1>7, <1>8 DEF r

(* Taking the process out leaves the others in order. *)
LEMMA RemoveFacts ==
  ASSUME NEW t, NEW key, IsTree(t, key), NEW p \in Elems(t)
  PROVE  /\ IsTree(RemoveFirst(t, p), key)
         /\ Elems(RemoveFirst(t, p)) = Elems(t) \ {p}
<1>0. /\ t \in Seq(Procs) /\ Len(t) \in Nat /\ \A i \in 1 .. Len(t) : t[i] \in Procs
      /\ \A i, j \in 1 .. Len(t) : t[i] = t[j] => i = j
      /\ \A i, j \in 1 .. Len(t) : i < j => key[t[i]] <= key[t[j]]
  <2>1. /\ t \in Seq(Procs) /\ Len(t) \in Nat /\ \A i \in 1 .. Len(t) : t[i] \in Procs
        /\ \A i, j \in 1 .. Len(t) : i < j => key[t[i]] <= key[t[j]] /\ t[i] # t[j]
    BY TreeTyped DEF IsTree
  <2>2. ASSUME NEW i \in 1 .. Len(t), NEW j \in 1 .. Len(t), t[i] = t[j] PROVE i = j
    <3>1. ~(i < j) /\ ~(j < i)
      BY <2>1, <2>2
    <3> QED
      BY <2>1, <3>1
  <2> QED
    BY <2>1, <2>2
<1>1. \E i \in 1 .. Len(t) : t[i] = p
  BY DEF Elems
<1>2. \E k \in 1 .. Len(t) :
        /\ t[k] = p
        /\ RemoveFirst(t, p) \in Seq(Procs) /\ Len(RemoveFirst(t, p)) = Len(t) - 1
        /\ \A i \in 1 .. Len(t) - 1 : RemoveFirst(t, p)[i] = IF i < k THEN t[i] ELSE t[i + 1]
  <2>1. PICK k \in 1 .. Len(t) : t[k] = p
    BY <1>1
  <2>2. {i \in 1 .. Len(t) : t[i] = p} = {k}
    BY <2>1, <1>0
  <2>3. SelectInSeq(t, LAMBDA v : v = p) = k
    <3>1. Min({k}) = k
      BY <1>0 DEF Min
    <3> QED
      BY <2>2, <3>1 DEF SelectInSeq
  <2>4. RemoveFirst(t, p) = RemoveAt(t, k)
    BY <1>1, <2>3 DEF RemoveFirst
  <2> DEFINE a == SubSeq(t, 1, k - 1)
             b == SubSeq(t, k + 1, Len(t))
             r == a \o b
  <2>5. /\ a \in Seq(Procs) /\ Len(a) = k - 1
        /\ \A i \in 1 .. k - 1 : a[i] = t[i]
    <3>1. k - 1 \in Int /\ 1 \in Int /\ \A i \in 1 .. k - 1 : t[i] \in Procs
      BY <1>0
    <3>2. /\ a \in Seq(Procs) /\ Len(a) = IF 1 <= k - 1 THEN (k - 1) - 1 + 1 ELSE 0
          /\ \A i \in 1 .. (k - 1) - 1 + 1 : a[i] = t[1 + i - 1]
      BY <3>1, SubSeqProperties
    <3> HIDE DEF a
    <3>3. Len(a) = k - 1
      BY <1>0, <3>2
    <3>4. \A i \in 1 .. k - 1 : a[i] = t[i]
      BY <1>0, <3>2
    <3> QED
      BY <3>2, <3>3, <3>4
  <2>6. /\ b \in Seq(Procs) /\ Len(b) = Len(t) - k
        /\ \A i \in 1 .. Len(t) - k : b[i] = t[k + i]
    <3>1. k + 1 \in Int /\ Len(t) \in Int /\ \A i \in k + 1 .. Len(t) : t[i] \in Procs
      BY <1>0
    <3>2. /\ b \in Seq(Procs) /\ Len(b) = IF k + 1 <= Len(t) THEN Len(t) - (k + 1) + 1 ELSE 0
          /\ \A i \in 1 .. Len(t) - (k + 1) + 1 : b[i] = t[k + 1 + i - 1]
      BY <3>1, SubSeqProperties
    <3> HIDE DEF b
    <3>3. Len(b) = Len(t) - k
      BY <1>0, <3>2
    <3>4. \A i \in 1 .. Len(t) - k : b[i] = t[k + i]
      <4>1. \A i \in 1 .. Len(t) - k : i \in 1 .. Len(t) - (k + 1) + 1 /\ k + 1 + i - 1 = k + i
        BY <1>0
      <4> QED
        BY <3>2, <4>1
    <3> QED
      BY <3>2, <3>3, <3>4
  <2>7. /\ r \in Seq(Procs) /\ Len(r) = Len(t) - 1
        /\ \A i \in 1 .. Len(t) - 1 : r[i] = IF i < k THEN t[i] ELSE t[i + 1]
    <3>1. /\ r \in Seq(Procs) /\ Len(r) = Len(a) + Len(b)
          /\ \A i \in 1 .. Len(a) + Len(b) : r[i] = IF i <= Len(a) THEN a[i] ELSE b[i - Len(a)]
      BY <2>5, <2>6, ConcatProperties
    <3> HIDE DEF a, b, r
    <3>2. Len(r) = Len(t) - 1
      BY <1>0, <2>5, <2>6, <3>1
    <3>3. ASSUME NEW i \in 1 .. Len(t) - 1 PROVE r[i] = IF i < k THEN t[i] ELSE t[i + 1]
      <4>1. i \in 1 .. Len(a) + Len(b)
        BY <1>0, <2>5, <2>6
      <4>2. CASE i < k
        <5>1. i <= Len(a) /\ i \in 1 .. k - 1
          BY <1>0, <2>5, <4>2
        <5> QED
          BY <4>1, <4>2, <5>1, <3>1, <2>5
      <4>3. CASE ~(i < k)
        <5>1. ~(i <= Len(a)) /\ i - Len(a) = i - k + 1 /\ i - k + 1 \in 1 .. Len(t) - k
              /\ k + (i - k + 1) = i + 1
          BY <1>0, <2>5, <4>3
        <5> QED
          BY <4>1, <4>3, <5>1, <3>1, <2>6
      <4> QED
        BY <4>2, <4>3
    <3> QED
      BY <3>1, <3>2, <3>3
  <2>8. RemoveFirst(t, p) = r
    BY <2>4 DEF RemoveAt
  <2> HIDE DEF r, a, b
  <2> QED
    BY <2>1, <2>7, <2>8
<1> DEFINE r == RemoveFirst(t, p)
<1>3. PICK k \in 1 .. Len(t) :
        /\ t[k] = p /\ r \in Seq(Procs) /\ Len(r) = Len(t) - 1
        /\ \A i \in 1 .. Len(t) - 1 : r[i] = IF i < k THEN t[i] ELSE t[i + 1]
  BY <1>2
<1> HIDE DEF r
<1>4. ASSUME NEW i \in 1 .. Len(t) - 1, NEW j \in 1 .. Len(t) - 1, i < j
      PROVE  key[r[i]] <= key[r[j]] /\ r[i] # r[j]
  <2>1. \E m, n \in 1 .. Len(t) : m < n /\ r[i] = t[m] /\ r[j] = t[n]
    <3>1. /\ i \in 1 .. Len(t) /\ i + 1 \in 1 .. Len(t) /\ i < j /\ i < j + 1 /\ i + 1 < j + 1
          /\ j \in 1 .. Len(t) /\ j + 1 \in 1 .. Len(t) /\ (~(i < k) => ~(j < k))
      BY <1>0, <1>4
    <3>2. CASE i < k /\ j < k
      BY <1>3, <3>1, <3>2
    <3>3. CASE i < k /\ ~(j < k)
      BY <1>3, <3>1, <3>3
    <3>4. CASE ~(i < k)
      BY <1>3, <3>1, <3>4
    <3> QED
      BY <3>2, <3>3, <3>4
  <2>2. PICK m \in 1 .. Len(t), n \in 1 .. Len(t) : m < n /\ r[i] = t[m] /\ r[j] = t[n]
    BY <2>1
  <2> QED
    BY <1>0, <2>2
<1>5. IsTree(r, key)
  BY <1>3, <1>4 DEF IsTree
<1>6. Elems(r) = Elems(t) \ {p}
  <2>1. \A i \in 1 .. Len(t) - 1 : r[i] \in Elems(t) \ {p}
    <3> SUFFICES ASSUME NEW i \in 1 .. Len(t) - 1 PROVE r[i] \in Elems(t) \ {p}
      OBVIOUS
    <3>1. i \in 1 .. Len(t) /\ i + 1 \in 1 .. Len(t) /\ (i < k => i # k) /\ (~(i < k) => i + 1 # k)
      BY <1>0
    <3> QED
      BY <1>0, <1>3, <3>1 DEF Elems
  <2>2. ASSUME NEW i \in 1 .. Len(t), t[i] # p PROVE t[i] \in Elems(r)
    <3>1. CASE i < k
      <4>1. i \in 1 .. Len(r) /\ r[i] = t[i]
        BY <1>0, <1>3, <3>1
      <4> QED
        BY <4>1 DEF Elems
    <3>2. CASE ~(i < k)
      <4>1. i # k
        BY <1>3, <2>2
      <4>2. i - 1 \in 1 .. Len(t) - 1 /\ ~(i - 1 < k) /\ i - 1 + 1 = i
        BY <1>0, <3>2, <4>1
      <4>3. i - 1 \in 1 .. Len(r) /\ r[i - 1] = t[i]
        BY <1>3, <4>2
      <4> QED
        BY <4>3 DEF Elems
    <3> QED
      BY <3>1, <3>2
  <2>3. \A x \in Elems(r) : x \in Elems(t) \ {p}
    BY <1>3, <2>1 DEF Elems
  <2>4. \A x \in Elems(t) \ {p} : x \in Elems(r)
    BY <2>2 DEF Elems
  <2> QED
    BY <2>3, <2>4
<1> QED
  BY <1>5, <1>6 DEF r

-----------------------------------------------------------------------------
(* Numbers. *)

(* What the provers need to be told of quotients ... *)
LEMMA Quotients ==
  ASSUME NEW a \in Nat, NEW b \in Nat \ {0}
  PROVE  a \div b \in Nat
  OBVIOUS

(* ... and of products. *)
LEMMA Products ==
  ASSUME NEW a \in Nat, NEW b \in Nat
  PROVE  a * b \in Nat
  OBVIOUS

(* Every nice value has a weight, and none is 0: the quotient of two weights, by *)
(* which calc_tsl and the charge divide, is always defined.                      *)
LEMMA WeightsArePositive == nyc_to_w \in [0 .. 39 -> Nat \ {0}]
<1>1. \A i \in 1 .. 40 : WeightTable[i] \in Nat \ {0}
  BY DEF WeightTable
<1>2. \A nice \in 0 .. 39 : nice + 1 \in 1 .. 40
  OBVIOUS
<1> QED
  BY <1>1, <1>2 DEF nyc_to_w

(* The table of nice values, and the rate at which each process is charged. *)
NicesTyped == nyc \in [Procs -> 0 .. 39]
Rate(p) == nyc_to_w[0] \div nyc_to_w[nyc[p]]

(* A process of the table has a weight above 0, hence a rate. *)
LEMMA RatesAreNumbers ==
  ASSUME NicesTyped, NEW p \in Procs
  PROVE  nyc_to_w[nyc[p]] \in Nat \ {0} /\ Rate(p) \in Nat
<1>1. nyc_to_w[nyc[p]] \in Nat \ {0} /\ nyc_to_w[0] \in Nat
  <2>1. nyc[p] \in 0 .. 39 /\ 0 \in 0 .. 39
    BY DEF NicesTyped
  <2> QED
    BY <2>1, WeightsArePositive
<1> QED
  BY <1>1, Quotients DEF Rate

(* The sum of the weights of a tree which is not empty is above 0, so that the *)
(* share that calc_tsl divides by it is a number.                              *)
LEMMA SlicesAreNumbers ==
  ASSUME NicesTyped, NEW t \in Seq(Procs), t # <<>>, NEW p \in Procs
  PROVE  calc_tsl(t, p) \in Nat
<1> DEFINE n == Len(t)
           w(i) == nyc_to_w[nyc[t[i]]]
           Value(f, i) == IF i = 0 THEN 0 ELSE f[i - 1] + w(i)
           body == [i \in 1 .. n |-> [x \in Nat |-> x + w(i)]]
           sum == CHOOSE f : f = [i \in 0 .. n |-> Value(f, i)]
           latency == IF n * MGD > TLD THEN n * MGD ELSE TLD
<1>1. n \in Nat \ {0} /\ \A i \in 1 .. n : t[i] \in Procs /\ w(i) \in Nat \ {0}
  <2>1. n \in Nat /\ n # 0 /\ \A i \in 1 .. n : t[i] \in Procs
    BY LenProperties, ElementOfSeq, EmptySeq
  <2>2. \A i \in 1 .. n : w(i) \in Nat \ {0}
    BY <2>1, RatesAreNumbers
  <2> QED
    BY <2>1, <2>2
<1>2. body \in [1 .. n -> [Nat -> Nat]]
  <2> HIDE DEF w
  <2> QED
    BY <1>1
<1>3. PICK f \in [0 .. n -> Nat] : f[0] = 0 /\ \A k \in 1 .. n : f[k] = body[k][f[k - 1]]
  <2>1. IsLoop(Nat, 0, n, body)
    BY <1>1, <1>2 DEF IsLoop
  <2> HIDE DEF n, body
  <2>2. PICK f : AreItsValues(f, Nat, 0, n, body)
    BY <2>1, LoopHasValues
  <2> QED
    BY <2>2 DEF AreItsValues
<1>4. ASSUME NEW k \in 0 .. n PROVE f[k] = Value(f, k)
  <2> HIDE DEF w
  <2>1. CASE k = 0
    BY <1>3, <2>1
  <2>2. CASE k # 0
    <3>1. k \in 1 .. n /\ k - 1 \in 0 .. n
      BY <1>1, <2>2
    <3>2. f[k - 1] \in Nat
      BY <3>1
    <3> QED
      BY <1>3, <2>2, <3>1, <3>2
  <2> QED
    BY <2>1, <2>2
<1>5. f = [i \in 0 .. n |-> Value(f, i)]
  BY <1>4
<1>6. sum = [i \in 0 .. n |-> Value(sum, i)]
  <2> HIDE DEF Value
  <2> QED
    BY <1>5
<1>7. calc_tsl(t, p) = (latency * nyc_to_w[nyc[p]] + sum[n] - 1) \div sum[n]
  BY DEF calc_tsl
<1> HIDE DEF sum, w
<1> DEFINE T == {i \in 0 .. n : sum[i] \in Nat /\ (i > 0 => sum[i] > 0)}
<1>8. 0 \in T
  <2>1. sum[0] = 0
    BY <1>1, <1>6
  <2> QED
    BY <1>1, <2>1
<1>9. ASSUME NEW k \in 0 .. n - 1, k \in T PROVE k + 1 \in T
  <2>1. k + 1 \in 0 .. n /\ k + 1 \in 1 .. n /\ k + 1 # 0 /\ k + 1 - 1 = k
    BY <1>1
  <2>2. sum[k + 1] = sum[k] + w(k + 1)
    BY <1>6, <2>1
  <2> QED
    BY <1>1, <1>9, <2>1, <2>2
<1>10. n \in T
  <2> HIDE DEF T, n
  <2>1. \A k \in 0 .. n : k \in T
    BY <1>1, <1>8, <1>9, Passes
  <2> QED
    BY <1>1, <2>1
<1>11. sum[n] \in Nat \ {0}
  BY <1>1, <1>10
<1>12. latency \in Nat /\ nyc_to_w[nyc[p]] \in Nat
  BY <1>1, RatesAreNumbers DEF MGD, TLD
<1> HIDE DEF n, latency
<1>13. latency * nyc_to_w[nyc[p]] \in Nat
  BY <1>12, Products
<1>14. latency * nyc_to_w[nyc[p]] + sum[n] - 1 \in Nat
  BY <1>11, <1>13
<1> QED
  BY <1>7, <1>11, <1>14, Quotients

-----------------------------------------------------------------------------
(* The scan of the process table. *)

(* Whatever the tree, an insertion gives a sequence of processes. *)
LEMMA InsertTyped ==
  ASSUME NEW t \in Seq(Procs), NEW key, NEW p \in Procs
  PROVE  InsertByVrt(t, key, p) \in Seq(Procs)
<1> DEFINE B == {i \in DOMAIN t : key[t[i]] <= key[p]}
           k == Cardinality(B) + 1
<1>1. Len(t) \in Nat /\ DOMAIN t = 1 .. Len(t)
  BY LenProperties
<1>2. Cardinality(B) \in 0 .. Len(t)
  <2>1. IsFiniteSet(1 .. Len(t)) /\ Cardinality(1 .. Len(t)) = Len(t)
    <3>1. /\ IsFiniteSet(1 .. Len(t))
          /\ Cardinality(1 .. Len(t)) = IF 1 > Len(t) THEN 0 ELSE Len(t) - 1 + 1
      BY <1>1, FS_Interval
    <3> QED
      BY <1>1, <3>1
  <2>2. B \in SUBSET (1 .. Len(t))
    BY <1>1
  <2> HIDE DEF B
  <2>3. Cardinality(B) <= Len(t) /\ IsFiniteSet(B)
    BY <2>1, <2>2, FS_Subset
  <2>4. Cardinality(B) \in Nat
    BY <2>3, FS_CardinalityType
  <2> QED
    BY <1>1, <2>3, <2>4
<1>3. IsInsertion(InsertAt(t, k, p), Procs, t, Cardinality(B), p)
  <2>1. k = Cardinality(B) + 1
    OBVIOUS
  <2> HIDE DEF k, B
  <2> QED
    BY <1>2, <2>1, InsertedAt, Zenon
<1>4. InsertByVrt(t, key, p) = InsertAt(t, k, p)
  BY DEF InsertByVrt
<1> HIDE DEF k, B
<1> QED
  BY <1>3, <1>4 DEF IsInsertion

States == [tree : Seq(Procs), key : [Procs -> Nat]]

(* A newcomer gets a key of its own and its place; the keys of the others stay. *)
LEMMA NewcomerFacts ==
  ASSUME NEW state \in States, NEW p \in Procs
  PROVE  /\ Newcomer(state, p) \in States
         /\ \A q \in Procs \ {p} : Newcomer(state, p).key[q] = state.key[q]
         /\ IsTree(state.tree, state.key) /\ p \notin Elems(state.tree)
              => /\ IsTree(Newcomer(state, p).tree, Newcomer(state, p).key)
                 /\ Elems(Newcomer(state, p).tree) = Elems(state.tree) \cup {p}
<1> DEFINE least == min_vrtm(state.tree, state.key)
           key == IF least >= MGD \div 2
                  THEN [state.key EXCEPT ![p] = least - MGD \div 2] ELSE state.key
<1>1. state.tree \in Seq(Procs) /\ state.key \in [Procs -> Nat]
  BY DEF States
<1>2. least \in Nat
  <2>1. CASE state.tree = <<>>
    BY <2>1 DEF min_vrtm
  <2>2. CASE state.tree # <<>>
    <3>1. Head(state.tree) \in Procs
      BY <1>1, <2>2
    <3> QED
      BY <1>1, <2>2, <3>1 DEF min_vrtm
  <2> QED
    BY <2>1, <2>2
<1>3. key \in [Procs -> Nat] /\ \A q \in Procs \ {p} : key[q] = state.key[q]
  <2> HIDE DEF least
  <2>1. least >= MGD \div 2 => least - MGD \div 2 \in Nat
    BY <1>2 DEF MGD
  <2> QED
    BY <1>1, <2>1
<1>4. Newcomer(state, p) = [tree |-> InsertByVrt(state.tree, key, p), key |-> key]
  BY DEF Newcomer
<1> HIDE DEF key, least
<1>5. InsertByVrt(state.tree, key, p) \in Seq(Procs)
  BY <1>1, InsertTyped
<1>6. /\ Newcomer(state, p).tree = InsertByVrt(state.tree, key, p)
      /\ Newcomer(state, p).key = key
  BY <1>4
<1>7. ASSUME IsTree(state.tree, state.key), p \notin Elems(state.tree)
      PROVE  /\ IsTree(Newcomer(state, p).tree, Newcomer(state, p).key)
             /\ Elems(Newcomer(state, p).tree) = Elems(state.tree) \cup {p}
  <2>1. IsTree(state.tree, key)
    <3>1. \A i \in 1 .. Len(state.tree) : state.tree[i] \in Procs \ {p}
      BY <1>7, TreeTyped DEF Elems
    <3>2. \A i \in 1 .. Len(state.tree) : key[state.tree[i]] = state.key[state.tree[i]]
      BY <1>3, <3>1
    <3> QED
      BY <1>7, <3>2 DEF IsTree
  <2> QED
    BY <1>3, <1>6, <1>7, <2>1, InsertFacts
<1> QED
  BY <1>3, <1>4, <1>5, <1>6, <1>7 DEF States

(* The scan admits those who arrive now, and only those get a new key. *)
LEMMA ScannedFacts ==
  ASSUME vrt \in [Procs -> Nat], IsTree(rbt, vrt), \A p \in Elems(rbt) : arrival_time[p] # ts
  PROVE  /\ Scanned.key \in [Procs -> Nat]
         /\ IsTree(Scanned.tree, Scanned.key)
         /\ Elems(Scanned.tree) = Elems(rbt) \cup {p \in Procs : arrival_time[p] = ts}
         /\ \A p \in Procs : arrival_time[p] # ts => Scanned.key[p] = vrt[p]
<1> DEFINE base == [tree |-> rbt, key |-> vrt]
           Pass(s, k) == IF arrival_time[k - 1] = ts THEN Newcomer(s, k - 1) ELSE s
           Value(f, k) == IF k = 0 THEN base ELSE Pass(f[k - 1], k)
           body == [k \in 1 .. N |-> [s \in States |-> Pass(s, k)]]
           after == CHOOSE f : f = [k \in 0 .. N |-> Value(f, k)]
<1>1. N \in Nat /\ \A k \in 1 .. N : k - 1 \in Procs
  BY CfsAssumption DEF Procs
<1>2. body \in [1 .. N -> [States -> States]]
  <2>1. \A k \in 1 .. N, s \in States : Pass(s, k) \in States
    BY <1>1, NewcomerFacts
  <2> HIDE DEF Pass
  <2> QED
    BY <2>1
<1>3. base \in States
  BY DEF IsTree, States
<1>4. PICK f \in [0 .. N -> States] : f[0] = base /\ \A k \in 1 .. N : f[k] = body[k][f[k - 1]]
  <2>1. IsLoop(States, base, N, body)
    BY <1>1, <1>2, <1>3 DEF IsLoop
  <2> HIDE DEF base, body
  <2>2. PICK f : AreItsValues(f, States, base, N, body)
    BY <2>1, LoopHasValues
  <2> QED
    BY <2>2 DEF AreItsValues
<1>5. ASSUME NEW k \in 0 .. N PROVE f[k] = Value(f, k)
  <2> HIDE DEF Pass, base
  <2>1. CASE k = 0
    BY <1>4, <2>1
  <2>2. CASE k # 0
    <3>1. k \in 1 .. N /\ k - 1 \in 0 .. N
      BY <1>1, <2>2
    <3>2. f[k - 1] \in States
      BY <3>1
    <3> QED
      BY <1>4, <2>2, <3>1, <3>2
  <2> QED
    BY <2>1, <2>2
<1>6. f = [k \in 0 .. N |-> Value(f, k)]
  BY <1>5
<1>7. after = [k \in 0 .. N |-> Value(after, k)]
  <2> HIDE DEF Value
  <2> QED
    BY <1>6
<1>8. Scanned = after[N]
  BY DEF Scanned
<1> HIDE DEF after
<1> DEFINE Done(k) == {p \in Procs : p < k /\ arrival_time[p] = ts}
           Good(s, k) ==
             /\ s \in States
             /\ IsTree(s.tree, s.key)
             /\ Elems(s.tree) = Elems(rbt) \cup Done(k)
             /\ \A p \in Procs : arrival_time[p] # ts => s.key[p] = vrt[p]
           T == {k \in 0 .. N : Good(after[k], k)}
<1>9. 0 \in T
  <2>1. after[0] = base
    BY <1>1, <1>7
  <2>2. Done(0) = {}
    BY <1>1 DEF Procs
  <2>3. base.tree = rbt /\ base.key = vrt
    OBVIOUS
  <2> HIDE DEF base, Done
  <2>4. Good(base, 0)
    BY <1>3, <2>2, <2>3
  <2> HIDE DEF Good
  <2> QED
    BY <1>1, <2>1, <2>4
<1>10. ASSUME NEW k \in 0 .. N - 1, k \in T PROVE k + 1 \in T
  <2> DEFINE s == after[k]
  <2>1. k + 1 \in 0 .. N /\ k + 1 \in 1 .. N /\ k + 1 # 0 /\ k + 1 - 1 = k /\ k \in Procs
    BY <1>1 DEF Procs
  <2>2. after[k + 1] = IF arrival_time[k] = ts THEN Newcomer(s, k) ELSE s
    <3>1. Value(after, k + 1) = Pass(after[k + 1 - 1], k + 1)
      <4> HIDE DEF Pass, base
      <4> QED
        BY <2>1
    <3>2. after[k + 1] = Value(after, k + 1)
      <4> HIDE DEF Value
      <4> QED
        BY <1>7, <2>1
    <3>3. Pass(after[k + 1 - 1], k + 1) = Pass(after[k], k + 1)
      <4> HIDE DEF Pass
      <4> QED
        BY <2>1
    <3>4. Pass(after[k], k + 1) = IF arrival_time[k] = ts THEN Newcomer(s, k) ELSE s
      BY <2>1
    <3> HIDE DEF Value, Pass, base, s
    <3> QED
      BY <3>1, <3>2, <3>3, <3>4
  <2>3. Good(s, k)
    <3> HIDE DEF Good
    <3> QED
      BY <1>10
  <2>4. Done(k + 1) = IF arrival_time[k] = ts THEN Done(k) \cup {k} ELSE Done(k)
    <3>1. \A p \in Procs : p < k + 1 <=> (p < k \/ p = k)
      BY <2>1 DEF Procs
    <3> QED
      BY <2>1, <3>1
  <2>5. k \notin Done(k)
    BY <2>1 DEF Procs
  <2>6. Good(after[k + 1], k + 1)
    <3> HIDE DEF s, Done
    <3>1. CASE arrival_time[k] = ts
      <4>1. k \notin Elems(s.tree)
        BY <2>3, <2>5, <3>1
      <4>2. /\ Newcomer(s, k) \in States
            /\ IsTree(Newcomer(s, k).tree, Newcomer(s, k).key)
            /\ Elems(Newcomer(s, k).tree) = Elems(s.tree) \cup {k}
            /\ \A q \in Procs \ {k} : Newcomer(s, k).key[q] = s.key[q]
        BY <2>1, <2>3, <4>1, NewcomerFacts
      <4>3. Good(Newcomer(s, k), k + 1)
        BY <2>3, <2>4, <3>1, <4>2
      <4> HIDE DEF Good
      <4> QED
        BY <2>2, <3>1, <4>3
    <3>2. CASE arrival_time[k] # ts
      <4>1. Good(s, k + 1)
        BY <2>3, <2>4, <3>2
      <4> HIDE DEF Good
      <4> QED
        BY <2>2, <3>2, <4>1
    <3> QED
      BY <3>1, <3>2
  <2> HIDE DEF Good
  <2> QED
    BY <2>1, <2>6
<1>11. Good(after[N], N)
  <2> HIDE DEF Good
  <2>1. \A k \in 0 .. N : k \in T
    <3> HIDE DEF T
    <3> QED
      BY <1>1, <1>9, <1>10, Passes
  <2> QED
    BY <1>1, <2>1
<1>12. Done(N) = {p \in Procs : arrival_time[p] = ts}
  BY <1>1 DEF Procs
<1>13. Good(Scanned, N)
  <2> HIDE DEF Good
  <2> QED
    BY <1>8, <1>11
<1> HIDE DEF Done
<1> QED
  BY <1>12, <1>13 DEF States

-----------------------------------------------------------------------------
(* The inductive invariant. *)

Typed ==
  /\ TypeOK
  /\ arrival_time \in [Procs -> Nat]
  /\ burst_time \in [Procs -> Nat \ {0}]
  /\ NicesTyped
  /\ waited \in [Procs -> Nat]
  /\ start \in [Procs -> Nat]

(* The scan has been past the process's entry at the time that it arrives. *)
Admitted(p) ==
  arrival_time[p] < ts \/ (arrival_time[p] = ts /\ phase \in {"pick", "run"})

(* Who is admitted and unfinished runs or is in the tree, and nobody else. *)
InTree ==
  /\ \A p \in Procs : p \in Elems(rbt) <=> Admitted(p) /\ rem_time[p] > 0 /\ p # index
  /\ index # None => Admitted(index) /\ rem_time[index] > 0
  /\ phase = "run" /\ index = None => rbt = <<>>

(* Since it was admitted, a process has run or has been in the tree. *)
Accounts ==
  \A p \in Procs :
    /\ rem_time[p] <= burst_time[p]
    /\ ~Admitted(p) => /\ rem_time[p] = burst_time[p] /\ waited[p] = 0
                       /\ vrt[p] = 0 /\ start[p] = 0
    /\ Admitted(p) /\ rem_time[p] > 0 =>
         waited[p] = ts - arrival_time[p] - (burst_time[p] - rem_time[p])

Charged(p) ==
  rem_time[p] > 0 =>
    vrt[p] = start[p] + Rate(p) * (burst_time[p] - rem_time[p] - IF p = index THEN art ELSE 0)

Inv ==
  /\ Typed
  /\ IsTree(rbt, vrt)
  /\ InTree
  /\ Accounts
  /\ \A p \in Procs : Charged(p)

(* The invariant says all that the runs check. *)
LEMMA InvGivesProperties ==
  ASSUME Inv
  PROVE  TreeConsistent /\ ChargedForTimeRun
<1>1. TreeConsistent
  <2>1. DOMAIN rbt = 1 .. Len(rbt)
    BY TreeTyped DEF Inv
  <2> QED
    BY <2>1 DEF Inv, Typed, IsTree, TreeConsistent, TreeInOrder
<1>2. ChargedForTimeRun
  <2> SUFFICES ASSUME NEW p \in Procs, rem_time[p] # 0
               PROVE  vrt[p] = start[p] + Rate(p)
                                 * (burst_time[p] - rem_time[p] - IF p = index THEN art ELSE 0)
    BY DEF ChargedForTimeRun, Finished, Rate
  <2>1. rem_time[p] > 0
    BY DEF Inv, Typed, TypeOK
  <2> QED
    BY <2>1 DEF Inv, Charged
<1> QED
  BY <1>1, <1>2

(* What the invariant says of the running process. *)
LEMMA Running ==
  ASSUME Inv, index # None
  PROVE  /\ index \in Procs /\ index \notin Elems(rbt) /\ Elems(rbt) \subseteq Procs
         /\ rem_time[index] \in Nat \ {0} /\ burst_time[index] \in Nat
         /\ vrt[index] \in Nat /\ start[index] \in Nat /\ Rate(index) \in Nat /\ art \in Nat
         /\ vrt[index] = start[index] + Rate(index) * (burst_time[index] - rem_time[index] - art)
<1>1. /\ index \in Procs /\ rem_time[index] \in Nat /\ burst_time[index] \in Nat
      /\ vrt[index] \in Nat /\ start[index] \in Nat /\ art \in Nat
  BY DEF Inv, Typed, TypeOK
<1>2. index \notin Elems(rbt) /\ rem_time[index] > 0
  BY <1>1 DEF Inv, InTree
<1>3. Charged(index) /\ Rate(index) \in Nat
  BY <1>1, RatesAreNumbers DEF Inv, Typed
<1>4. Elems(rbt) \subseteq Procs
  BY TreeTyped DEF Inv
<1> QED
  BY <1>1, <1>2, <1>3, <1>4 DEF Charged

(* A charge adds the process's rate for each unit of time. *)
LEMMA ChargeAdds ==
  ASSUME NEW v \in Nat, NEW s \in Nat, NEW r \in Nat, NEW b \in Int, NEW a \in Int, NEW t \in Nat,
         v = s + r * (b - a)
  PROVE  v + t * r \in Nat /\ v + t * r = s + r * (b - a + t)
<1>1. t * r \in Nat
  BY Products
<1>2. r * (b - a + t) = r * (b - a) + t * r
  OBVIOUS
<1>3. r * (b - a) \in Int
  OBVIOUS
<1> QED
  BY <1>1, <1>2, <1>3

(* At the beginning the tree is empty and nobody has been charged. *)
LEMMA InvInit == Init => Inv
<1> SUFFICES ASSUME Init PROVE Inv
  OBVIOUS
<1>1. Procs \subseteq Nat /\ N \in Nat
  BY CfsAssumption DEF Procs
<1>2. Typed
  <2>1. NicesTyped
    BY CfsAssumption DEF Init, NicesTyped
  <2>2. arrival_time \in [Procs -> Nat] /\ burst_time \in [Procs -> Nat \ {0}]
    BY CfsAssumption DEF Init
  <2>3. <<>> \in Seq(Procs)
    OBVIOUS
  <2>4. TypeOK
    BY <2>2, <2>3 DEF Init, TypeOK, None
  <2>5. waited \in [Procs -> Nat] /\ start \in [Procs -> Nat]
    BY DEF Init
  <2> QED
    BY <2>1, <2>2, <2>4, <2>5 DEF Typed
<1>3. Len(rbt) = 0 /\ Elems(rbt) = {}
  <2>1. rbt = <<>>
    BY DEF Init
  <2>2. Len(rbt) = 0
    BY <2>1
  <2> QED
    BY <2>2 DEF Elems
<1>4. IsTree(rbt, vrt)
  BY <1>2, <1>3 DEF IsTree, Typed, TypeOK
<1>5. \A p \in Procs : ~Admitted(p)
  <2>1. ts = 0 /\ phase \notin {"pick", "run"}
    BY DEF Init
  <2> QED
    BY <1>2, <2>1 DEF Admitted, Typed
<1>6. InTree
  BY <1>3, <1>5 DEF InTree, Init, None
<1>7. Accounts
  BY <1>2, <1>5 DEF Accounts, Init, Typed
<1>8. ASSUME NEW p \in Procs PROVE Charged(p)
  <2>1. /\ burst_time[p] - rem_time[p] = 0 /\ p # index /\ vrt[p] = 0 /\ start[p] = 0
        /\ burst_time[p] \in Nat
    BY <1>1, <1>2 DEF Init, Typed, None
  <2>2. Rate(p) \in Nat
    BY <1>2, RatesAreNumbers DEF Typed
  <2>3. Rate(p) * 0 = 0
    BY <2>2
  <2> QED
    BY <2>1, <2>3 DEF Charged
<1> QED
  BY <1>2, <1>4, <1>6, <1>7, <1>8 DEF Inv

(* The scan: who arrives now is admitted, and is in the tree with what it owes, 0. *)
LEMMA InvAdmit == Inv /\ Admit => Inv'
<1> SUFFICES ASSUME Inv, Admit PROVE Inv'
  OBVIOUS
<1>0. /\ ts \in Nat /\ vrt \in [Procs -> Nat] /\ start \in [Procs -> Nat] /\ index \in Procs \cup {None}
      /\ arrival_time \in [Procs -> Nat] /\ phase = "admit" /\ phase' = "pick"
      /\ burst_time \in [Procs -> Nat \ {0}] /\ Elems(rbt) \subseteq Procs
      /\ UNCHANGED <<arrival_time, burst_time, nyc, rem_time, wait_time, index, tsl, art, min_vrt, ts, waited>>
  BY TreeTyped DEF Inv, Typed, TypeOK, Admit, job, cpu
<1>1. \A p \in Procs : Admitted(p) <=> arrival_time[p] < ts
  BY <1>0 DEF Admitted
<1>2. \A p \in Procs : Admitted(p)' <=> arrival_time[p] < ts \/ arrival_time[p] = ts
  BY <1>0 DEF Admitted
<1>3. \A p \in Elems(rbt) : arrival_time[p] # ts
  BY <1>0, <1>1 DEF Inv, InTree
<1>4. /\ vrt' \in [Procs -> Nat]
      /\ IsTree(rbt', vrt')
      /\ Elems(rbt') = Elems(rbt) \cup {p \in Procs : arrival_time[p] = ts}
      /\ \A p \in Procs : arrival_time[p] # ts => vrt'[p] = vrt[p]
  <2>1. rbt' = Scanned.tree /\ vrt' = Scanned.key
    BY DEF Admit
  <2>2. IsTree(rbt, vrt)
    BY DEF Inv
  <2>3. /\ Scanned.key \in [Procs -> Nat]
        /\ IsTree(Scanned.tree, Scanned.key)
        /\ Elems(Scanned.tree) = Elems(rbt) \cup {p \in Procs : arrival_time[p] = ts}
        /\ \A p \in Procs : arrival_time[p] # ts => Scanned.key[p] = vrt[p]
    BY <1>0, <1>3, <2>2, ScannedFacts
  <2> QED
    BY <2>1, <2>3
<1>5. start' = [p \in Procs |-> IF arrival_time[p] = ts THEN vrt'[p] ELSE start[p]]
  BY DEF Admit
<1>6. Typed'
  <2>1. start' \in [Procs -> Nat]
    BY <1>0, <1>4, <1>5
  <2>2. rbt' \in Seq(Procs)
    BY <1>4 DEF IsTree
  <2> QED
    BY <1>0, <1>4, <2>1, <2>2 DEF Inv, Typed, TypeOK, NicesTyped
<1>7. InTree'
  <2>1. ASSUME NEW p \in Procs
        PROVE  p \in Elems(rbt') <=> Admitted(p)' /\ rem_time[p] > 0 /\ p # index
    <3>1. CASE arrival_time[p] = ts
      <4>1. ~Admitted(p) /\ rem_time[p] = burst_time[p] /\ burst_time[p] > 0
        BY <1>0, <1>1, <3>1 DEF Inv, Accounts
      <4>2. p # index
        BY <1>0, <4>1, CfsAssumption DEF Inv, InTree, Procs, None
      <4> QED
        BY <1>2, <1>4, <3>1, <4>1, <4>2
    <3>2. CASE arrival_time[p] # ts
      <4>1. Admitted(p)' <=> Admitted(p)
        BY <1>1, <1>2, <3>2
      <4>2. p \in Elems(rbt') <=> p \in Elems(rbt)
        BY <1>4, <3>2
      <4> QED
        BY <4>1, <4>2 DEF Inv, InTree
    <3> QED
      BY <3>1, <3>2
  <2>2. index # None => Admitted(index)' /\ rem_time[index] > 0
    BY <1>0, <1>1, <1>2 DEF Inv, InTree
  <2> QED
    BY <1>0, <2>1, <2>2 DEF InTree
<1>8. Accounts'
  <2> SUFFICES ASSUME NEW p \in Procs
               PROVE /\ rem_time[p] <= burst_time[p]
                     /\ ~Admitted(p)' => /\ rem_time[p] = burst_time[p] /\ waited[p] = 0
                                         /\ vrt'[p] = 0 /\ start'[p] = 0
                     /\ Admitted(p)' /\ rem_time[p] > 0 =>
                          waited[p] = ts - arrival_time[p] - (burst_time[p] - rem_time[p])
    BY <1>0 DEF Accounts
  <2>1. CASE arrival_time[p] = ts
    <3>1. /\ ~Admitted(p) /\ rem_time[p] = burst_time[p] /\ waited[p] = 0 /\ Admitted(p)'
          /\ burst_time[p] \in Nat /\ arrival_time[p] \in Nat
      BY <1>0, <1>1, <1>2, <2>1 DEF Inv, Accounts
    <3> QED
      BY <1>0, <2>1, <3>1
  <2>2. CASE arrival_time[p] # ts
    <3>1. (Admitted(p)' <=> Admitted(p)) /\ vrt'[p] = vrt[p] /\ start'[p] = start[p]
      BY <1>1, <1>2, <1>4, <1>5, <2>2
    <3> QED
      BY <3>1 DEF Inv, Accounts
  <2> QED
    BY <2>1, <2>2
<1>9. ASSUME NEW p \in Procs PROVE Charged(p)'
  <2>0. Rate(p)' = Rate(p) /\ Rate(p) \in Nat
    BY <1>0, RatesAreNumbers DEF Rate, Inv, Typed
  <2>1. CASE arrival_time[p] = ts
    <3>1. ~Admitted(p) /\ rem_time[p] = burst_time[p] /\ burst_time[p] \in Nat
      BY <1>0, <1>1, <2>1 DEF Inv, Accounts
    <3>2. p # index
      BY <1>0, <3>1, CfsAssumption DEF Inv, InTree, Procs, None
    <3>3. start'[p] = vrt'[p] /\ vrt'[p] \in Nat
      BY <1>4, <1>5, <2>1
    <3>4. burst_time[p] - rem_time[p] - 0 = 0 /\ Rate(p) * 0 = 0
      BY <2>0, <3>1
    <3> QED
      BY <1>0, <2>0, <3>2, <3>3, <3>4 DEF Charged
  <2>2. CASE arrival_time[p] # ts
    <3>1. start'[p] = start[p] /\ vrt'[p] = vrt[p]
      BY <1>4, <1>5, <2>2
    <3>2. Charged(p)
      BY DEF Inv
    <3> QED
      BY <1>0, <2>0, <3>1, <3>2 DEF Charged
  <2> QED
    BY <2>1, <2>2
<1> QED
  BY <1>4, <1>6, <1>7, <1>8, <1>9 DEF Inv

(* The process that gets the processor leaves the tree; the rest of the state is *)
(* as before, but for the virtual run time of the one that may have lost it.      *)
LEMMA InvDispatch ==
  ASSUME Inv, NEW tree, NEW p \in Elems(tree), p # index,
         Dispatch(p, tree, vrt'), phase = "pick", phase' = "run",
         IsTree(tree, vrt'), vrt' \in [Procs -> Nat],
         Elems(tree) = Elems(rbt) \cup (IF index = None THEN {} ELSE {index}),
         \A q \in Procs \ {index} : vrt'[q] = vrt[q],
         index # None => vrt'[index] = start[index] + Rate(index) * (burst_time[index] - rem_time[index]),
         UNCHANGED <<job, rem_time, wait_time, ts, waited, start>>
  PROVE  Inv'
<1>0. /\ UNCHANGED <<arrival_time, burst_time, nyc, rem_time, wait_time, ts, waited, start>>
      /\ index' = p /\ p \in Procs /\ art' = 0 /\ min_vrt' = vrt'[p] /\ tsl' = calc_tsl(tree, p)
      /\ rbt' = RemoveFirst(tree, p) /\ index \in Procs \cup {None} /\ tree \in Seq(Procs)
      /\ phase = "pick" /\ phase' = "run" /\ p # None
  <2>1. p \in Procs /\ tree \in Seq(Procs)
    BY TreeTyped DEF IsTree
  <2>2. p # None
    BY <2>1, CfsAssumption DEF Procs, None
  <2> QED
    BY <2>1, <2>2 DEF Dispatch, job, Inv, Typed, TypeOK
<1>1. IsTree(rbt', vrt') /\ Elems(rbt') = Elems(tree) \ {p}
  BY <1>0, RemoveFacts
<1>2. Typed'
  <2>1. tsl' \in Nat
    <3>1. tree # <<>>
      <4>1. Len(tree) # 0
        BY <1>0, LenProperties DEF Elems
      <4>2. Len(<<>>) = 0
        OBVIOUS
      <4> QED
        BY <4>1, <4>2
    <3> QED
      BY <1>0, <3>1, SlicesAreNumbers DEF Inv, Typed
  <2>2. rbt' \in Seq(Procs)
    BY <1>1 DEF IsTree
  <2>3. min_vrt' \in Nat
    BY <1>0
  <2> QED
    BY <1>0, <2>1, <2>2, <2>3 DEF Inv, Typed, TypeOK, NicesTyped
<1>3. \A q \in Procs : Admitted(q)' <=> Admitted(q)
  BY <1>0 DEF Admitted
<1>4. InTree'
  <2>1. \A q \in Procs : q \in Elems(tree) <=> Admitted(q) /\ rem_time[q] > 0
    BY <1>0 DEF Inv, InTree
  <2>2. \A q \in Procs : q \in Elems(rbt') <=> Admitted(q)' /\ rem_time[q] > 0 /\ q # p
    BY <1>1, <1>3, <2>1
  <2>3. Admitted(p)' /\ rem_time[p] > 0
    BY <1>0, <1>3, <2>1
  <2> QED
    BY <1>0, <2>2, <2>3 DEF InTree
<1>5. Accounts'
  <2>1. \A q \in Procs : ~Admitted(q) => q # index
    <3>1. \A q \in Procs : q # None
      BY CfsAssumption DEF Procs, None
    <3> QED
      BY <3>1 DEF Inv, InTree
  <2> QED
    BY <1>0, <1>3, <2>1 DEF Inv, Accounts
<1>6. ASSUME NEW q \in Procs PROVE Charged(q)'
  <2>0. Rate(q)' = Rate(q) /\ Charged(q) /\ burst_time[q] \in Nat /\ rem_time[q] \in Nat
    BY <1>0 DEF Rate, Inv, Typed, TypeOK
  <2>1. burst_time[q] - rem_time[q] - 0 = burst_time[q] - rem_time[q]
    BY <2>0
  <2>2. rem_time[q] > 0 => vrt'[q] = start[q] + Rate(q) * (burst_time[q] - rem_time[q])
    <3>1. CASE q = index
      BY <3>1, <1>0, CfsAssumption DEF Procs, None
    <3>2. CASE q # index
      BY <2>0, <2>1, <3>2 DEF Charged
    <3> QED
      BY <3>1, <3>2
  <2>3. (burst_time[q] - rem_time[q] - IF q = index' THEN art' ELSE 0) = burst_time[q] - rem_time[q]
    BY <1>0, <2>1
  <2> QED
    BY <1>0, <2>0, <2>2, <2>3 DEF Charged
<1> QED
  BY <1>1, <1>2, <1>4, <1>5, <1>6 DEF Inv

(* The leftmost of a tree is one of its processes. *)
LEMMA Leftmost ==
  ASSUME NEW t, NEW key, IsTree(t, key), t # <<>>
  PROVE  Head(t) \in Elems(t)
<1>1. t \in Seq(Procs)
  BY DEF IsTree
<1>2. Len(t) \in Nat /\ Len(t) # 0
  BY <1>1, LenProperties, EmptySeq
<1>3. 1 \in 1 .. Len(t) /\ Head(t) = t[1]
  BY <1>1, <1>2
<1> QED
  BY <1>3 DEF Elems

(* The free processor takes the leftmost, if there is one. *)
LEMMA InvPickLeftmost == Inv /\ PickLeftmost => Inv'
<1> SUFFICES ASSUME Inv, PickLeftmost PROVE Inv'
  OBVIOUS
<1>1. CASE rbt = <<>>
  <2>0. /\ UNCHANGED <<arrival_time, burst_time, nyc, rem_time, wait_time, vrt, ts, waited, start>>
        /\ UNCHANGED <<rbt, index, tsl, art, min_vrt>>
        /\ phase = "pick" /\ phase' = "run" /\ index = None
    BY <1>1 DEF PickLeftmost, job, cpu
  <2>1. \A q \in Procs : Admitted(q)' <=> Admitted(q)
    BY <2>0 DEF Admitted
  <2>2. Typed' /\ IsTree(rbt', vrt')
    BY <2>0 DEF Inv, Typed, TypeOK, NicesTyped
  <2>3. InTree' /\ Accounts'
    BY <1>1, <2>0, <2>1 DEF Inv, InTree, Accounts
  <2>4. \A p \in Procs : Charged(p)'
    BY <2>0 DEF Inv, Charged, Rate
  <2> QED
    BY <2>2, <2>3, <2>4 DEF Inv
<1>2. CASE rbt # <<>>
  <2>0. /\ UNCHANGED <<job, rem_time, wait_time, vrt, ts, waited, start>>
        /\ phase = "pick" /\ phase' = "run" /\ index = None
        /\ Dispatch(Head(rbt), rbt, vrt)
    BY <1>2 DEF PickLeftmost
  <2>1. IsTree(rbt, vrt) /\ vrt' = vrt /\ vrt \in [Procs -> Nat]
    BY <2>0 DEF Inv, Typed, TypeOK
  <2>2. Head(rbt) \in Elems(rbt) /\ Head(rbt) # index
    BY <1>2, <2>0, <2>1, Leftmost, TreeTyped, CfsAssumption DEF Procs, None
  <2>3. Elems(rbt) = Elems(rbt) \cup (IF index = None THEN {} ELSE {index})
    BY <2>0
  <2> QED
    BY <2>0, <2>1, <2>2, <2>3, InvDispatch
<1> QED
  BY <1>1, <1>2

(* A process whose key changes while it is out of the tree, and goes back to it. *)
LEMMA GoesBack ==
  ASSUME vrt \in [Procs -> Nat], IsTree(rbt, vrt), index \in Procs, index \notin Elems(rbt),
         NEW v \in Nat, NEW key, key = [vrt EXCEPT ![index] = v]
  PROVE  /\ key \in [Procs -> Nat] /\ key[index] = v
         /\ \A q \in Procs \ {index} : key[q] = vrt[q]
         /\ IsTree(InsertByVrt(rbt, key, index), key)
         /\ Elems(InsertByVrt(rbt, key, index)) = Elems(rbt) \cup {index}
<1>1. key \in [Procs -> Nat] /\ key[index] = v /\ \A q \in Procs \ {index} : key[q] = vrt[q]
  OBVIOUS
<1>2. \A i \in 1 .. Len(rbt) : rbt[i] \in Procs \ {index}
  BY TreeTyped DEF Elems
<1>3. \A i \in 1 .. Len(rbt) : key[rbt[i]] = vrt[rbt[i]]
  BY <1>1, <1>2
<1>4. IsTree(rbt, key)
  BY <1>3 DEF IsTree
<1> QED
  BY <1>1, <1>4, InsertFacts

(* The preempted process is charged and goes back before the leftmost leaves. *)
LEMMA InvPreempt == Inv /\ Preempt => Inv'
<1> SUFFICES ASSUME Inv, Preempt PROVE Inv'
  OBVIOUS
<1> DEFINE tree == InsertByVrt(rbt, vrt', index)
<1>0. /\ UNCHANGED <<job, rem_time, wait_time, ts, waited, start>>
      /\ phase = "pick" /\ phase' = "run" /\ index # None /\ rbt # <<>>
      /\ vrt' = [vrt EXCEPT ![index] = Charge(art)]
      /\ Dispatch(Head(rbt), tree, vrt')
      /\ vrt \in [Procs -> Nat] /\ IsTree(rbt, vrt)
  BY DEF Preempt, GivesWay, Inv, Typed, TypeOK
<1>1. /\ index \in Procs /\ index \notin Elems(rbt)
      /\ burst_time[index] \in Nat /\ rem_time[index] \in Nat
      /\ vrt[index] \in Nat /\ start[index] \in Nat /\ Rate(index) \in Nat /\ art \in Nat
      /\ vrt[index] = start[index] + Rate(index) * (burst_time[index] - rem_time[index] - art)
  BY <1>0, Running
<1>2. /\ Charge(art) \in Nat
      /\ Charge(art) = start[index] + Rate(index) * (burst_time[index] - rem_time[index])
  <2> DEFINE b == burst_time[index] - rem_time[index]
  <2>1. b \in Int /\ b - art + art = b /\ Charge(art) = vrt[index] + art * Rate(index)
    BY <1>1 DEF Charge, Rate
  <2>2. vrt[index] = start[index] + Rate(index) * (b - art)
    BY <1>1
  <2> HIDE DEF b
  <2>3. /\ vrt[index] + art * Rate(index) \in Nat
        /\ vrt[index] + art * Rate(index) = start[index] + Rate(index) * (b - art + art)
    BY <1>1, <2>1, <2>2, ChargeAdds
  <2> QED
    BY <2>1, <2>3 DEF b
<1>3. /\ vrt' \in [Procs -> Nat] /\ vrt'[index] = Charge(art)
      /\ \A q \in Procs \ {index} : vrt'[q] = vrt[q]
      /\ IsTree(tree, vrt')
      /\ Elems(tree) = Elems(rbt) \cup {index}
  BY <1>0, <1>1, <1>2, GoesBack
<1>4. Head(rbt) \in Elems(tree) /\ Head(rbt) # index
  BY <1>0, <1>1, <1>3, Leftmost
<1>5. Elems(tree) = Elems(rbt) \cup (IF index = None THEN {} ELSE {index})
  BY <1>0, <1>3
<1> HIDE DEF tree
<1> QED
  BY <1>0, <1>2, <1>3, <1>4, <1>5, InvDispatch

(* The running process keeps the processor. *)
LEMMA InvContinue == Inv /\ Continue => Inv'
<1> SUFFICES ASSUME Inv, Continue PROVE Inv'
  OBVIOUS
<1>0. /\ UNCHANGED <<arrival_time, burst_time, nyc, rem_time, wait_time, vrt, ts, waited, start>>
      /\ UNCHANGED <<rbt, index, tsl, art, min_vrt>>
      /\ phase = "pick" /\ phase' = "run" /\ index # None
  BY DEF Continue, job, cpu
<1>1. \A q \in Procs : Admitted(q)' <=> Admitted(q)
  BY <1>0 DEF Admitted
<1>2. Typed' /\ IsTree(rbt', vrt')
  BY <1>0 DEF Inv, Typed, TypeOK, NicesTyped
<1>3. index \in Procs
  BY <1>0 DEF Inv, Typed, TypeOK
<1>4. InTree' /\ Accounts'
  BY <1>0, <1>1, <1>3 DEF Inv, InTree, Accounts
<1>5. \A p \in Procs : Charged(p)'
  BY <1>0 DEF Inv, Charged, Rate
<1> QED
  BY <1>2, <1>4, <1>5 DEF Inv

(* When the processor is idle nobody is ready, so that nobody's wait is missed. *)
LEMMA InvRunIdle == Inv /\ RunIdle => Inv'
<1> SUFFICES ASSUME Inv, RunIdle PROVE Inv'
  OBVIOUS
<1>0. /\ UNCHANGED <<arrival_time, burst_time, nyc, rem_time, wait_time, vrt, waited, start>>
      /\ UNCHANGED <<rbt, index, tsl, art, min_vrt>>
      /\ phase = "run" /\ phase' = "admit" /\ index = None /\ ts' = ts + 1
      /\ ts \in Nat /\ arrival_time \in [Procs -> Nat]
  BY DEF RunIdle, job, cpu, Inv, Typed, TypeOK
<1>1. \A q \in Procs : Admitted(q)' <=> Admitted(q)
  BY <1>0 DEF Admitted
<1>2. Typed' /\ IsTree(rbt', vrt')
  BY <1>0 DEF Inv, Typed, TypeOK, NicesTyped
<1>3. InTree'
  BY <1>0, <1>1 DEF Inv, InTree
<1>4. \A p \in Procs : ~(Admitted(p) /\ rem_time[p] > 0)
  <2>1. rbt = <<>>
    BY <1>0 DEF Inv, InTree
  <2>2. Len(rbt) = 0
    BY <2>1
  <2>3. Elems(rbt) = {}
    BY <2>2 DEF Elems
  <2>4. \A p \in Procs : p # index
    BY <1>0, CfsAssumption DEF Procs, None
  <2> QED
    BY <2>3, <2>4 DEF Inv, InTree
<1>5. Accounts'
  BY <1>0, <1>1, <1>4 DEF Inv, Accounts
<1>6. \A p \in Procs : Charged(p)'
  BY <1>0 DEF Inv, Charged, Rate
<1> QED
  BY <1>2, <1>3, <1>5, <1>6 DEF Inv

(* A unit of time: the process is finished, or its slice is over, or it goes on. *)
LEMMA InvRunProcess == Inv /\ RunProcess => Inv'
<1> SUFFICES ASSUME Inv, RunProcess PROVE Inv'
  OBVIOUS
<1>0. /\ UNCHANGED <<arrival_time, burst_time, nyc, start>>
      /\ phase = "run" /\ phase' \in {"admit", "end"} /\ index # None
      /\ ts' = ts + 1 /\ ts \in Nat
      /\ rem_time' = [rem_time EXCEPT ![index] = @ - 1] /\ rem_time \in [Procs -> Nat]
      /\ waited' = [p \in Procs |-> IF p \in Elems(rbt) THEN waited[p] + 1 ELSE waited[p]]
      /\ waited \in [Procs -> Nat] /\ vrt \in [Procs -> Nat] /\ IsTree(rbt, vrt)
      /\ arrival_time \in [Procs -> Nat] /\ burst_time \in [Procs -> Nat \ {0}]
      /\ start \in [Procs -> Nat] /\ wait_time \in [Procs -> Nat \cup {-1}]
      /\ tsl \in Nat /\ art \in Nat /\ min_vrt \in Nat /\ rbt \in Seq(Procs)
  <2>1. Enqueued = Elems(rbt)
    <3>1. DOMAIN rbt = 1 .. Len(rbt)
      BY TreeTyped DEF Inv
    <3> QED
      BY <3>1 DEF Enqueued, Elems
  <2>2. waited' = [p \in Procs |-> IF p \in Elems(rbt) THEN waited[p] + 1 ELSE waited[p]]
    BY <2>1 DEF RunProcess
  <2> QED
    BY <2>2 DEF RunProcess, job, Inv, Typed, TypeOK
<1>1. /\ index \in Procs /\ index \notin Elems(rbt) /\ Elems(rbt) \subseteq Procs
      /\ rem_time[index] \in Nat \ {0} /\ burst_time[index] \in Nat
      /\ vrt[index] \in Nat /\ start[index] \in Nat /\ Rate(index) \in Nat
      /\ vrt[index] = start[index] + Rate(index) * (burst_time[index] - rem_time[index] - art)
  BY <1>0, Running
<1>2. /\ rem_time' \in [Procs -> Nat] /\ rem_time'[index] = rem_time[index] - 1
      /\ \A q \in Procs \ {index} : rem_time'[q] = rem_time[q]
  <2>1. rem_time' = [rem_time EXCEPT ![index] = rem_time[index] - 1] /\ rem_time \in [Procs -> Nat]
    BY <1>0
  <2>2. index \in Procs /\ rem_time[index] - 1 \in Nat
    BY <1>1
  <2> QED
    BY <2>1, <2>2
<1>3. \A q \in Procs : Admitted(q)' <=> Admitted(q)
  BY <1>0 DEF Admitted
<1>4. Admitted(index)
  BY <1>0 DEF Inv, InTree
<1>5. waited' \in [Procs -> Nat]
  BY <1>0
<1>6. \A q \in Procs : Rate(q)' = Rate(q) /\ Rate(q) \in Nat
  BY <1>0, RatesAreNumbers DEF Rate, Inv, Typed
<1>7. waited[index] = ts - arrival_time[index] - (burst_time[index] - rem_time[index])
  BY <1>1, <1>4 DEF Inv, Accounts
<1>8. \A q \in Procs \ {index} : q \in Elems(rbt) <=> Admitted(q) /\ rem_time[q] > 0
  BY DEF Inv, InTree
(* Whatever becomes of the process, its virtual run time is kept or charged. *)
<1>9. ASSUME vrt' \in [Procs -> Nat], \A q \in Procs \ {index} : vrt'[q] = vrt[q]
      PROVE  Accounts'
  <2> SUFFICES ASSUME NEW q \in Procs
               PROVE /\ rem_time'[q] <= burst_time[q]
                     /\ ~Admitted(q) => /\ rem_time'[q] = burst_time[q] /\ waited'[q] = 0
                                        /\ vrt'[q] = 0 /\ start[q] = 0
                     /\ Admitted(q) /\ rem_time'[q] > 0 =>
                          waited'[q] = ts + 1 - arrival_time[q] - (burst_time[q] - rem_time'[q])
    BY <1>0, <1>3 DEF Accounts
  <2>0. /\ rem_time[q] \in Nat /\ burst_time[q] \in Nat /\ arrival_time[q] \in Nat /\ waited[q] \in Nat
        /\ rem_time[q] <= burst_time[q]
    BY <1>0 DEF Inv, Accounts
  <2>1. CASE q = index
    <3>1. waited'[q] = waited[q]
      BY <1>0, <1>1, <2>1
    <3> QED
      BY <1>0, <1>2, <1>4, <1>7, <2>0, <2>1, <3>1
  <2>2. CASE q # index
    <3>1. rem_time'[q] = rem_time[q] /\ vrt'[q] = vrt[q]
      BY <1>2, <1>9, <2>2
    <3>2. ~Admitted(q) => waited'[q] = waited[q]
      BY <1>0, <1>8, <2>2
    <3>3. Admitted(q) /\ rem_time[q] > 0 =>
            /\ waited'[q] = waited[q] + 1
            /\ waited[q] = ts - arrival_time[q] - (burst_time[q] - rem_time[q])
      BY <1>0, <1>8, <2>2 DEF Inv, Accounts
    <3>4. ~Admitted(q) => rem_time[q] = burst_time[q] /\ waited[q] = 0 /\ vrt[q] = 0 /\ start[q] = 0
      BY DEF Inv, Accounts
    <3>5. CASE Admitted(q)
      <4>1. rem_time[q] > 0 => waited'[q] = ts + 1 - arrival_time[q] - (burst_time[q] - rem_time[q])
        <5>1. ts \in Nat
          BY <1>0
        <5> QED
          BY <2>0, <3>3, <3>5, <5>1
      <4> QED
        BY <2>0, <3>1, <3>5, <4>1
    <3>6. CASE ~Admitted(q)
      BY <2>0, <3>1, <3>2, <3>4, <3>6
    <3> QED
      BY <3>5, <3>6
  <2> QED
    BY <2>1, <2>2
<1>10. CASE rem_time'[index] = 0
  <2>0. /\ wait_time' = [wait_time EXCEPT ![index] =
                            ts + 1 - arrival_time[index] - burst_time[index]]
        /\ index' = None /\ tsl' = 0 /\ art' = 0 /\ min_vrt' = 0 /\ vrt' = vrt /\ rbt' = rbt
    BY <1>10 DEF RunProcess
  <2>1. ts + 1 - arrival_time[index] - burst_time[index] \in Nat
    <3>1. /\ waited[index] \in Nat /\ arrival_time[index] \in Nat /\ rem_time[index] = 1
          /\ burst_time[index] \in Nat /\ ts \in Nat
      BY <1>0, <1>1, <1>2, <1>10
    <3>2. waited[index] = ts + 1 - arrival_time[index] - burst_time[index]
      BY <1>7, <3>1
    <3> QED
      BY <3>1, <3>2
  <2>2. Typed'
    <3>1. wait_time' \in [Procs -> Nat \cup {-1}]
      BY <1>0, <2>0, <2>1
    <3>2. ts' \in Nat /\ phase' \in {"admit", "pick", "run", "end"}
      BY <1>0
    <3>3. TypeOK'
      BY <1>2, <2>0, <3>1, <3>2 DEF Inv, Typed, TypeOK
    <3> QED
      BY <1>0, <1>5, <3>3 DEF Inv, Typed, NicesTyped
  <2>3. InTree'
    <3>1. \A q \in Procs : q # None
      BY CfsAssumption DEF Procs, None
    <3>2. \A q \in Procs : q \in Elems(rbt) <=> Admitted(q) /\ rem_time'[q] > 0
      BY <1>1, <1>2, <1>8, <1>10
    <3> QED
      BY <1>0, <1>3, <2>0, <3>1, <3>2 DEF InTree
  <2>4. ASSUME NEW q \in Procs PROVE Charged(q)'
    <3>1. CASE q = index
      BY <1>10, <3>1 DEF Charged
    <3>2. CASE q # index
      <4>1. rem_time'[q] = rem_time[q] /\ Rate(q)' = Rate(q) /\ Charged(q) /\ q # None
        BY <1>2, <1>6, <3>2, CfsAssumption DEF Inv, Procs, None
      <4> QED
        BY <1>0, <2>0, <3>2, <4>1 DEF Charged
    <3> QED
      BY <3>1, <3>2
  <2> QED
    BY <1>0, <1>9, <2>0, <2>2, <2>3, <2>4 DEF Inv
<1>11. CASE rem_time'[index] # 0 /\ tsl - 1 <= 0
  <2>0. /\ vrt' = [vrt EXCEPT ![index] = Charge(art + 1)]
        /\ rbt' = InsertByVrt(rbt, vrt', index)
        /\ index' = None /\ tsl' = 0 /\ art' = 0 /\ min_vrt' = 0 /\ wait_time' = wait_time
    BY <1>11 DEF RunProcess, Requeued
  <2>1. /\ Charge(art + 1) \in Nat
        /\ Charge(art + 1) = start[index] + Rate(index) * (burst_time[index] - rem_time'[index])
    <3> DEFINE b == burst_time[index] - rem_time[index]
               a == art + 1
    <3>1. /\ b \in Int /\ a \in Nat /\ b - art + a = burst_time[index] - rem_time'[index]
          /\ Charge(art + 1) = vrt[index] + a * Rate(index)
      <4>1. Charge(art + 1) = vrt[index] + a * Rate(index)
        BY DEF Charge, Rate
      <4>2. /\ art \in Nat /\ burst_time[index] \in Nat /\ rem_time[index] \in Nat
            /\ rem_time'[index] = rem_time[index] - 1
        BY <1>0, <1>1, <1>2
      <4> QED
        BY <4>1, <4>2
    <3>2. vrt[index] = start[index] + Rate(index) * (b - art)
      BY <1>1
    <3> HIDE DEF a, b
    <3>3. /\ vrt[index] + a * Rate(index) \in Nat
          /\ vrt[index] + a * Rate(index) = start[index] + Rate(index) * (b - art + a)
      <4>1. /\ vrt[index] \in Nat /\ start[index] \in Nat /\ Rate(index) \in Nat /\ art \in Int
        BY <1>0, <1>1
      <4> QED
        BY <3>1, <3>2, <4>1, ChargeAdds
    <3> QED
      BY <3>1, <3>3
  <2>2. /\ vrt' \in [Procs -> Nat] /\ vrt'[index] = Charge(art + 1)
        /\ \A q \in Procs \ {index} : vrt'[q] = vrt[q]
        /\ IsTree(rbt', vrt')
        /\ Elems(rbt') = Elems(rbt) \cup {index}
    BY <1>0, <1>1, <2>0, <2>1, GoesBack
  <2>3. Typed'
    <3>1. rbt' \in Seq(Procs)
      BY <2>2 DEF IsTree
    <3> QED
      BY <1>0, <1>2, <1>5, <2>0, <2>2, <3>1 DEF Inv, Typed, TypeOK, NicesTyped
  <2>4. InTree'
    <3>1. \A q \in Procs : q # None
      BY CfsAssumption DEF Procs, None
    <3>2. rem_time'[index] > 0
      BY <1>1, <1>2, <1>11
    <3>3. \A q \in Procs : q \in Elems(rbt') <=> Admitted(q) /\ rem_time'[q] > 0
      BY <1>1, <1>2, <1>4, <1>8, <2>2, <3>2
    <3> QED
      BY <1>0, <1>3, <2>0, <3>1, <3>3 DEF InTree
  <2>5. ASSUME NEW q \in Procs PROVE Charged(q)'
    <3>0. q # None
      BY CfsAssumption DEF Procs, None
    <3>1. CASE q = index
      <4>1. /\ burst_time[q] - rem_time'[q] - 0 = burst_time[q] - rem_time'[q]
            /\ Rate(q)' = Rate(q)
        BY <1>1, <1>2, <1>6, <3>1
      <4> QED
        BY <1>0, <2>0, <2>1, <2>2, <3>0, <3>1, <4>1 DEF Charged
    <3>2. CASE q # index
      <4>1. rem_time'[q] = rem_time[q] /\ Rate(q)' = Rate(q) /\ Charged(q) /\ vrt'[q] = vrt[q]
        BY <1>2, <1>6, <2>2, <3>2 DEF Inv
      <4> QED
        BY <1>0, <2>0, <3>0, <3>2, <4>1 DEF Charged
    <3> QED
      BY <3>1, <3>2
  <2> QED
    BY <1>9, <2>2, <2>3, <2>4, <2>5 DEF Inv
<1>12. CASE rem_time'[index] # 0 /\ ~(tsl - 1 <= 0)
  <2>0. /\ tsl' = tsl - 1 /\ art' = art + 1
        /\ UNCHANGED <<wait_time, vrt, rbt, index, min_vrt>>
    BY <1>12 DEF RunProcess
  <2>1. tsl - 1 \in Nat
    BY <1>0, <1>12
  <2>2. Typed'
    BY <1>0, <1>2, <1>5, <2>0, <2>1 DEF Inv, Typed, TypeOK, NicesTyped
  <2>3. InTree'
    <3>1. rem_time'[index] > 0
      BY <1>1, <1>2, <1>12
    <3>2. \A q \in Procs : q \in Elems(rbt) <=> Admitted(q) /\ rem_time'[q] > 0 /\ q # index
      BY <1>1, <1>2, <1>8
    <3> QED
      BY <1>0, <1>1, <1>3, <1>4, <2>0, <3>1, <3>2 DEF InTree
  <2>4. ASSUME NEW q \in Procs PROVE Charged(q)'
    <3>1. CASE q = index
      <4>1. /\ burst_time[q] - rem_time'[q] - art' = burst_time[q] - rem_time[q] - art
            /\ Rate(q)' = Rate(q)
        BY <1>0, <1>1, <1>2, <1>6, <2>0, <3>1
      <4> QED
        BY <1>0, <1>1, <2>0, <3>1, <4>1 DEF Charged
    <3>2. CASE q # index
      <4>1. rem_time'[q] = rem_time[q] /\ Rate(q)' = Rate(q) /\ Charged(q)
        BY <1>2, <1>6, <3>2 DEF Inv
      <4> QED
        BY <1>0, <2>0, <3>2, <4>1 DEF Charged
    <3> QED
      BY <3>1, <3>2
  <2> QED
    BY <1>0, <1>9, <2>0, <2>2, <2>3, <2>4 DEF Inv
<1> QED
  BY <1>10, <1>11, <1>12

(* Nothing changes. *)
LEMMA InvStutter == Inv /\ UNCHANGED vars => Inv'
<1> SUFFICES ASSUME Inv, UNCHANGED vars PROVE Inv'
  OBVIOUS
<1>0. /\ UNCHANGED <<arrival_time, burst_time, nyc, rem_time, wait_time, vrt, ts, waited, start>>
      /\ UNCHANGED <<rbt, index, tsl, art, min_vrt, phase>>
  BY DEF vars, job, cpu
<1>1. \A q \in Procs : Admitted(q)' <=> Admitted(q)
  BY <1>0 DEF Admitted
<1>2. Typed' /\ IsTree(rbt', vrt')
  BY <1>0 DEF Inv, Typed, TypeOK, NicesTyped
<1>3. index # None => index \in Procs
  BY DEF Inv, Typed, TypeOK
<1>4. InTree' /\ Accounts'
  BY <1>0, <1>1, <1>3 DEF Inv, InTree, Accounts
<1>5. \A p \in Procs : Charged(p)'
  BY <1>0 DEF Inv, Charged, Rate
<1> QED
  BY <1>2, <1>4, <1>5 DEF Inv

(* The invariant holds in every state of every run. *)
LEMMA Invariant == Spec => []Inv
<1>1. Inv /\ [Next]_vars => Inv'
  BY InvAdmit, InvPickLeftmost, InvPreempt, InvContinue, InvRunIdle, InvRunProcess, InvStutter DEF Next
<1> QED
  BY InvInit, <1>1, PTL DEF Spec

-----------------------------------------------------------------------------
(* The theorems. *)

(* The tree agrees with the process table at all times, whichever of the three *)
(* inserts of linux_sched (a newcomer, a process preempted, a process whose     *)
(* slice is over) put a process there: no key is changed under it, so that the  *)
(* leftmost is always one of least virtual run time.                            *)
THEOREM TheTreeStaysInOrder == Spec => []TreeConsistent
  BY Invariant, InvGivesProperties, PTL

(* Every process has been charged its own rate for each unit of time that it    *)
(* ran up to its last turn, once, whichever way that turn ended.                *)
THEOREM ChargesBalance == Spec => []ChargedForTimeRun
  BY Invariant, InvGivesProperties, PTL

(* The simulation is one of a processor that always works when there is somebody *)
(* to serve, and the waits that it reports are those that the processes had.      *)
THEOREM AWorkConservingProcessor == Spec => ImplementsUniProcessor
<1>1. Init => Cpu!Init
  BY CfsAssumption DEF Init, Cpu!Init
<1>2. ASSUME Inv, phase = "run" PROVE Cpu!Ready = {p \in Procs : Admitted(p) /\ rem_time[p] > 0}
  BY <1>2 DEF Inv, Typed, TypeOK, Cpu!Ready, Admitted
<1>3. ASSUME Inv, RunIdle PROVE Cpu!Idle
  <2>1. rbt = <<>> /\ phase = "run" /\ index = None
    BY <1>3 DEF RunIdle, Inv, InTree
  <2>2. Len(rbt) = 0
    BY <2>1
  <2>3. Elems(rbt) = {}
    BY <2>2 DEF Elems
  <2>4. \A p \in Procs : p # index
    BY <2>1, CfsAssumption DEF Procs, None
  <2>5. \A p \in Procs : ~(Admitted(p) /\ rem_time[p] > 0)
    BY <1>3, <2>3, <2>4 DEF Inv, InTree
  <2> QED
    BY <1>2, <1>3, <2>1, <2>5 DEF RunIdle, Cpu!Idle, job
<1>4. ASSUME Inv, RunProcess PROVE index \in Procs /\ Cpu!Run(index)
  <2>0. phase = "run" /\ index # None /\ index \in Procs /\ rem_time[index] \in Nat \ {0}
        /\ index \notin Elems(rbt) /\ Elems(rbt) \subseteq Procs
    BY <1>4, Running DEF RunProcess
  <2>1. Cpu!Ready = {p \in Procs : Admitted(p) /\ rem_time[p] > 0}
    BY <1>2, <1>4, <2>0
  <2>2. index \in Cpu!Ready /\ Admitted(index)
    BY <1>4, <2>0, <2>1 DEF Inv, InTree
  <2>3. Cpu!Ready \ {index} = Enqueued
    <3>1. DOMAIN rbt = 1 .. Len(rbt)
      BY <1>4, TreeTyped DEF Inv
    <3>2. Enqueued = Elems(rbt)
      BY <3>1 DEF Enqueued, Elems
    <3> QED
      BY <1>4, <2>0, <2>1, <3>2 DEF Inv, InTree
  <2>4. /\ rem_time' = [rem_time EXCEPT ![index] = @ - 1]
        /\ waited' = [q \in Procs |-> IF q \in Cpu!Ready \ {index} THEN waited[q] + 1 ELSE waited[q]]
        /\ ts' = ts + 1 /\ UNCHANGED <<arrival_time, burst_time>>
    BY <1>4, <2>3 DEF RunProcess, job
  <2>5. wait_time' = [wait_time EXCEPT ![index] = IF rem_time[index] = 1 THEN waited[index] ELSE @]
    <3>0. rem_time \in [Procs -> Nat] /\ wait_time \in [Procs -> Nat \cup {-1}]
      BY <1>4 DEF Inv, Typed, TypeOK
    <3>1. rem_time'[index] = rem_time[index] - 1
      BY <2>0, <2>4, <3>0
    <3>2. CASE rem_time[index] = 1
      <4>1. wait_time' = [wait_time EXCEPT ![index] =
                            ts + 1 - arrival_time[index] - burst_time[index]]
        BY <1>4, <2>0, <3>1, <3>2 DEF RunProcess
      <4>2. /\ waited[index] = ts - arrival_time[index] - (burst_time[index] - rem_time[index])
            /\ ts \in Nat /\ arrival_time[index] \in Nat /\ burst_time[index] \in Nat
        BY <1>4, <2>0, <2>2 DEF Inv, Accounts, Typed, TypeOK
      <4>3. waited[index] = ts + 1 - arrival_time[index] - burst_time[index]
        BY <3>2, <4>2
      <4> QED
        BY <3>2, <4>1, <4>3
    <3>3. CASE rem_time[index] # 1
      <4>1. rem_time'[index] # 0
        BY <2>0, <3>1, <3>3
      <4>2. wait_time' = wait_time
        BY <1>4, <4>1 DEF RunProcess
      <4> QED
        BY <2>0, <3>0, <3>3, <4>2
    <3> QED
      BY <3>2, <3>3
  <2> QED
    BY <2>0, <2>2, <2>4, <2>5 DEF Cpu!Run
<1>5. ASSUME Admit \/ PickLeftmost \/ Preempt \/ Continue \/ UNCHANGED vars
      PROVE  UNCHANGED Cpu!vars
  BY <1>5 DEF Admit, PickLeftmost, Preempt, Continue, vars, Cpu!vars, job
<1>6. Inv /\ [Next]_vars => [Cpu!Next]_(Cpu!vars)
  <2> SUFFICES ASSUME Inv, [Next]_vars PROVE [Cpu!Next]_(Cpu!vars)
    OBVIOUS
  <2>1. CASE RunProcess
    BY <1>4, <2>1 DEF Cpu!Next
  <2>2. CASE RunIdle
    BY <1>3, <2>2 DEF Cpu!Next
  <2> QED
    BY <1>5, <2>1, <2>2 DEF Next
<1> QED
  BY <1>1, <1>6, Invariant, PTL DEF Spec, ImplementsUniProcessor, Cpu!Spec
=============================================================================
