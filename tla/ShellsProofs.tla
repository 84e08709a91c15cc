---------------------------- MODULE ShellsProofs ----------------------------
(***************************************************************************)
(* Proofs about Shells, for any directories, names, files and lines, and   *)
(* arrays of any size.                                                     *)
(***************************************************************************)
EXTENDS Shells, SequenceTheorems, WellFoundedInduction, TLAPS

-----------------------------------------------------------------------------
(* Sequences. *)

(* The least number principle. *)
LEMMA LeastNatural ==
  ASSUME NEW S \in SUBSET Nat, S # {}
  PROVE  \E n \in S : \A m \in S : n <= m
<1>1. \E x \in S : \A y \in S : ~(<<y, x>> \in OpToRel(<, Nat))
  BY NatLessThanWellFounded, WFMin, Zenon
<1>2. \A x, y \in S : <<y, x>> \in OpToRel(<, Nat) <=> y < x
  BY DEF OpToRel
<1>3. \E x \in S : \A y \in S : ~(y < x)
  BY <1>1, <1>2, Zenon
<1> QED
  BY <1>3

(* A sequence in which nothing is twice. *)
Once(s) == \A i, j \in 1 .. Len(s) : s[i] = s[j] => i = j

(* t begins with s, or has it at its beginning or its end; t has elements of s *)
(* only, in their order.                                                       *)
StartsWith(s, t) == Len(s) <= Len(t) /\ \A i \in 1 .. Len(s) : t[i] = s[i]
Grown(s, t) ==
  /\ Len(s) <= Len(t)
  /\ \E before \in {0, Len(t) - Len(s)} : \A i \in 1 .. Len(s) : t[before + i] = s[i]
Thinned(s, t) ==
  /\ \A i \in 1 .. Len(t) : \E k \in 1 .. Len(s) : t[i] = s[k]
  /\ \A i, j \in 1 .. Len(t) : i < j => \E k, l \in 1 .. Len(s) : k < l /\ t[i] = s[k] /\ t[j] = s[l]

(* Each holds of a sequence and itself, and two steps are one. *)
LEMMA SameOrMore ==
  ASSUME NEW S, NEW s \in Seq(S), NEW t \in Seq(S), NEW u \in Seq(S)
  PROVE  /\ StartsWith(s, s) /\ Thinned(s, s) /\ Grown(s, s)
         /\ StartsWith(s, t) => Grown(s, t)
         /\ StartsWith(s, t) /\ StartsWith(t, u) => StartsWith(s, u)
         /\ Thinned(s, t) /\ Thinned(t, u) => Thinned(s, u)
<1>1. Len(s) \in Nat /\ Len(t) \in Nat /\ Len(u) \in Nat
  BY LenProperties
<1>2. StartsWith(s, s) /\ Thinned(s, s)
  BY <1>1 DEF StartsWith, Thinned
<1>3. \A v \in Seq(S) : StartsWith(s, v) => Grown(s, v)
  <2> SUFFICES ASSUME NEW v \in Seq(S), StartsWith(s, v) PROVE Grown(s, v)
    OBVIOUS
  <2>1. \A i \in 1 .. Len(s) : v[0 + i] = s[i]
    BY <1>1 DEF StartsWith
  <2> QED
    BY <2>1 DEF StartsWith, Grown
<1>4. StartsWith(s, t) /\ StartsWith(t, u) => StartsWith(s, u)
  BY <1>1 DEF StartsWith
<1>5. ASSUME Thinned(s, t), Thinned(t, u) PROVE Thinned(s, u)
  <2>1. \A i \in 1 .. Len(u) : \E k \in 1 .. Len(s) : u[i] = s[k]
    BY <1>5 DEF Thinned
  <2>2. ASSUME NEW i \in 1 .. Len(u), NEW j \in 1 .. Len(u), i < j
        PROVE  \E k, l \in 1 .. Len(s) : k < l /\ u[i] = s[k] /\ u[j] = s[l]
    <3>1. PICK m \in 1 .. Len(t), n \in 1 .. Len(t) : m < n /\ u[i] = t[m] /\ u[j] = t[n]
      BY <1>5, <2>2 DEF Thinned
    <3>2. PICK k \in 1 .. Len(s), l \in 1 .. Len(s) : k < l /\ t[m] = s[k] /\ t[n] = s[l]
      BY <1>5, <3>1 DEF Thinned
    <3> QED
      BY <3>1, <3>2
  <2> QED
    BY <2>1, <2>2 DEF Thinned
<1> QED
  BY <1>2, <1>3, <1>4, <1>5

(* The elements of a sequence. *)
LEMMA Elements ==
  ASSUME NEW S, NEW s \in Seq(S)
  PROVE  /\ ToSet(s) = {s[i] : i \in 1 .. Len(s)}
         /\ ToSet(s) \subseteq S
         /\ \A e : Contains(s, e) <=> e \in ToSet(s)
<1>1. DOMAIN s = 1 .. Len(s) /\ \A i \in 1 .. Len(s) : s[i] \in S
  BY LenProperties, ElementOfSeq
<1> QED
  BY <1>1 DEF ToSet, Contains

(* What Append adds. *)
LEMMA AppendedElements ==
  ASSUME NEW S, NEW s \in Seq(S), NEW e \in S, Once(s), e \notin ToSet(s)
  PROVE  /\ Append(s, e) \in Seq(S)
         /\ Once(Append(s, e))
         /\ ToSet(Append(s, e)) = ToSet(s) \cup {e}
         /\ StartsWith(s, Append(s, e))
<1>1. /\ Append(s, e) \in Seq(S) /\ Len(s) \in Nat /\ Len(Append(s, e)) = Len(s) + 1
      /\ \A i \in 1 .. Len(s) : Append(s, e)[i] = s[i]
      /\ Append(s, e)[Len(s) + 1] = e
  BY AppendProperties, LenProperties
<1>2. 1 .. Len(s) + 1 = (1 .. Len(s)) \cup {Len(s) + 1}
  BY <1>1
<1>3. ToSet(s) = {s[i] : i \in 1 .. Len(s)}
  BY Elements
<1>4. ToSet(Append(s, e)) = {Append(s, e)[i] : i \in 1 .. Len(s) + 1}
  BY <1>1, Elements
<1>5. ToSet(Append(s, e)) = ToSet(s) \cup {e}
  BY <1>1, <1>2, <1>3, <1>4
<1>6. Once(Append(s, e))
  BY <1>1, <1>2, <1>3 DEF Once
<1>7. StartsWith(s, Append(s, e))
  BY <1>1 DEF StartsWith
<1> QED
  BY <1>1, <1>5, <1>6, <1>7

(* A sequence with an element before it. *)
LEMMA Prepended ==
  ASSUME NEW S, NEW s \in Seq(S), NEW e \in S
  PROVE  /\ <<e>> \o s \in Seq(S) /\ Len(<<e>> \o s) = Len(s) + 1
         /\ \A i \in 1 .. Len(s) + 1 : (<<e>> \o s)[i] = IF i <= 1 THEN e ELSE s[i - 1]
<1> DEFINE t == <<e>> \o s
<1>1. <<e>> \in Seq(S) /\ Len(<<e>>) = 1 /\ <<e>>[1] = e
  OBVIOUS
<1>2. /\ t \in Seq(S) /\ Len(t) = Len(<<e>>) + Len(s)
      /\ \A i \in 1 .. Len(<<e>>) + Len(s) :
           t[i] = IF i <= Len(<<e>>) THEN <<e>>[i] ELSE s[i - Len(<<e>>)]
  BY <1>1, ConcatProperties
<1>3. Len(s) \in Nat
  BY LenProperties
<1> HIDE DEF t
<1>4. ASSUME NEW i \in 1 .. Len(s) + 1 PROVE t[i] = IF i <= 1 THEN e ELSE s[i - 1]
  BY <1>1, <1>2, <1>3
<1> QED
  BY <1>1, <1>2, <1>3, <1>4 DEF t

(* What is added in front. *)
LEMMA PrependedElements ==
  ASSUME NEW S, NEW s \in Seq(S), NEW e \in S
  PROVE  /\ <<e>> \o s \in Seq(S)
         /\ ToSet(<<e>> \o s) = {e} \cup ToSet(s)
         /\ Once(s) /\ e \notin ToSet(s) => Once(<<e>> \o s)
         /\ Grown(s, <<e>> \o s)
<1> DEFINE t == <<e>> \o s
<1>1. /\ t \in Seq(S) /\ Len(s) \in Nat /\ Len(t) = Len(s) + 1
      /\ \A i \in 1 .. Len(s) + 1 : t[i] = IF i <= 1 THEN e ELSE s[i - 1]
  BY Prepended, LenProperties
<1>2. t[1] = e /\ \A i \in 1 .. Len(s) : t[i + 1] = s[i]
  <2> HIDE DEF t
  <2> QED
    BY <1>1
<1>3. ToSet(s) = {s[i] : i \in 1 .. Len(s)} /\ ToSet(t) = {t[i] : i \in 1 .. Len(s) + 1}
  <2> HIDE DEF t
  <2>1. ToSet(s) = {s[i] : i \in 1 .. Len(s)}
    BY Elements
  <2>2. ToSet(t) = {t[i] : i \in 1 .. Len(t)}
    BY <1>1, Elements
  <2> QED
    BY <1>1, <2>1, <2>2
<1>4. ToSet(t) = {e} \cup ToSet(s)
  <2> HIDE DEF t
  <2>1. \A x : x \in ToSet(t) => x \in {e} \cup ToSet(s)
    <3> SUFFICES ASSUME NEW i \in 1 .. Len(s) + 1 PROVE t[i] \in {e} \cup ToSet(s)
      BY <1>3
    <3>1. i = 1 \/ i - 1 \in 1 .. Len(s)
      BY <1>1
    <3> QED
      BY <3>1, <1>1, <1>3
  <2>2. e \in ToSet(t)
    BY <1>1, <1>2, <1>3
  <2>3. \A i \in 1 .. Len(s) : s[i] \in ToSet(t)
    <3>1. \A i \in 1 .. Len(s) : i + 1 \in 1 .. Len(s) + 1
      BY <1>1
    <3> QED
      BY <1>2, <1>3, <3>1
  <2> QED
    BY <1>3, <2>1, <2>2, <2>3
<1>5. ASSUME Once(s), e \notin ToSet(s) PROVE Once(t)
  <2> HIDE DEF t
  <2> SUFFICES ASSUME NEW i \in 1 .. Len(s) + 1, NEW j \in 1 .. Len(s) + 1, t[i] = t[j] PROVE i = j
    BY <1>1 DEF Once
  <2>1. /\ i = 1 \/ (~(i <= 1) /\ i - 1 \in 1 .. Len(s))
        /\ j = 1 \/ (~(j <= 1) /\ j - 1 \in 1 .. Len(s))
    BY <1>1
  <2>2. \A n \in 1 .. Len(s) : s[n] # e
    BY <1>3, <1>5
  <2>3. CASE i = 1 \/ j = 1
    <3>1. \A m \in 1 .. Len(s) + 1 : ~(m <= 1) /\ m - 1 \in 1 .. Len(s) => t[m] # e
      BY <1>1, <2>2
    <3>2. t[1] = e
      BY <1>2
    <3>3. t[i] = e /\ t[j] = e
      BY <2>3, <3>2
    <3> QED
      BY <2>1, <3>1, <3>3
  <2>4. CASE i # 1 /\ j # 1
    <3>1. s[i - 1] = s[j - 1]
      BY <1>1, <2>1, <2>4
    <3>2. i - 1 = j - 1
      BY <1>5, <2>1, <2>4, <3>1 DEF Once
    <3> QED
      BY <3>2
  <2> QED
    BY <2>3, <2>4
<1>6. Grown(s, t)
  <2> HIDE DEF t
  <2>1. Len(s) <= Len(t) /\ Len(t) - Len(s) = 1 /\ \A i \in 1 .. Len(s) : 1 + i = i + 1
    BY <1>1
  <2>2. \A i \in 1 .. Len(s) : t[1 + i] = s[i]
    BY <1>2, <2>1
  <2> QED
    BY <2>1, <2>2 DEF Grown
<1> QED
  BY <1>1, <1>4, <1>5, <1>6

(* RemoveFirst takes one place out of the sequence. *)
LEMMA RemovedElements ==
  ASSUME NEW S, NEW s \in Seq(S), NEW e, Once(s)
  PROVE  /\ RemoveFirst(s, e) \in Seq(S)
         /\ Once(RemoveFirst(s, e))
         /\ ToSet(RemoveFirst(s, e)) = ToSet(s) \ {e}
         /\ Thinned(s, RemoveFirst(s, e))
<1>0. /\ Len(s) \in Nat /\ ToSet(s) = {s[i] : i \in 1 .. Len(s)}
      /\ \A i \in 1 .. Len(s) : s[i] \in S
  BY LenProperties, Elements, ElementOfSeq
<1>1. CASE ~\E i \in 1 .. Len(s) : s[i] = e
  <2>1. RemoveFirst(s, e) = s
    BY <1>1 DEF RemoveFirst
  <2> QED
    BY <1>0, <1>1, <2>1, SameOrMore
<1>2. CASE \E i \in 1 .. Len(s) : s[i] = e
  <2>1. PICK k \in 1 .. Len(s) : s[k] = e
    BY <1>2
  <2>2. {i \in 1 .. Len(s) : s[i] = e} = {k}
    BY <2>1 DEF Once
  <2>3. SelectInSeq(s, LAMBDA v : v = e) = k
    <3>1. Min({k}) = k
      BY <1>0 DEF Min
    <3> QED
      BY <2>2, <3>1 DEF SelectInSeq
  <2>4. RemoveFirst(s, e) = RemoveAt(s, k)
    BY <1>2, <2>3 DEF RemoveFirst
  <2> DEFINE a == SubSeq(s, 1, k - 1)
             b == SubSeq(s, k + 1, Len(s))
             t == a \o b
  <2>5. /\ a \in Seq(S) /\ Len(a) = k - 1
        /\ \A i \in 1 .. k - 1 : a[i] = s[i]
    <3>1. k - 1 \in Int /\ 1 \in Int /\ \A i \in 1 .. k - 1 : s[i] \in S
      BY <1>0
    <3>2. /\ a \in Seq(S) /\ Len(a) = IF 1 <= k - 1 THEN (k - 1) - 1 + 1 ELSE 0
          /\ \A i \in 1 .. (k - 1) - 1 + 1 : a[i] = s[1 + i - 1]
      BY <3>1, SubSeqProperties
    <3> HIDE DEF a
    <3>3. Len(a) = k - 1
      BY <1>0, <3>2
    <3>4. \A i \in 1 .. k - 1 : a[i] = s[i]
      BY <1>0, <3>2
    <3> QED
      BY <3>2, <3>3, <3>4
  <2>6. /\ b \in Seq(S) /\ Len(b) = Len(s) - k
        /\ \A i \in 1 .. Len(s) - k : b[i] = s[k + i]
    <3>1. k + 1 \in Int /\ Len(s) \in Int /\ \A i \in k + 1 .. Len(s) : s[i] \in S
      BY <1>0
    <3>2. /\ b \in Seq(S) /\ Len(b) = IF k + 1 <= Len(s) THEN Len(s) - (k + 1) + 1 ELSE 0
          /\ \A i \in 1 .. Len(s) - (k + 1) + 1 : b[i] = s[k + 1 + i - 1]
      BY <3>1, SubSeqProperties
    <3> HIDE DEF b
    <3>3. Len(b) = Len(s) - k
      BY <1>0, <3>2
    <3>4. \A i \in 1 .. Len(s) - k : b[i] = s[k + i]
      <4>1. \A i \in 1 .. Len(s) - k : i \in 1 .. Len(s) - (k + 1) + 1 /\ k + 1 + i - 1 = k + i
        BY <1>0
      <4> QED
        BY <3>2, <4>1
    <3> QED
      BY <3>2, <3>3, <3>4
  <2>7. /\ t \in Seq(S) /\ Len(t) = Len(s) - 1
        /\ \A i \in 1 .. Len(s) - 1 : t[i] = IF i < k THEN s[i] ELSE s[i + 1]
    <3>1. /\ t \in Seq(S) /\ Len(t) = Len(a) + Len(b)
          /\ \A i \in 1 .. Len(a) + Len(b) : t[i] = IF i <= Len(a) THEN a[i] ELSE b[i - Len(a)]
      BY <2>5, <2>6, ConcatProperties
    <3> HIDE DEF a, b, t
    <3>2. Len(t) = Len(s) - 1
      BY <1>0, <2>5, <2>6, <3>1
    <3>3. ASSUME NEW i \in 1 .. Len(s) - 1 PROVE t[i] = IF i < k THEN s[i] ELSE s[i + 1]
      <4>1. i \in 1 .. Len(a) + Len(b)
        BY <1>0, <2>5, <2>6
      <4>2. CASE i < k
        <5>1. i <= Len(a) /\ i \in 1 .. k - 1
          BY <1>0, <2>5, <4>2
        <5> QED
          BY <4>1, <4>2, <5>1, <3>1, <2>5
      <4>3. CASE ~(i < k)
        <5>1. ~(i <= Len(a)) /\ i - Len(a) = i - k + 1 /\ i - k + 1 \in 1 .. Len(s) - k
              /\ k + (i - k + 1) = i + 1
          BY <1>0, <2>5, <4>3
        <5> QED
          BY <4>1, <4>3, <5>1, <3>1, <2>6
      <4> QED
        BY <4>2, <4>3
    <3> QED
      BY <3>1, <3>2, <3>3
  <2>8. RemoveFirst(s, e) = t
    BY <2>4 DEF RemoveAt
  <2> HIDE DEF t, a, b
  <2>9. Once(t)
    <3> SUFFICES ASSUME NEW i \in 1 .. Len(s) - 1, NEW j \in 1 .. Len(s) - 1, t[i] = t[j] PROVE i = j
      BY <2>7 DEF Once
    <3>1. /\ i \in 1 .. Len(s) /\ i + 1 \in 1 .. Len(s)
          /\ j \in 1 .. Len(s) /\ j + 1 \in 1 .. Len(s)
      BY <1>0
    <3>2. \E m \in {i, i + 1}, n \in {j, j + 1} :
            /\ t[i] = s[m] /\ t[j] = s[n]
            /\ m = IF i < k THEN i ELSE i + 1
            /\ n = IF j < k THEN j ELSE j + 1
      BY <2>7
    <3>3. (IF i < k THEN i ELSE i + 1) = (IF j < k THEN j ELSE j + 1)
      BY <3>1, <3>2 DEF Once
    <3> QED
      BY <1>0, <3>3
  <2>10. ToSet(t) = {t[i] : i \in 1 .. Len(s) - 1}
    BY <2>7, Elements
  <2>11. \A x : x \in ToSet(t) => x \in ToSet(s) \ {e}
    <3> SUFFICES ASSUME NEW i \in 1 .. Len(s) - 1 PROVE t[i] \in ToSet(s) \ {e}
      BY <2>10
    <3>1. i \in 1 .. Len(s) /\ i + 1 \in 1 .. Len(s)
      BY <1>0
    <3> QED
      BY <1>0, <2>1, <2>7, <3>1 DEF Once
  <2>12. \A x : x \in ToSet(s) \ {e} => x \in ToSet(t)
    <3> SUFFICES ASSUME NEW i \in 1 .. Len(s), s[i] # e PROVE s[i] \in ToSet(t)
      BY <1>0
    <3>1. CASE i < k
      <4>1. i \in 1 .. Len(s) - 1 /\ t[i] = s[i]
        BY <1>0, <2>7, <3>1
      <4> QED
        BY <2>10, <4>1
    <3>2. CASE i > k
      <4>1. i - 1 \in 1 .. Len(s) - 1 /\ t[i - 1] = s[i]
        BY <1>0, <2>7, <3>2
      <4> QED
        BY <2>10, <4>1
    <3> QED
      BY <1>0, <2>1, <3>1, <3>2
  <2>13. Thinned(s, t)
    <3> DEFINE Place(i) == IF i < k THEN i ELSE i + 1
    <3>1. \A i \in 1 .. Len(s) - 1 : Place(i) \in 1 .. Len(s) /\ t[i] = s[Place(i)]
      BY <1>0, <2>7
    <3>2. \A i, j \in 1 .. Len(s) - 1 : i < j => Place(i) < Place(j)
      BY <1>0
    <3> HIDE DEF Place
    <3> QED
      BY <2>7, <3>1, <3>2 DEF Thinned
  <2> QED
    BY <2>7, <2>8, <2>9, <2>11, <2>12, <2>13
<1> QED
  BY <1>1, <1>2

(* SelectInSeq finds the first element if there is one. *)
LEMMA FoundElement ==
  ASSUME NEW S, NEW s \in Seq(S), NEW T,
         SelectInSeq(s, LAMBDA p : p \in T) # 0
  PROVE  /\ SelectInSeq(s, LAMBDA p : p \in T) \in 1 .. Len(s)
         /\ s[SelectInSeq(s, LAMBDA p : p \in T)] \in T
         /\ \A k \in 1 .. SelectInSeq(s, LAMBDA p : p \in T) - 1 : s[k] \notin T
<1> DEFINE I == {i \in 1 .. Len(s) : s[i] \in T}
<1>1. I # {} /\ SelectInSeq(s, LAMBDA p : p \in T) = Min(I)
  BY DEF SelectInSeq
<1>2. I \in SUBSET Nat
  BY LenProperties
<1>3. \E n \in I : \A m \in I : n <= m
  <2> HIDE DEF I
  <2> QED
    BY <1>1, <1>2, LeastNatural
<1>4. Min(I) \in I /\ \A m \in I : Min(I) <= m
  <2> HIDE DEF I
  <2> QED
    BY <1>3 DEF Min
<1>5. Len(s) \in Nat
  BY LenProperties
<1>6. ASSUME NEW k \in 1 .. Min(I) - 1 PROVE s[k] \notin T
  <2>1. k \in 1 .. Len(s) /\ ~(Min(I) <= k)
    BY <1>4, <1>5
  <2> QED
    BY <1>4, <2>1
<1> QED
  BY <1>1, <1>4, <1>6

(* The order of a sequence turned round. *)
LEMMA Reversed ==
  ASSUME NEW S, NEW s \in Seq(S)
  PROVE  /\ Reverse(s) \in Seq(S) /\ Len(Reverse(s)) = Len(s)
         /\ \A i \in 1 .. Len(s) : Reverse(s)[i] = s[Len(s) - i + 1]
<1>1. Len(s) \in Nat
  BY LenProperties
<1>2. ASSUME NEW i \in 1 .. Len(s) PROVE s[(Len(s) - i) + 1] \in S
  <2>1. (Len(s) - i) + 1 \in 1 .. Len(s)
    BY <1>1
  <2> QED
    BY <2>1, ElementOfSeq
<1>3. Reverse(s) \in [1 .. Len(s) -> S]
  BY <1>2 DEF Reverse
<1>4. Reverse(s) \in Seq(S)
  BY <1>1, <1>3, SeqDef
<1>5. Len(Reverse(s)) = Len(s)
  <2>1. DOMAIN Reverse(s) = 1 .. Len(Reverse(s)) /\ Len(Reverse(s)) \in Nat
    BY <1>4, LenProperties
  <2>2. DOMAIN Reverse(s) = 1 .. Len(s)
    BY <1>3
  <2> QED
    BY <1>1, <2>1, <2>2
<1> QED
  BY <1>4, <1>5 DEF Reverse

(* What is appended comes first when the sequence is turned round. *)
LEMMA ReversedAppend ==
  ASSUME NEW S, NEW s \in Seq(S), NEW e \in S
  PROVE  Reverse(Append(s, e)) = <<e>> \o Reverse(s)
<1> DEFINE a == Reverse(Append(s, e))
           b == <<e>> \o Reverse(s)
<1>0. Len(s) \in Nat
  BY LenProperties
<1>1. /\ Append(s, e) \in Seq(S) /\ Len(Append(s, e)) = Len(s) + 1
      /\ \A i \in 1 .. Len(s) : Append(s, e)[i] = s[i]
      /\ Append(s, e)[Len(s) + 1] = e
  BY AppendProperties
<1>2. /\ a \in Seq(S) /\ Len(a) = Len(s) + 1
      /\ \A i \in 1 .. Len(s) + 1 : a[i] = Append(s, e)[(Len(s) + 1) - i + 1]
  <2>1. \A r \in Seq(S) :
          /\ Reverse(r) \in Seq(S) /\ Len(Reverse(r)) = Len(r)
          /\ \A i \in 1 .. Len(r) : Reverse(r)[i] = r[Len(r) - i + 1]
    BY Reversed
  <2> DEFINE r == Append(s, e)
  <2>2. a = Reverse(r) /\ r \in Seq(S) /\ Len(r) = Len(s) + 1
    BY <1>1
  <2> HIDE DEF r, a
  <2>3. /\ a \in Seq(S) /\ Len(a) = Len(s) + 1
        /\ \A i \in 1 .. Len(s) + 1 : a[i] = r[(Len(s) + 1) - i + 1]
    BY <2>1, <2>2
  <2> QED
    BY <2>3 DEF r
<1>3. /\ Reverse(s) \in Seq(S) /\ Len(Reverse(s)) = Len(s)
      /\ \A i \in 1 .. Len(s) : Reverse(s)[i] = s[Len(s) - i + 1]
  BY Reversed
<1>4. /\ b \in Seq(S) /\ Len(b) = Len(s) + 1
      /\ \A i \in 1 .. Len(s) + 1 : b[i] = IF i <= 1 THEN e ELSE Reverse(s)[i - 1]
  BY <1>3, Prepended
<1> HIDE DEF a, b
<1>5. ASSUME NEW i \in 1 .. Len(s) + 1 PROVE a[i] = b[i]
  <2>1. CASE i = 1
    <3>1. (Len(s) + 1) - i + 1 = Len(s) + 1
      BY <1>0, <2>1
    <3> QED
      BY <1>1, <1>2, <1>4, <2>1, <3>1
  <2>2. CASE i # 1
    <3>1. /\ i - 1 \in 1 .. Len(s) /\ ~(i <= 1)
          /\ (Len(s) + 1) - i + 1 = Len(s) - (i - 1) + 1
          /\ Len(s) - (i - 1) + 1 \in 1 .. Len(s)
      BY <1>0, <2>2
    <3> QED
      BY <1>1, <1>2, <1>3, <1>4, <3>1
  <2> QED
    BY <2>1, <2>2
<1>6. a = b
  BY <1>2, <1>4, <1>5, SeqEqual
<1> QED
  BY <1>6 DEF a, b

(* The last element comes first when the sequence is turned round. *)
LEMMA ReversedFront ==
  ASSUME NEW S, NEW s \in Seq(S), s # <<>>
  PROVE  /\ Reverse(s) # <<>> /\ Head(Reverse(s)) = Last(s)
         /\ Tail(Reverse(s)) = Reverse(Front(s))
         /\ Front(s) \in Seq(S) /\ Last(s) \in S
<1>1. PICK r \in Seq(S), e \in S : s = Append(r, e)
  BY SequenceEmptyOrAppend
<1>2. /\ Len(r) \in Nat /\ Len(s) = Len(r) + 1
      /\ \A i \in 1 .. Len(r) : s[i] = r[i]
      /\ s[Len(r) + 1] = e
  BY <1>1, AppendProperties, LenProperties
<1>3. Front(s) = r
  <2>1. /\ Front(s) \in Seq(S)
        /\ Len(Front(s)) = IF 1 <= Len(s) - 1 THEN Len(s) - 1 - 1 + 1 ELSE 0
        /\ \A i \in 1 .. Len(s) - 1 - 1 + 1 : Front(s)[i] = s[1 + i - 1]
    <3>1. 1 \in Int /\ Len(s) - 1 \in Int /\ \A i \in 1 .. Len(s) - 1 : s[i] \in S
      BY <1>2, ElementOfSeq
    <3> QED
      BY <3>1, SubSeqProperties DEF Front
  <2>2. Len(Front(s)) = Len(r)
    BY <1>2, <2>1
  <2>3. \A i \in 1 .. Len(r) : Front(s)[i] = r[i]
    <3>1. \A i \in 1 .. Len(r) : i \in 1 .. Len(s) - 1 - 1 + 1 /\ 1 + i - 1 = i
      BY <1>2
    <3> QED
      BY <1>2, <2>1, <3>1
  <2> QED
    BY <2>1, <2>2, <2>3, SeqEqual
<1>4. Last(s) = e
  BY <1>2 DEF Last
<1>5. Reverse(s) = <<e>> \o Reverse(r) /\ Reverse(r) \in Seq(S)
  BY <1>1, ReversedAppend, Reversed
<1>6. \A q \in Seq(S) : <<e>> \o q # <<>> /\ Head(<<e>> \o q) = e /\ Tail(<<e>> \o q) = q
  OBVIOUS
<1> QED
  BY <1>3, <1>4, <1>5, <1>6

-----------------------------------------------------------------------------
(* Loops. *)

(* What holds at the beginning and is kept by each pass holds after n passes. *)
LEMMA Passes ==
  ASSUME NEW n \in Nat, NEW T, 0 \in T, \A k \in 0 .. n - 1 : k \in T => k + 1 \in T
  PROVE  \A k \in 0 .. n : k \in T
<1> DEFINE Bad == {k \in 0 .. n : k \notin T}
<1> SUFFICES ASSUME Bad # {} PROVE FALSE
  OBVIOUS
<1>1. Bad \in SUBSET Nat
  OBVIOUS
<1>2. PICK k \in Bad : \A m \in Bad : k <= m
  <2> HIDE DEF Bad
  <2> QED
    BY <1>1, LeastNatural
<1>3. k \in 0 .. n /\ k \notin T /\ k # 0
  OBVIOUS
<1>4. k - 1 \in 0 .. n - 1 /\ k - 1 + 1 = k /\ ~(k <= k - 1)
  BY <1>3
<1>5. k - 1 \notin Bad
  <2> HIDE DEF Bad
  <2> QED
    BY <1>2, <1>4
<1>6. k - 1 \in T
  BY <1>4, <1>5
<1> QED
  BY <1>3, <1>4, <1>6

(* A loop that begins with base and makes n passes, each of which leads from one *)
(* element of S to another: pass k does body[k].                                 *)
IsLoop(S, base, n, body) == base \in S /\ n \in Nat /\ body \in [1 .. n -> [S -> S]]
AreItsValues(f, S, base, n, body) ==
  f \in [0 .. n -> S] /\ f[0] = base /\ \A k \in 1 .. n : f[k] = body[k][f[k - 1]]

(* There are such values. *)
LEMMA LoopHasValues ==
  ASSUME NEW S, NEW base, NEW n, NEW body, IsLoop(S, base, n, body)
  PROVE  \E f : AreItsValues(f, S, base, n, body)
<1> USE DEF IsLoop
<1> DEFINE Value(f, k) == IF k = 0 THEN base ELSE body[k][f[k - 1]]
           T == {m \in Nat : \E f \in [0 .. m -> S] : \A k \in 0 .. m : f[k] = Value(f, k)}
<1>1. 0 \in T
  <2>1. [k \in 0 .. 0 |-> base] \in [0 .. 0 -> S]
    OBVIOUS
  <2>2. \A k \in 0 .. 0 : [j \in 0 .. 0 |-> base][k] = Value([j \in 0 .. 0 |-> base], k)
    OBVIOUS
  <2> QED
    BY <2>1, <2>2
<1>2. ASSUME NEW m \in 0 .. n - 1, m \in T PROVE m + 1 \in T
  <2>1. PICK f \in [0 .. m -> S] : \A k \in 0 .. m : f[k] = Value(f, k)
    BY <1>2
  <2> DEFINE g == [k \in 0 .. m + 1 |-> IF k = m + 1 THEN body[m + 1][f[m]] ELSE f[k]]
  <2>2. body[m + 1][f[m]] \in S
    OBVIOUS
  <2>3. g \in [0 .. m + 1 -> S]
    <3>1. \A k \in 0 .. m + 1 : k = m + 1 \/ k \in 0 .. m
      OBVIOUS
    <3> QED
      BY <2>2, <3>1
  <2>4. ASSUME NEW k \in 0 .. m + 1 PROVE g[k] = Value(g, k)
    <3>1. CASE k = m + 1
      <4>1. k - 1 = m /\ g[m] = f[m] /\ g[k] = body[m + 1][f[m]] /\ k # 0
        BY <3>1
      <4> HIDE DEF g
      <4> QED
        BY <3>1, <4>1
    <3>2. CASE k # m + 1
      <4>1. k \in 0 .. m /\ g[k] = f[k] /\ (k # 0 => g[k - 1] = f[k - 1])
        BY <3>2
      <4> HIDE DEF g
      <4> QED
        BY <2>1, <4>1
    <3> QED
      BY <3>1, <3>2
  <2>5. m + 1 \in Nat
    OBVIOUS
  <2> HIDE DEF g, Value
  <2> QED
    BY <2>3, <2>4, <2>5
<1>3. n \in T
  <2> HIDE DEF T
  <2>1. \A k \in 0 .. n : k \in T
    BY <1>1, <1>2, Passes
  <2> QED
    BY <2>1
<1>4. PICK f \in [0 .. n -> S] : \A k \in 0 .. n : f[k] = Value(f, k)
  BY <1>3
<1>5. f[0] = base
  BY <1>4
<1>6. \A k \in 1 .. n : f[k] = body[k][f[k - 1]]
  BY <1>4
<1> QED
  BY <1>5, <1>6 DEF AreItsValues

(* Lists of paths without and with the places that there are for them. *)
PathLists == {l \in Seq(Names) : Once(l)}
Lists == [names : PathLists, places : Nat \ {0}]

(* path_plus adds a name, also when the array is full. *)
LEMMA PathPlusFacts ==
  ASSUME NEW list \in Lists, NEW name \in Names
  PROVE  /\ PathPlus(list, name) \in Lists
         /\ ToSet(PathPlus(list, name).names) = ToSet(list.names) \cup {name}
         /\ StartsWith(list.names, PathPlus(list, name).names)
<1>0. list.names \in Seq(Names) /\ Once(list.names) /\ list.places \in Nat \ {0}
  BY DEF Lists, PathLists
<1>1. Contains(list.names, name) <=> name \in ToSet(list.names)
  BY <1>0, Elements
<1>2. CASE Contains(list.names, name)
  <2>1. PathPlus(list, name) = list
    BY <1>2 DEF PathPlus
  <2> QED
    BY <1>0, <1>1, <1>2, <2>1, SameOrMore
<1>3. CASE ~Contains(list.names, name)
  <2>1. PathPlus(list, name).names = Append(list.names, name) /\ PathPlus(list, name) \in Lists
    <3>1. Append(list.names, name) \in PathLists
      BY <1>0, <1>1, <1>3, AppendedElements DEF PathLists
    <3>2. CASE Len(list.names) = list.places
      <4>1. Copied(list.names, list.places) = list.names
        BY <1>0, <3>2, SubSeqFull DEF Copied
      <4>2. PathPlus(list, name) = [names |-> Append(list.names, name), places |-> 2 * list.places]
        BY <1>3, <3>2, <4>1 DEF PathPlus
      <4>3. 2 * list.places \in Nat \ {0}
        BY <1>0
      <4> QED
        BY <3>1, <4>2, <4>3 DEF Lists
    <3>3. CASE Len(list.names) # list.places
      <4>1. PathPlus(list, name) = [list EXCEPT !.names = Append(@, name)]
        BY <1>3, <3>3 DEF PathPlus
      <4> QED
        BY <3>1, <4>1 DEF Lists
    <3> QED
      BY <3>2, <3>3
  <2> QED
    BY <1>0, <1>1, <1>3, <2>1, AppendedElements
<1> QED
  BY <1>2, <1>3

(* path_plus of all names adds all of them. *)
LEMMA AllPlusFacts ==
  ASSUME NEW list \in Lists, NEW names \in Seq(Names)
  PROVE  /\ AllPlus(list, names) \in Lists
         /\ ToSet(AllPlus(list, names).names) = ToSet(list.names) \cup ToSet(names)
         /\ StartsWith(list.names, AllPlus(list, names).names)
<1> DEFINE n == Len(names)
           Value(f, k) == IF k = 0 THEN list ELSE PathPlus(f[k - 1], names[k])
           body == [k \in 1 .. n |-> [l \in Lists |-> PathPlus(l, names[k])]]
           after == CHOOSE f : f = [k \in 0 .. n |-> Value(f, k)]
<1>1. n \in Nat /\ \A k \in 1 .. n : names[k] \in Names
  BY LenProperties, ElementOfSeq
<1>2. body \in [1 .. n -> [Lists -> Lists]]
  BY <1>1, PathPlusFacts
<1>3. PICK f \in [0 .. n -> Lists] : f[0] = list /\ \A k \in 1 .. n : f[k] = body[k][f[k - 1]]
  <2>1. IsLoop(Lists, list, n, body)
    BY <1>1, <1>2 DEF IsLoop
  <2> HIDE DEF n, body
  <2>2. PICK f : AreItsValues(f, Lists, list, n, body)
    BY <2>1, LoopHasValues
  <2> QED
    BY <2>2 DEF AreItsValues
<1>4. ASSUME NEW k \in 0 .. n PROVE f[k] = Value(f, k)
  <2>1. CASE k = 0
    BY <1>3, <2>1
  <2>2. CASE k # 0
    <3>1. k \in 1 .. n /\ k - 1 \in 0 .. n
      BY <1>1, <2>2
    <3>2. f[k - 1] \in Lists
      BY <3>1
    <3> QED
      BY <1>3, <2>2, <3>1, <3>2
  <2> QED
    BY <2>1, <2>2
<1>5. f = [k \in 0 .. n |-> Value(f, k)]
  BY <1>4
<1>6. after = [k \in 0 .. n |-> Value(after, k)]
  <2> HIDE DEF Value
  <2> QED
    BY <1>5
<1>7. AllPlus(list, names) = after[n]
  BY DEF AllPlus
<1> HIDE DEF after
<1> DEFINE T == {k \in 0 .. n : /\ after[k] \in Lists
                              /\ ToSet(after[k].names) = ToSet(list.names) \cup {names[i] : i \in 1 .. k}
                              /\ StartsWith(list.names, after[k].names)}
<1>8. 0 \in T
  <2>1. after[0] = list
    BY <1>1, <1>6
  <2>2. StartsWith(list.names, list.names)
    BY SameOrMore DEF Lists, PathLists
  <2> QED
    BY <1>1, <2>1, <2>2
<1>9. ASSUME NEW k \in 0 .. n - 1, k \in T PROVE k + 1 \in T
  <2>1. k + 1 \in 0 .. n /\ k + 1 \in 1 .. n /\ k + 1 # 0 /\ k + 1 - 1 = k
    BY <1>1
  <2>2. after[k + 1] = PathPlus(after[k], names[k + 1])
    BY <1>6, <2>1
  <2>3. names[k + 1] \in Names
    BY <1>1, <2>1
  <2>4. /\ after[k + 1] \in Lists
        /\ ToSet(after[k + 1].names) = ToSet(after[k].names) \cup {names[k + 1]}
        /\ StartsWith(list.names, after[k + 1].names)
    <3>1. after[k] \in Lists /\ StartsWith(list.names, after[k].names)
      BY <1>9
    <3> HIDE DEF T
    <3>2. /\ PathPlus(after[k], names[k + 1]) \in Lists
          /\ ToSet(PathPlus(after[k], names[k + 1]).names) = ToSet(after[k].names) \cup {names[k + 1]}
          /\ StartsWith(after[k].names, PathPlus(after[k], names[k + 1]).names)
      BY <2>3, <3>1, PathPlusFacts
    <3>3. \A l \in Lists : l.names \in Seq(Names)
      BY DEF Lists, PathLists
    <3>4. \A r, s, u \in Seq(Names) : StartsWith(r, s) /\ StartsWith(s, u) => StartsWith(r, u)
      BY SameOrMore
    <3>5. StartsWith(list.names, PathPlus(after[k], names[k + 1]).names)
      BY <3>1, <3>2, <3>3, <3>4
    <3> QED
      BY <2>2, <3>2, <3>5
  <2>5. {names[i] : i \in 1 .. k + 1} = {names[i] : i \in 1 .. k} \cup {names[k + 1]}
    <3>1. 1 .. k + 1 = (1 .. k) \cup {k + 1}
      BY <1>1
    <3> QED
      BY <3>1
  <2> QED
    BY <1>9, <2>1, <2>4, <2>5
<1>10. n \in T
  <2> HIDE DEF T, n
  <2>1. \A k \in 0 .. n : k \in T
    BY <1>1, <1>8, <1>9, Passes
  <2> QED
    BY <1>1, <2>1
<1>11. ToSet(names) = {names[i] : i \in 1 .. n}
  BY Elements
<1> QED
  BY <1>7, <1>10, <1>11

(* One removal removes a path, as it is there at most once. *)
LEMMA RemovedFromPaths ==
  ASSUME NEW list \in PathLists, NEW name
  PROVE  /\ RemoveFirst(list, name) \in PathLists
         /\ ToSet(RemoveFirst(list, name)) = ToSet(list) \ {name}
         /\ Thinned(list, RemoveFirst(list, name))
  BY RemovedElements DEF PathLists

(* path_minus of all names removes all of them. *)
LEMMA AllMinusFacts ==
  ASSUME NEW list \in PathLists, NEW names \in Seq(Names)
  PROVE  /\ AllMinus(list, names) \in PathLists
         /\ ToSet(AllMinus(list, names)) = ToSet(list) \ ToSet(names)
         /\ Thinned(list, AllMinus(list, names))
<1> DEFINE n == Len(names)
           Value(f, k) == IF k = 0 THEN list ELSE RemoveFirst(f[k - 1], names[k])
           body == [k \in 1 .. n |-> [l \in PathLists |-> RemoveFirst(l, names[k])]]
           after == CHOOSE f : f = [k \in 0 .. n |-> Value(f, k)]
<1>1. n \in Nat /\ \A k \in 1 .. n : names[k] \in Names
  BY LenProperties, ElementOfSeq
<1>2. body \in [1 .. n -> [PathLists -> PathLists]]
  BY RemovedFromPaths
<1>3. PICK f \in [0 .. n -> PathLists] : f[0] = list /\ \A k \in 1 .. n : f[k] = body[k][f[k - 1]]
  <2>1. IsLoop(PathLists, list, n, body)
    BY <1>1, <1>2 DEF IsLoop
  <2> HIDE DEF n, body
  <2>2. PICK f : AreItsValues(f, PathLists, list, n, body)
    BY <2>1, LoopHasValues
  <2> QED
    BY <2>2 DEF AreItsValues
<1>4. ASSUME NEW k \in 0 .. n PROVE f[k] = Value(f, k)
  <2>1. CASE k = 0
    BY <1>3, <2>1
  <2>2. CASE k # 0
    <3>1. k \in 1 .. n /\ k - 1 \in 0 .. n
      BY <1>1, <2>2
    <3>2. f[k - 1] \in PathLists
      BY <3>1
    <3> QED
      BY <1>3, <2>2, <3>1, <3>2
  <2> QED
    BY <2>1, <2>2
<1>5. f = [k \in 0 .. n |-> Value(f, k)]
  BY <1>4
<1>6. after = [k \in 0 .. n |-> Value(after, k)]
  <2> HIDE DEF Value
  <2> QED
    BY <1>5
<1>7. AllMinus(list, names) = after[n]
  BY DEF AllMinus
<1> HIDE DEF after
<1> DEFINE T == {k \in 0 .. n : /\ after[k] \in PathLists
                              /\ ToSet(after[k]) = ToSet(list) \ {names[i] : i \in 1 .. k}
                              /\ Thinned(list, after[k])}
<1>8. 0 \in T
  <2>1. after[0] = list
    BY <1>1, <1>6
  <2>2. Thinned(list, list)
    BY SameOrMore DEF PathLists
  <2> QED
    BY <1>1, <2>1, <2>2
<1>9. ASSUME NEW k \in 0 .. n - 1, k \in T PROVE k + 1 \in T
  <2>1. k + 1 \in 0 .. n /\ k + 1 \in 1 .. n /\ k + 1 # 0 /\ k + 1 - 1 = k
    BY <1>1
  <2>2. after[k + 1] = RemoveFirst(after[k], names[k + 1])
    BY <1>6, <2>1
  <2>3. names[k + 1] \in Names
    BY <1>1, <2>1
  <2>4. /\ after[k + 1] \in PathLists
        /\ ToSet(after[k + 1]) = ToSet(after[k]) \ {names[k + 1]}
        /\ Thinned(list, after[k + 1])
    <3>1. after[k] \in PathLists /\ Thinned(list, after[k])
      BY <1>9
    <3> HIDE DEF T
    <3>2. /\ RemoveFirst(after[k], names[k + 1]) \in PathLists
          /\ ToSet(RemoveFirst(after[k], names[k + 1])) = ToSet(after[k]) \ {names[k + 1]}
          /\ Thinned(after[k], RemoveFirst(after[k], names[k + 1]))
      BY <2>3, <3>1, RemovedFromPaths
    <3>3. \A r, s, u \in PathLists : Thinned(r, s) /\ Thinned(s, u) => Thinned(r, u)
      BY SameOrMore DEF PathLists
    <3>4. Thinned(list, RemoveFirst(after[k], names[k + 1]))
      BY <3>1, <3>2, <3>3
    <3> QED
      BY <2>2, <3>2, <3>4
  <2>5. {names[i] : i \in 1 .. k + 1} = {names[i] : i \in 1 .. k} \cup {names[k + 1]}
    <3>1. 1 .. k + 1 = (1 .. k) \cup {k + 1}
      BY <1>1
    <3> QED
      BY <3>1
  <2> QED
    BY <1>9, <2>1, <2>4, <2>5
<1>10. n \in T
  <2> HIDE DEF T, n
  <2>1. \A k \in 0 .. n : k \in T
    BY <1>1, <1>8, <1>9, Passes
  <2> QED
    BY <1>1, <2>1
<1>11. ToSet(names) = {names[i] : i \in 1 .. n}
  BY Elements
<1> QED
  BY <1>7, <1>10, <1>11

-----------------------------------------------------------------------------
(* What is stored. *)

(* The inductive invariant of the refinement: the shell is in a directory, also *)
(* if that is gone, the stack holds directories and what getcwd left for one,   *)
(* and no path is in a list twice.                                              *)
Stacked == Dirs \cup {Junk}
Stored ==
  /\ which \in {"list", "array"}
  /\ exists \subseteq Dirs /\ cwd \in Dirs /\ Holders \subseteq exists
  /\ head \in PathLists /\ node \in Seq(Stacked)
  /\ path_list \in PathLists /\ max_paths \in Nat \ {0} /\ dirc \in Seq(Stacked)

(* The words of a line are what they were, but for those that were lost, and the *)
(* first is never lost.                                                          *)
LEMMA TokensOfLine ==
  ASSUME max_paths \in Nat \ {0}, NEW line \in Lines, NEW args \in Tokens(line)
  PROVE  /\ Len(args) \in Nat /\ Len(args) <= Len(line) /\ Len(line) \in Nat
         /\ \A n \in 1 .. Len(args) : args[n] \in {line[n], Wild} \cup Leftovers
         /\ Len(args) > 0 => args[1] = line[1]
         /\ Lost(line) = {} => args = line
<1>1. PICK W : line \in Seq(W)
  BY ShellsAssumption
<1>2. Len(line) \in Nat /\ line = [n \in 1 .. Len(line) |-> line[n]] /\ \A i \in 1 .. Len(line) : line[i] \in W
  BY <1>1, LenProperties, ElementOfSeq
<1> DEFINE lost == Lost(line)
           Found == {Wild} \cup Leftovers
<1>3. lost \subseteq 1 .. Len(line) /\ 1 \notin lost
  BY <1>2 DEF Lost
<1>4. PICK last \in {Len(line)} \cup {n - 1 : n \in lost}, found \in [lost -> Found] :
         args = [n \in 1 .. last |-> IF n \in lost THEN found[n] ELSE line[n]]
  BY DEF Tokens
<1> HIDE DEF lost
<1>5. last \in Nat /\ last <= Len(line)
  BY <1>2, <1>3, <1>4
<1>6. \A n \in 1 .. last : (IF n \in lost THEN found[n] ELSE line[n]) \in W \cup Found
  BY <1>2, <1>5
<1> HIDE DEF Found
<1>7. args \in [1 .. last -> W \cup Found]
  BY <1>4, <1>6
<1>8. args \in Seq(W \cup Found)
  BY <1>5, <1>7, SeqDef
<1>9. Len(args) = last
  <2>1. DOMAIN args = 1 .. Len(args) /\ Len(args) \in Nat
    BY <1>8, LenProperties
  <2>2. 1 .. Len(args) = 1 .. last
    BY <1>7, <2>1
  <2>3. ASSUME NEW m \in Nat, NEW n \in Nat, 1 .. m = 1 .. n PROVE m = n
    <3>1. m > 0 => m \in 1 .. n
      BY <2>3
    <3>2. n > 0 => n \in 1 .. m
      BY <2>3
    <3> QED
      BY <3>1, <3>2
  <2> QED
    BY <1>5, <2>1, <2>2, <2>3
<1>10. \A n \in 1 .. last : args[n] = IF n \in lost THEN found[n] ELSE line[n]
  BY <1>4
<1>11. ASSUME NEW n \in 1 .. last PROVE args[n] \in {line[n], Wild} \cup Leftovers
  BY <1>10 DEF Found
<1>12. ASSUME last > 0 PROVE args[1] = line[1]
  <2>1. 1 \in 1 .. last
    BY <1>5, <1>12
  <2> QED
    BY <1>3, <1>10, <2>1
<1>13. ASSUME lost = {} PROVE args = line
  <2>1. last = Len(line)
    BY <1>4, <1>13
  <2>2. args = [n \in 1 .. last |-> line[n]]
    BY <1>4, <1>13
  <2> QED
    BY <1>2, <2>1, <2>2
<1> QED
  BY <1>2, <1>5, <1>9, <1>11, <1>12, <1>13 DEF lost

(* The names of a path line are names, unless one is lost and cannot be used. *)
LEMMA NamesOfLine ==
  ASSUME max_paths \in Nat \ {0}, NEW line \in Lines, NEW args \in Tokens(line), Arg(args, 0) = "path",
         ~Contains(SubSeq(args, 3, Len(args)), Wild)
  PROVE  SubSeq(args, 3, Len(args)) \in Seq(Names)
<1> DEFINE names == SubSeq(args, 3, Len(args))
<1>1. /\ Len(args) \in Nat /\ Len(args) <= Len(line) /\ Len(line) \in Nat
      /\ \A n \in 1 .. Len(args) : args[n] \in {line[n], Wild} \cup Leftovers
      /\ Len(args) > 0 => args[1] = line[1]
  BY TokensOfLine
<1>2. Arg(line, 0) = "path" => \A n \in 3 .. Len(line) : line[n] \in Names
  BY ShellsAssumption
<1>3. Leftovers \subseteq Names
  BY ArrayShellAssumption
<1>4. ASSUME NEW n \in 3 .. Len(args) PROVE args[n] \in Names \cup {Wild}
  <2>1. 0 < Len(args) /\ 0 < Len(line) /\ n \in 1 .. Len(args) /\ n \in 3 .. Len(line)
    BY <1>1
  <2>2. args[0 + 1] = "path" /\ 0 + 1 = 1
    BY <2>1 DEF Arg
  <2>3. Arg(line, 0) = "path"
    BY <1>1, <2>1, <2>2 DEF Arg
  <2> QED
    BY <1>1, <1>2, <1>3, <2>1, <2>3
<1>5. /\ names \in Seq(Names \cup {Wild})
      /\ \A i \in 1 .. Len(names) : names[i] \in Names \cup {Wild}
  <2>1. 3 \in Int /\ Len(args) \in Int
    BY <1>4
  <2>2. names \in Seq(Names \cup {Wild})
    BY <1>4, <2>1, SubSeqProperties
  <2> HIDE DEF names
  <2> QED
    BY <2>2, ElementOfSeq
<1>6. \A i \in 1 .. Len(names) : names[i] # Wild
  BY DEF Contains
<1> HIDE DEF names
<1>7. names \in [1 .. Len(names) -> Names] /\ Len(names) \in Nat
  BY <1>5, <1>6, LenProperties
<1>8. names \in Seq(Names)
  BY <1>7, SeqDef
<1> QED
  BY <1>8 DEF names

(* What a path line does to the arrays. *)
LEMMA ArrayPathFacts ==
  ASSUME Stored, NEW line \in Lines, NEW args \in Tokens(line), ArrayPath(args)
  PROVE  /\ path_list' \in PathLists /\ max_paths' \in Nat \ {0}
         /\ dirc' = dirc
         /\ \/ Die /\ path_list' = path_list /\ Contains(SubSeq(args, 3, Len(args)), Wild)
            \/ /\ Stay
               /\ \/ /\ Arg(args, 1) = "+"
                     /\ ToSet(path_list') = ToSet(path_list) \cup ToSet(SubSeq(args, 3, Len(args)))
                     /\ StartsWith(path_list, path_list')
                  \/ /\ Arg(args, 1) = "-"
                     /\ ToSet(path_list') = ToSet(path_list) \ ToSet(SubSeq(args, 3, Len(args)))
                     /\ Thinned(path_list, path_list')
            \/ Stay /\ path_list' = path_list /\ Arg(args, 1) \notin {"+", "-"}
<1> DEFINE names == SubSeq(args, 3, Len(args))
<1>1. Arg(args, 0) = "path" /\ dirc' = dirc
  BY DEF ArrayPath
<1>2. path_list \in PathLists /\ max_paths \in Nat \ {0}
  BY DEF Stored
<1>3. CASE Arg(args, 1) \in {"+", "-"} /\ Contains(names, Wild)
  BY <1>1, <1>2, <1>3 DEF ArrayPath
<1>4. CASE Arg(args, 1) \notin {"+", "-"}
  BY <1>1, <1>2, <1>4 DEF ArrayPath
<1>5. CASE Arg(args, 1) \in {"+", "-"} /\ ~Contains(names, Wild)
  <2>1. names \in Seq(Names)
    BY <1>1, <1>2, <1>5, NamesOfLine
  <2>3. Stay
    BY <1>5 DEF ArrayPath
  <2>4. CASE Arg(args, 1) = "+"
    <3> DEFINE list == [names |-> path_list, places |-> max_paths]
    <3>1. ArrayPathPlus(names)
      BY <1>5, <2>4 DEF ArrayPath
    <3>2. path_list' = AllPlus(list, names).names /\ max_paths' = AllPlus(list, names).places
      BY <3>1 DEF ArrayPathPlus
    <3>3. list \in Lists /\ list.names = path_list
      BY <1>2 DEF Lists
    <3> HIDE DEF list, names
    <3>4. AllPlus(list, names) \in Lists
          /\ ToSet(AllPlus(list, names).names) = ToSet(list.names) \cup ToSet(names)
          /\ StartsWith(list.names, AllPlus(list, names).names)
      BY <2>1, <3>3, AllPlusFacts
    <3>5. path_list' \in PathLists /\ max_paths' \in Nat \ {0}
      BY <3>2, <3>4 DEF Lists
    <3>6. ToSet(path_list') = ToSet(path_list) \cup ToSet(names) /\ StartsWith(path_list, path_list')
      BY <3>2, <3>3, <3>4
    <3> QED
      BY <1>1, <2>3, <2>4, <3>5, <3>6 DEF names
  <2>5. CASE Arg(args, 1) = "-"
    <3>1. ArrayPathMinus(names)
      BY <1>5, <2>5 DEF ArrayPath
    <3>2. path_list' = AllMinus(path_list, names) /\ max_paths' = max_paths
      BY <3>1 DEF ArrayPathMinus
    <3> HIDE DEF names
    <3>3. /\ path_list' \in PathLists /\ ToSet(path_list') = ToSet(path_list) \ ToSet(names)
          /\ Thinned(path_list, path_list')
      BY <1>2, <2>1, <3>2, AllMinusFacts
    <3> QED
      BY <1>1, <1>2, <2>3, <2>5, <3>2, <3>3 DEF names
  <2> QED
    BY <1>5, <2>4, <2>5
<1> QED
  BY <1>3, <1>4, <1>5

-----------------------------------------------------------------------------
(* Steps of the refinement. *)

Stack == IF which = "list" THEN node ELSE Reverse(dirc)
Paths == IF which = "list" THEN head ELSE path_list

(* The effects that a line has on the stack and the paths, and their new values. *)
IsFirst(i, paths) == paths[i] \in Holders /\ \A k \in 1 .. i - 1 : paths[k] \notin Holders
Goes(stack, paths) ==
  up' = up /\ ran' = Nowhere /\ cwd' \in exists \cap Dirs /\ stack \in {Stack, <<CwdName>> \o Stack} /\ paths = Paths
Returns(stack, paths) ==
  /\ up' = up /\ ran' = Nowhere /\ Stack # <<>> /\ stack = Tail(Stack) /\ paths = Paths
  /\ cwd' = IF Head(Stack) \in exists THEN Head(Stack) ELSE cwd
Changes(stack, paths) ==
  /\ up' = up /\ ran' = Nowhere /\ cwd' = cwd /\ stack = Stack
  /\ paths \in PathLists /\ (Grown(Paths, paths) \/ Thinned(Paths, paths))
Runs(stack, paths) ==
  /\ up' = up /\ cwd' = cwd /\ stack = Stack /\ paths = Paths
  /\ \/ cwd \in Holders /\ ran' = cwd
     \/ cwd \notin Holders \ Deep /\ \E i \in 1 .. Len(Paths) : IsFirst(i, Paths) /\ ran' = Paths[i]
Stops(stack, paths) ==
  up' = FALSE /\ cwd' = cwd /\ stack = Stack /\ paths = Paths /\ ran' = ran
Does(stack, paths) ==
  \/ Goes(stack, paths) \/ Returns(stack, paths) \/ Changes(stack, paths)
  \/ Runs(stack, paths) \/ Stops(stack, paths)

(* Each is a step of Shell. *)
LEMMA EffectsAreSteps ==
  ASSUME up, exists' = exists, Does(Stack', Paths')
  PROVE  Sh!Next
<1> USE DEF Stack, Paths
<1>1. CASE Goes(Stack', Paths')
  <2>1. cwd' \in Dirs /\ (Sh!Cd(cwd') \/ Sh!Pushd(cwd'))
    BY <1>1 DEF Goes, Sh!Cd, Sh!Pushd, Sh!GoTo, CwdName
  <2>2. Sh!Line
    BY <1>1, <2>1 DEF Sh!Line, Goes
  <2> QED
    BY <2>2 DEF Sh!Next
<1>2. CASE Returns(Stack', Paths')
  <2>1. Sh!Popd
    BY <1>2 DEF Returns, Sh!Popd, Sh!GoTo
  <2>2. Sh!Line
    BY <1>2, <2>1 DEF Sh!Line, Returns
  <2> QED
    BY <2>2 DEF Sh!Next
<1>3. CASE Changes(Stack', Paths')
  <2>1. Sh!ChangePaths
    BY <1>3 DEF Changes, Sh!ChangePaths, Sh!AddPaths, Sh!RemovePaths, Sh!Once,
                PathLists, Once, Grown, Thinned
  <2>2. Sh!Line
    BY <1>3, <2>1 DEF Sh!Line, Changes
  <2> QED
    BY <2>2 DEF Sh!Next
<1>4. CASE Runs(Stack', Paths')
  <2>1. Sh!Run
    BY <1>4 DEF Sh!Run, Sh!IsFirst, Runs, IsFirst
  <2> QED
    BY <2>1 DEF Sh!Next
<1>5. CASE Stops(Stack', Paths')
  <2>1. Sh!Stop
    BY <1>5 DEF Sh!Stop, Stops
  <2> QED
    BY <2>1 DEF Sh!Next
<1> QED
  BY <1>1, <1>2, <1>3, <1>4, <1>5 DEF Does

(* Any line of the list shell. *)
LEMMA ListLineStep ==
  ASSUME Stored, up, which = "list", which' = which, NEW line, ListShellLine(line), UNCHANGED arrayVars
  PROVE  Stored' /\ exists' = exists /\ Does(Stack', Paths')
<1>0. /\ Stack = node /\ Stack' = node' /\ Paths = head /\ Paths' = head'
      /\ path_list' = path_list /\ max_paths' = max_paths /\ dirc' = dirc
      /\ exists \subseteq Dirs /\ cwd \in Dirs /\ Holders \subseteq exists /\ head \in PathLists /\ node \in Seq(Stacked)
      /\ path_list \in PathLists /\ max_paths \in Nat \ {0} /\ dirc \in Seq(Stacked)
      /\ Dirs \subseteq Names /\ Nowhere \notin Dirs /\ CwdName \in Stacked
  BY ShellWorldAssumption DEF Stack, Paths, arrayVars, Stored, CwdName, Stacked
<1> DEFINE Kept == head' = head /\ node' = node
<1>1. ASSUME Stay, node' = node, head' \in PathLists, Grown(head, head') \/ Thinned(head, head')
      PROVE  Stored' /\ exists' = exists /\ Does(Stack', Paths')
  <2>1. Changes(Stack', Paths')
    BY <1>0, <1>1 DEF Stay, Enter, Changes
  <2> QED
    BY <1>0, <1>1, <2>1 DEF Stay, Enter, Stored, Does
<1>2. ASSUME Stay, Kept PROVE Stored' /\ exists' = exists /\ Does(Stack', Paths')
  <2>1. head' \in PathLists /\ Grown(head, head')
    BY <1>0, <1>2, SameOrMore DEF PathLists
  <2> QED
    BY <1>1, <1>2, <2>1
<1>3. ASSUME Die, Kept PROVE Stored' /\ exists' = exists /\ Does(Stack', Paths')
  <2>1. Stops(Stack', Paths')
    BY <1>0, <1>3 DEF Die, Stops
  <2> QED
    BY <1>0, <1>3, <2>1 DEF Die, Stored, Does
<1>4. CASE ListPath(line)
  <2>1. node' = node
    BY <1>4 DEF ListPath
  <2>2. CASE ListPathPlus(line)
    <3> DEFINE name == Arg(line, 2)
    <3>1. CASE Contains(head, name) \/ name \notin exists
      BY <1>2, <2>1, <2>2, <3>1 DEF ListPathPlus
    <3>2. CASE ~(Contains(head, name) \/ name \notin exists)
      <4>1. Stay /\ head' = <<name>> \o head
        BY <2>2, <3>2 DEF ListPathPlus
      <4>2. name \in Names /\ head \in Seq(Names) /\ Once(head) /\ name \notin ToSet(head)
        BY <1>0, <3>2, Elements DEF PathLists
      <4> HIDE DEF name
      <4>3. head' \in Seq(Names) /\ Once(head') /\ Grown(head, head')
        BY <4>1, <4>2, PrependedElements
      <4>4. head' \in PathLists
        BY <4>3 DEF PathLists
      <4> QED
        BY <1>1, <2>1, <4>1, <4>3, <4>4
    <3> QED
      BY <3>1, <3>2
  <2>3. CASE ListPathMinus(line)
    <3> DEFINE name == Arg(line, 2)
    <3>1. Stay /\ head' = RemoveFirst(head, name)
      BY <2>3 DEF ListPathMinus
    <3> HIDE DEF name
    <3>2. head' \in PathLists /\ Thinned(head, head')
      BY <1>0, <3>1, RemovedFromPaths
    <3> QED
      BY <1>1, <2>1, <3>1, <3>2
  <2>4. CASE ListPathNull(line)
    BY <1>2, <1>3, <2>1, <2>4 DEF ListPathNull
  <2>5. CASE UNCHANGED head /\ Stay
    BY <1>2, <2>1, <2>5
  <2> QED
    BY <1>4, <2>2, <2>3, <2>4, <2>5 DEF ListPath
<1>5. ASSUME NEW d \in exists, Enter(d), head' = head, node' \in {node, <<CwdName>> \o node}
      PROVE  Stored' /\ exists' = exists /\ Does(Stack', Paths')
  <2>1. Goes(Stack', Paths')
    BY <1>0, <1>5 DEF Enter, Goes
  <2>2. node' \in Seq(Stacked)
    <3>1. <<CwdName>> \o node \in Seq(Stacked)
      BY <1>0, Prepended
    <3> QED
      BY <1>0, <1>5, <3>1
  <2> QED
    BY <1>0, <1>5, <2>1, <2>2 DEF Enter, Stored, Does
<1>6. CASE ListCd(line)
  BY <1>2, <1>5, <1>6 DEF ListCd, CanEnter, listVars
<1>7. CASE ListPushd(line)
  BY <1>2, <1>5, <1>7 DEF ListPushd, CanEnter
<1>8. CASE ListPopd(line)
  <2>1. CASE node = <<>>
    BY <1>2, <1>8, <2>1 DEF ListPopd
  <2>2. CASE node # <<>>
    <3>1. /\ head' = head /\ node' = Tail(node)
          /\ Enter(IF Head(node) \in exists THEN Head(node) ELSE cwd)
      BY <1>8, <2>2 DEF ListPopd, CanEnter
    <3>2. Returns(Stack', Paths')
      BY <1>0, <2>2, <3>1 DEF Enter, Returns
    <3>3. node' \in Seq(Stacked)
      BY <1>0, <2>2, <3>1, HeadTailProperties
    <3> QED
      BY <1>0, <3>1, <3>2, <3>3 DEF Enter, Stored, Does
  <2> QED
    BY <2>1, <2>2
<1>9. CASE ListExit(line)
  BY <1>3, <1>9 DEF ListExit, listVars
<1>10. CASE ListNothing(line)
  BY <1>2, <1>10 DEF ListNothing, listVars
<1>11. CASE ListRun(line)
  <2>1. PICK from \in {ListLocation, Nowhere} :
          /\ ran' = from /\ UNCHANGED <<exists, cwd, disk, up>> /\ Kept
    BY <1>11 DEF ListRun, Launch, listVars
  <2>2. CASE from = Nowhere
    <3>1. Changes(Stack', Paths')
      <4>1. Grown(head, head)
        BY <1>0, SameOrMore DEF PathLists
      <4> QED
        BY <1>0, <2>1, <2>2, <4>1 DEF Changes
    <3> QED
      BY <1>0, <2>1, <3>1 DEF Stored, Does
  <2>3. CASE from # Nowhere
    <3> DEFINE found == SelectInSeq(head, LAMBDA p : p \in Holders)
    <3>1. from = IF CwdName \in Holders THEN cwd ELSE IF found = 0 THEN Nowhere ELSE head[found]
      BY <2>1, <2>3 DEF ListLocation
    <3>0. Junk \notin Holders /\ Holders \subseteq Dirs
      BY ShellWorldAssumption
    <3>2. CASE CwdName \in Holders
      <4>1. cwd \in Holders
        BY <3>0, <3>2 DEF CwdName
      <4> QED
        BY <1>0, <2>1, <3>1, <3>2, <4>1 DEF Runs, Stored, Does
    <3>3. CASE CwdName \notin Holders
      <4>1. found # 0 /\ from = head[found]
        BY <2>3, <3>1, <3>3
      <4>2. head \in Seq(Names)
        BY <1>0 DEF PathLists
      <4>3. found \in 1 .. Len(head) /\ IsFirst(found, head)
        BY <4>1, <4>2, FoundElement DEF IsFirst
      <4> HIDE DEF found
      <4>4. Runs(Stack', Paths')
        <5>1. cwd \notin Holders \ Deep
          BY <1>0, <3>3 DEF CwdName
        <5> QED
          BY <1>0, <2>1, <4>1, <4>3, <5>1 DEF Runs
      <4> QED
        BY <1>0, <2>1, <4>4 DEF Stored, Does
    <3> QED
      BY <3>2, <3>3
  <2> QED
    BY <2>2, <2>3
<1>12. CASE ListWaitsForEver(line)
  <2>1. /\ up' = FALSE /\ Kept /\ UNCHANGED <<exists, cwd, disk, ran>>
    BY <1>12 DEF ListWaitsForEver, listVars
  <2>2. Stops(Stack', Paths')
    BY <1>0, <2>1 DEF Stops
  <2> QED
    BY <1>0, <2>1, <2>2 DEF Stored, Does
<1> QED
  BY <1>4, <1>6, <1>7, <1>8, <1>9, <1>10, <1>11, <1>12 DEF ListShellLine

(* Any command of the array shell. *)
LEMMA ArrayCommandStep ==
  ASSUME Stored, up, which = "array", which' = which, NEW line \in Lines,
         NEW args \in Tokens(line), ArrayCommand(args), UNCHANGED listVars
  PROVE  Stored' /\ exists' = exists /\ Does(Stack', Paths')
<1>0. /\ Stack = Reverse(dirc) /\ Stack' = Reverse(dirc')
      /\ Paths = path_list /\ Paths' = path_list'
      /\ head' = head /\ node' = node
      /\ exists \subseteq Dirs /\ cwd \in Dirs /\ Holders \subseteq exists /\ head \in PathLists /\ node \in Seq(Stacked)
      /\ path_list \in PathLists /\ max_paths \in Nat \ {0} /\ dirc \in Seq(Stacked)
      /\ Dirs \subseteq Names /\ Nowhere \notin Dirs /\ CwdName \in Stacked
  BY ShellWorldAssumption DEF Stack, Paths, listVars, Stored, CwdName, Stacked
<1> DEFINE Kept == path_list' = path_list /\ max_paths' = max_paths /\ dirc' = dirc
           Goal == Stored' /\ exists' = exists /\ Does(Stack', Paths')
<1>1. ASSUME Stay, dirc' = dirc, path_list' \in PathLists, max_paths' \in Nat \ {0},
             Grown(path_list, path_list') \/ Thinned(path_list, path_list')
      PROVE  Goal
  <2>1. Changes(Stack', Paths')
    BY <1>0, <1>1 DEF Stay, Enter, Changes
  <2> QED
    BY <1>0, <1>1, <2>1 DEF Stay, Enter, Stored, Does
<1>2. ASSUME Stay, Kept PROVE Goal
  <2>1. path_list' \in PathLists /\ max_paths' \in Nat \ {0} /\ Grown(path_list, path_list')
    BY <1>0, <1>2, SameOrMore DEF PathLists
  <2> QED
    BY <1>1, <1>2, <2>1
<1>3. ASSUME Die, path_list' = path_list, max_paths' \in Nat \ {0}, dirc' = dirc PROVE Goal
  <2>1. Stops(Stack', Paths')
    BY <1>0, <1>3 DEF Die, Stops
  <2> QED
    BY <1>0, <1>3, <2>1 DEF Die, Stored, Does
<1>4. ASSUME NEW d \in exists, Enter(d), path_list' = path_list, max_paths' = max_paths,
             dirc' = dirc \/ dirc' = Append(dirc, CwdName)
      PROVE  Goal
  <2>1. Append(dirc, CwdName) \in Seq(Stacked) /\ Reverse(Append(dirc, CwdName)) = <<CwdName>> \o Reverse(dirc)
    BY <1>0, AppendProperties, ReversedAppend
  <2>2. Goes(Stack', Paths')
    BY <1>0, <1>4, <2>1 DEF Enter, Goes
  <2> QED
    BY <1>0, <1>4, <2>1, <2>2 DEF Enter, Stored, Does
<1>6. CASE ArrayBlank(args)
  BY <1>0, <1>2, <1>3, <1>6 DEF ArrayBlank, arrayVars
<1>7. CASE ArrayPath(args)
  <2>1. path_list' \in PathLists /\ max_paths' \in Nat \ {0} /\ dirc' = dirc
    BY <1>7, ArrayPathFacts
  <2>2. \/ Die /\ path_list' = path_list
        \/ Stay /\ StartsWith(path_list, path_list')
        \/ Stay /\ Thinned(path_list, path_list')
        \/ Stay /\ path_list' = path_list
    BY <1>7, ArrayPathFacts
  <2>3. path_list' = path_list \/ StartsWith(path_list, path_list') => Grown(path_list, path_list')
    BY <1>0, <2>1, SameOrMore DEF PathLists
  <2>4. CASE Die /\ path_list' = path_list
    BY <1>3, <2>1, <2>4
  <2>5. CASE Stay /\ (Grown(path_list, path_list') \/ Thinned(path_list, path_list'))
    BY <1>1, <2>1, <2>5
  <2> HIDE DEF Goal
  <2> QED
    BY <2>2, <2>3, <2>4, <2>5
<1>8. CASE ArrayCd(args)
  BY <1>2, <1>4, <1>8 DEF ArrayCd, CanEnter, arrayVars
<1>9. CASE ArrayPushd(args)
  <2> DEFINE d == Arg(args, 1)
             grows == d # Null /\ Len(dirc) = capacity
             stack == IF grows THEN Copied(dirc, capacity) ELSE dirc
  <2>1. stack = dirc
    BY <1>0, SubSeqFull DEF Copied
  <2>2. /\ path_list' = path_list /\ max_paths' = max_paths
        /\ IF CanEnter(d) THEN dirc' = Append(stack, CwdName) /\ Enter(d) ELSE dirc' = stack /\ Stay
    BY <1>9 DEF ArrayPushd
  <2> HIDE DEF d, stack
  <2>3. CASE CanEnter(d)
    <3>1. d \in exists /\ Enter(d) /\ dirc' = Append(dirc, CwdName)
      BY <2>1, <2>2, <2>3 DEF CanEnter
    <3> QED
      BY <1>4, <2>2, <3>1
  <2>4. CASE ~CanEnter(d)
    <3>1. Stay /\ Kept
      BY <2>1, <2>2, <2>4
    <3> QED
      BY <1>2, <3>1
  <2> QED
    BY <2>3, <2>4
<1>10. CASE ArrayPopd(args)
  <2>1. CASE dirc = <<>>
    BY <1>2, <1>10, <2>1 DEF ArrayPopd
  <2>2. CASE dirc # <<>>
    <3>1. /\ path_list' = path_list /\ max_paths' = max_paths /\ dirc' = Front(dirc)
          /\ Enter(IF Last(dirc) \in exists THEN Last(dirc) ELSE cwd)
      BY <1>10, <2>2 DEF ArrayPopd, CanEnter
    <3>2. /\ Reverse(dirc) # <<>> /\ Head(Reverse(dirc)) = Last(dirc)
          /\ Tail(Reverse(dirc)) = Reverse(Front(dirc))
          /\ Front(dirc) \in Seq(Stacked) /\ Last(dirc) \in Stacked
      BY <1>0, <2>2, ReversedFront
    <3>3. Returns(Stack', Paths')
      BY <1>0, <3>1, <3>2 DEF Enter, Returns
    <3> QED
      BY <1>0, <3>1, <3>2, <3>3 DEF Enter, Stored, Does
  <2> QED
    BY <2>1, <2>2
<1>11. CASE ArrayExit(args)
  BY <1>0, <1>3, <1>11 DEF ArrayExit, arrayVars
<1>12. CASE ArrayNothing(args)
  BY <1>2, <1>12 DEF ArrayNothing, arrayVars
<1>13. CASE ArrayRun(args)
  <2>1. PICK from \in {ArrayLocation, Nowhere} :
          /\ ran' = from /\ UNCHANGED <<exists, cwd, disk, up>> /\ Kept
    BY <1>13 DEF ArrayRun, Launch, arrayVars
  <2>2. CASE from = Nowhere
    <3>1. Changes(Stack', Paths')
      <4>1. Grown(path_list, path_list)
        BY <1>0, SameOrMore DEF PathLists
      <4> QED
        BY <1>0, <2>1, <2>2, <4>1 DEF Changes
    <3> QED
      BY <1>0, <2>1, <3>1 DEF Stored, Does
  <2>3. CASE from # Nowhere
    <3> DEFINE found == SelectInSeq(path_list, LAMBDA p : p \in Holders)
    <3>1. from = IF cwd \in Holders THEN cwd ELSE IF found = 0 THEN Nowhere ELSE path_list[found]
      BY <2>1, <2>3 DEF ArrayLocation
    <3>2. CASE cwd \in Holders
      BY <1>0, <2>1, <3>1, <3>2 DEF Runs, Stored, Does
    <3>3. CASE cwd \notin Holders
      <4>1. found # 0 /\ from = path_list[found]
        BY <2>3, <3>1, <3>3
      <4>2. path_list \in Seq(Names)
        BY <1>0 DEF PathLists
      <4>3. found \in 1 .. Len(path_list) /\ IsFirst(found, path_list)
        BY <4>1, <4>2, FoundElement DEF IsFirst
      <4> HIDE DEF found
      <4>4. Runs(Stack', Paths')
        BY <1>0, <2>1, <3>3, <4>1, <4>3 DEF Runs
      <4> QED
        BY <1>0, <2>1, <4>4 DEF Stored, Does
    <3> QED
      BY <3>2, <3>3
  <2> QED
    BY <2>2, <2>3
<1> QED
  BY <1>6, <1>7, <1>8, <1>9, <1>10, <1>11, <1>12, <1>13 DEF ArrayCommand, Goal

(* Any line of the array shell. *)
LEMMA ArrayLineStep ==
  ASSUME Stored, up, which = "array", which' = which, NEW line \in Lines, ArrayShellLine(line),
         UNCHANGED listVars
  PROVE  Stored' /\ exists' = exists /\ Does(Stack', Paths')
<1>1. CASE ArrayOverrun(line)
  <2>1. Stops(Stack', Paths')
    BY <1>1 DEF ArrayOverrun, Die, Stops, Stack, Paths, arrayVars, listVars
  <2> QED
    BY <1>1, <2>1 DEF ArrayOverrun, Die, Stored, Does, arrayVars, listVars
<1>2. ASSUME NEW args \in Tokens(line), ArrayCommand(args)
      PROVE  Stored' /\ exists' = exists /\ Does(Stack', Paths')
  BY <1>2, ArrayCommandStep
<1> QED
  BY <1>1, <1>2 DEF ArrayShellLine

-----------------------------------------------------------------------------
(* The theorems. *)

(* It holds at the beginning, which is a beginning of Shell. *)
LEMMA StoredInit == Init => Stored /\ Sh!Init
<1> SUFFICES ASSUME Init PROVE Stored /\ Sh!Init
  OBVIOUS
<1>1. /\ exists = Dirs /\ cwd = Home /\ Home \in Dirs /\ ran = Nowhere /\ up = TRUE
      /\ head = <<>> /\ node = <<>> /\ path_list = <<>> /\ max_paths = MaxPaths /\ dirc = <<>>
      /\ which \in {"list", "array"} /\ MaxPaths \in Nat \ {0} /\ Holders \subseteq Dirs
  BY ShellWorldAssumption, ArrayShellAssumption DEF Init, WorldInit, ListInit, ArrayInit
<1>2. \A S : <<>> \in Seq(S)
  BY EmptySeq, Zenon
<1>3. <<>> \in PathLists
  BY <1>2 DEF PathLists, Once
<1>4. Reverse(<<>>) = <<>>
  BY DEF Reverse
<1>5. Stored
  BY <1>1, <1>2, <1>3 DEF Stored
<1>6. Sh!Init
  BY <1>1, <1>4 DEF Sh!Init
<1> QED
  BY <1>5, <1>6

(* Every step keeps it, and is a step of Shell or none. *)
LEMMA StoredStep == Stored /\ [Next]_vars => Stored' /\ [Sh!Next]_(Sh!vars)
<1> SUFFICES ASSUME Stored, [Next]_vars PROVE Stored' /\ [Sh!Next]_(Sh!vars)
  OBVIOUS
<1>1. ASSUME NEW line \in Lines, Type(line) PROVE Stored' /\ Sh!Next
  <2>1. up /\ which' = which
    BY <1>1 DEF Type
  <2>2. CASE which = "list" /\ ListShellLine(line) /\ UNCHANGED arrayVars
    BY <2>1, <2>2, ListLineStep, EffectsAreSteps
  <2>3. CASE which = "array" /\ ArrayShellLine(line) /\ UNCHANGED listVars
    BY <2>1, <2>3, ArrayLineStep, EffectsAreSteps
  <2> QED
    BY <1>1, <2>2, <2>3 DEF Type
<1>2. CASE Elsewhere
  <2>1. PICK d \in Dirs : Vanish(d)
    BY <1>2 DEF Elsewhere
  <2>2. up /\ UNCHANGED <<listVars, arrayVars, which>>
    BY <1>2 DEF Elsewhere
  <2>3. /\ d \in exists /\ d \notin Holders /\ exists' = exists \ {d} /\ UNCHANGED <<cwd, ran, up>>
    BY <2>1, ShellWorldAssumption DEF Vanish
  <2>4. Sh!Vanish(d)
    BY <2>2, <2>3 DEF Sh!Vanish, listVars, arrayVars
  <2>5. Stored'
    BY <2>2, <2>3 DEF Stored, listVars, arrayVars
  <2> QED
    BY <2>4, <2>5 DEF Sh!Next
<1>3. CASE UNCHANGED vars
  BY <1>3 DEF vars, world, listVars, arrayVars, Stored, Sh!vars
<1> QED
  BY <1>1, <1>2, <1>3 DEF Next

(* Whether it stores what it knows in lists or in arrays that are doubled any     *)
(* number of times, and whatever a line has lost of its words, each step of either *)
(* shell is a step of Shell: the stack and the search paths keep their order.      *)
THEOREM BothAreTheShell == Spec => ImplementsShell
<1>1. Spec => []Stored
  BY StoredInit, StoredStep, PTL DEF Spec
<1>2. Init => Sh!Init
  BY StoredInit
<1>3. Stored /\ [Next]_vars => [Sh!Next]_(Sh!vars)
  BY StoredStep
<1> QED
  BY <1>1, <1>2, <1>3, PTL DEF Spec, ImplementsShell, Sh!Spec

(* Where the words of a path line are safe, the array shell takes or removes each *)
(* of the names, and goes on, for any lines and tables of any size.                *)
THEOREM PathLinesAreObeyed == Spec => PathLinesObeyed
<1> DEFINE P == \A line \in Lines :
                  which = "array" /\ Arg(line, 0) = "path" /\ WordsAreSafe(line) /\ Type(line)
                    => up' /\ Obeyed(line)
<1>1. Spec => []Stored
  BY StoredInit, StoredStep, PTL DEF Spec
<1>2. Stored /\ [Next]_vars => [P]_vars
  <2> SUFFICES ASSUME Stored, NEW line \in Lines, which = "array", Arg(line, 0) = "path",
                      WordsAreSafe(line), Type(line)
               PROVE  up' /\ Obeyed(line)
    OBVIOUS
  <2>1. PICK W : line \in Seq(W)
    BY ShellsAssumption
  <2>2. Len(line) \in Nat
    BY <2>1, LenProperties
  <2>3. Lost(line) = {} /\ ~ReadsBeyond(line) /\ max_paths \in Nat \ {0}
    <3>1. max_paths \in Nat \ {0} /\ Doublings(line) \subseteq 1 .. Len(line) + 1
      BY DEF Stored, Doublings
    <3>2. \A places \in Doublings(line) : places - 1 <= max_paths /\ max_paths <= places
      BY DEF WordsAreSafe
    <3>3. ~ReadsBeyond(line)
      BY <2>2, <3>1, <3>2 DEF ReadsBeyond
    <3>4. ASSUME NEW n \in Lost(line) PROVE FALSE
      <4>1. PICK places \in Doublings(line) : n \in 1 .. Len(line) /\ n > max_paths /\ n < places
        BY <3>4 DEF Lost
      <4> QED
        BY <2>2, <3>1, <3>2, <4>1
    <3> QED
      BY <3>1, <3>3, <3>4
  <2>4. up /\ ArrayShellLine(line)
    BY DEF Type
  <2>5. line \in Tokens(line) /\ ArrayCommand(line)
    <3>1. PICK args \in Tokens(line) : ArrayCommand(args)
      BY <2>3, <2>4 DEF ArrayShellLine, ArrayOverrun
    <3>2. args = line
      BY <2>3, TokensOfLine
    <3> QED
      BY <3>1, <3>2
  <2>11. ArrayPath(line)
    <3>1. line # <<>>
      BY WordsAssumption DEF Arg, Commands
    <3>2. Program # "path"
      BY WordsAssumption DEF Commands
    <3> QED
      BY <2>5, <3>1, <3>2
      DEF ArrayCommand, ArrayBlank, ArrayCd, ArrayPushd, ArrayPopd, ArrayExit, ArrayNothing, ArrayRun
  <2> DEFINE names == SubSeq(line, 3, Len(line))
  <2>6. /\ \A i \in 1 .. Len(names) : names[i] = line[i + 2]
        /\ Len(names) = IF 3 <= Len(line) THEN Len(line) - 2 ELSE 0
        /\ \A n \in 3 .. Len(line) : line[n] \in ToSet(names)
    <3>1. 3 \in Int /\ Len(line) \in Int /\ \A i \in 3 .. Len(line) : line[i] \in W
      BY <2>1, <2>2, ElementOfSeq
    <3>2. /\ names \in Seq(W) /\ Len(names) = IF 3 <= Len(line) THEN Len(line) - 3 + 1 ELSE 0
          /\ \A i \in 1 .. Len(line) - 3 + 1 : names[i] = line[3 + i - 1]
      BY <3>1, SubSeqProperties
    <3> HIDE DEF names
    <3>3. ToSet(names) = {names[i] : i \in 1 .. Len(names)}
      BY <3>2, Elements
    <3>4. Len(names) = IF 3 <= Len(line) THEN Len(line) - 2 ELSE 0
      BY <2>2, <3>2
    <3>5. ASSUME NEW i \in 1 .. Len(names) PROVE names[i] = line[i + 2]
      <4>1. i \in 1 .. Len(line) - 3 + 1 /\ 3 + i - 1 = i + 2
        BY <2>2, <3>4
      <4> QED
        BY <3>2, <4>1
    <3>6. ASSUME NEW n \in 3 .. Len(line) PROVE line[n] \in ToSet(names)
      <4>1. n - 2 \in 1 .. Len(names) /\ n - 2 + 2 = n
        BY <2>2, <3>4
      <4> QED
        BY <3>3, <3>5, <4>1
    <3> QED
      BY <3>4, <3>5, <3>6
  <2>7. ~Contains(names, Wild)
    <3> SUFFICES ASSUME NEW i \in 1 .. Len(names), names[i] = Wild PROVE FALSE
      BY DEF Contains
    <3> HIDE DEF names
    <3>1. i + 2 \in 3 .. Len(line)
      BY <2>2, <2>6
    <3> QED
      BY <2>6, <3>1, ShellsAssumption
  <2>8. /\ path_list' \in PathLists
        /\ Stay
        /\ \/ Arg(line, 1) = "+" /\ ToSet(path_list') = ToSet(path_list) \cup ToSet(names)
           \/ Arg(line, 1) = "-" /\ ToSet(path_list') = ToSet(path_list) \ ToSet(names)
           \/ Arg(line, 1) \notin {"+", "-"}
    BY <2>5, <2>7, <2>11, ArrayPathFacts
  <2>9. up'
    BY <2>4, <2>8 DEF Stay, Enter
  <2>10. ASSUME NEW n \in 3 .. Len(line)
         PROVE  CASE line[2] = "+" -> Contains(path_list', line[n])
                  [] line[2] = "-" -> ~Contains(path_list', line[n])
                  [] OTHER -> TRUE
    <3>1. Arg(line, 1) = line[2]
      BY <2>2 DEF Arg
    <3>2. line[n] \in ToSet(names)
      BY <2>6
    <3>3. \A e : Contains(path_list', e) <=> e \in ToSet(path_list')
      BY <2>8, Elements DEF PathLists
    <3> HIDE DEF names
    <3>4. CASE line[2] = "+"
      BY <2>8, <3>1, <3>2, <3>3, <3>4
    <3>5. CASE line[2] = "-"
      BY <2>8, <3>1, <3>2, <3>3, <3>5
    <3>6. CASE line[2] # "+" /\ line[2] # "-"
      BY <3>6
    <3> QED
      BY <3>4, <3>5, <3>6
  <2> QED
    BY <2>9, <2>10 DEF Obeyed
<1> QED
  BY <1>1, <1>2, PTL DEF Spec, PathLinesObeyed

-----------------------------------------------------------------------------
(* Files. *)

Contents == {InitialFile[f] : f \in FileNames} \cup {Absent, Empty, Torn, Folder}
Files == {f \in FileNames : IsFile(f)}

(* Where the shell may be, and what may be in a file. *)
FilesTyped ==
  /\ exists \subseteq Dirs
  /\ cwd \in Dirs
  /\ files \in [Dirs -> [FileNames -> Contents]]

(* Where the contents of a file are, and that they are nowhere else. *)
Keeps(where, f) ==
  \E d \in Dirs, g \in FileNames :
    \A e \in Dirs, h \in FileNames : where[e][h] = InitialFile[f] <=> e = d /\ h = g

(* Moving a file to a free place keeps every file. *)
LEMMA MovingKeeps ==
  ASSUME FilesTyped, disk = "room",
         NEW d \in Dirs, NEW f \in FileNames, NEW dir \in Dirs, NEW name \in FileNames,
         files[d][f] # Absent, files[dir][name] = Absent,
         NEW after \in Moved(d, f, dir, name)
  PROVE  /\ after \in [Dirs -> [FileNames -> Contents]]
         /\ \A o \in Files : Keeps(files, o) => Keeps(after, o)
<1>1. after = [files EXCEPT ![dir][name] = files[d][f], ![d][f] = Absent]
  BY DEF Moved, Copies
<1>2. files[d][f] \in Contents /\ Absent \in Contents
  BY DEF FilesTyped, Contents
<1>3. after \in [Dirs -> [FileNames -> Contents]]
  BY <1>1, <1>2 DEF FilesTyped
<1>4. \A e \in Dirs, h \in FileNames :
         after[e][h] = IF e = d /\ h = f THEN Absent
                       ELSE IF e = dir /\ h = name THEN files[d][f] ELSE files[e][h]
  BY <1>1 DEF FilesTyped
<1>5. ASSUME NEW o \in Files, Keeps(files, o) PROVE Keeps(after, o)
  <2>1. PICK c \in Dirs, g \in FileNames :
           \A e \in Dirs, h \in FileNames : files[e][h] = InitialFile[o] <=> e = c /\ h = g
    BY <1>5 DEF Keeps
  <2>2. InitialFile[o] # Absent
    BY FilesAssumption DEF Files
  <2>3. CASE c = d /\ g = f
    <3>1. \A e \in Dirs, h \in FileNames : after[e][h] = InitialFile[o] <=> e = dir /\ h = name
      BY <1>4, <2>1, <2>2, <2>3
    <3> QED
      BY <3>1 DEF Keeps
  <2>4. CASE ~(c = d /\ g = f)
    <3>1. \A e \in Dirs, h \in FileNames : after[e][h] = InitialFile[o] <=> e = c /\ h = g
      BY <1>4, <2>1, <2>2, <2>4
    <3> QED
      BY <3>1 DEF Keeps
  <2> QED
    BY <2>3, <2>4
<1> QED
  BY <1>3, <1>5

(* So does leaving an empty file behind. *)
LEMMA EmptyFileKeeps ==
  ASSUME FilesTyped, NEW dir \in Dirs, NEW name \in FileNames, files[dir][name] = Absent,
         NEW after, after = [files EXCEPT ![dir][name] = Empty]
  PROVE  /\ after \in [Dirs -> [FileNames -> Contents]]
         /\ \A o \in Files : Keeps(files, o) => Keeps(after, o)
<1>1. after \in [Dirs -> [FileNames -> Contents]]
  <2>1. Empty \in Contents
    BY DEF Contents
  <2> QED
    BY <2>1 DEF FilesTyped
<1>2. \A e \in Dirs, h \in FileNames :
         after[e][h] = IF e = dir /\ h = name THEN Empty ELSE files[e][h]
  BY DEF FilesTyped
<1>3. ASSUME NEW o \in Files, Keeps(files, o) PROVE Keeps(after, o)
  <2>1. PICK c \in Dirs, g \in FileNames :
           \A e \in Dirs, h \in FileNames : files[e][h] = InitialFile[o] <=> e = c /\ h = g
    BY <1>3 DEF Keeps
  <2>2. InitialFile[o] # Absent /\ InitialFile[o] # Empty
    BY FilesAssumption DEF Files
  <2>3. \A e \in Dirs, h \in FileNames : after[e][h] = InitialFile[o] <=> e = c /\ h = g
    BY <1>2, <2>1, <2>2
  <2> QED
    BY <2>3 DEF Keeps
<1> QED
  BY <1>1, <1>3

(* cutp keeps every file, also where it leaves an empty one behind. *)
LEMMA CuttingKeeps ==
  ASSUME FilesTyped, disk = "room", NEW src, NEW dst, NEW after \in CutFile(src, dst)
  PROVE  /\ after \in [Dirs -> [FileNames -> Contents]]
         /\ \A o \in Files : Keeps(files, o) => Keeps(after, o)
<1>1. cwd \in Dirs
  BY DEF FilesTyped
<1>2. CASE ~CanCreate(dst)
  BY <1>2 DEF CutFile, FilesTyped
<1>3. CASE CanCreate(dst) /\ ~HasFile(src)
  <2>1. /\ dst \in FileNames /\ files[cwd][dst] = Absent
        /\ after = [files EXCEPT ![cwd][dst] = Empty]
    BY <1>3 DEF CutFile, CanCreate, Taken
  <2> QED
    BY <1>1, <2>1, EmptyFileKeeps
<1>4. CASE CanCreate(dst) /\ HasFile(src)
  <2>1. /\ src \in FileNames /\ files[cwd][src] # Absent
        /\ dst \in FileNames /\ files[cwd][dst] = Absent
        /\ after \in Moved(cwd, src, cwd, dst)
    BY <1>4 DEF CutFile, CanCreate, HasFile, Taken
  <2> QED
    BY <1>1, <2>1, MovingKeeps
<1> QED
  BY <1>2, <1>3, <1>4

(* So does module1. *)
LEMMA ModuleKeeps ==
  ASSUME FilesTyped, disk = "room", NEW src, NEW dir, NEW after \in MoveFile(src, dir)
  PROVE  /\ after \in [Dirs -> [FileNames -> Contents]]
         /\ \A o \in Files : Keeps(files, o) => Keeps(after, o)
<1>1. cwd \in Dirs /\ exists \subseteq Dirs
  BY DEF FilesTyped
<1>2. CASE after = files
  BY <1>2 DEF FilesTyped
<1>3. CASE /\ src \in FileNames /\ dir \in exists /\ files[dir][src] = Absent
           /\ after = [files EXCEPT ![dir][src] = Empty]
  BY <1>1, <1>3, EmptyFileKeeps
<1>4. CASE /\ src \in FileNames /\ files[cwd][src] # Absent
           /\ dir \in exists /\ files[dir][src] = Absent
           /\ after \in Moved(cwd, src, dir, src)
  BY <1>1, <1>4, MovingKeeps
<1> QED
  BY <1>2, <1>3, <1>4 DEF MoveFile, HasFile, IsFolder, Taken

-----------------------------------------------------------------------------
(* The inductive invariant that keeps the files: no copy is torn where the disk *)
(* has room.                                                                    *)
FilesInv ==
  /\ exists \subseteq Dirs
  /\ cwd \in Dirs
  /\ disk = "room" => FilesTyped /\ FilesKept

(* FilesKept, one file at a time. *)
LEMMA FilesKeptIsKeeps == FilesKept <=> (disk = "room" => \A f \in Files : Keeps(files, f))
  BY DEF FilesKept, Keeps, Files

(* It holds at the beginning. *)
LEMMA FilesInit == Init => FilesInv
<1> SUFFICES ASSUME Init PROVE FilesInv
  OBVIOUS
<1>1. /\ exists = Dirs /\ cwd = Home /\ Home \in Dirs
      /\ files = [d \in Dirs |-> [f \in FileNames |-> IF d = Home THEN InitialFile[f] ELSE Absent]]
  BY ShellWorldAssumption DEF Init, WorldInit
<1>2. FilesTyped
  <2>1. \A d \in Dirs, f \in FileNames : (IF d = Home THEN InitialFile[f] ELSE Absent) \in Contents
    BY DEF Contents
  <2> QED
    BY <1>1, <2>1 DEF FilesTyped
<1>3. ASSUME NEW f \in Files PROVE Keeps(files, f)
  <2>1. \A e \in Dirs, h \in FileNames : files[e][h] = IF e = Home THEN InitialFile[h] ELSE Absent
    BY <1>1
  <2>2. InitialFile[f] # Absent /\ \A h \in FileNames : InitialFile[h] = InitialFile[f] => h = f
    BY FilesAssumption DEF Files
  <2>3. \A e \in Dirs, h \in FileNames : files[e][h] = InitialFile[f] <=> e = Home /\ h = f
    BY <2>1, <2>2
  <2> QED
    BY <1>1, <2>3 DEF Keeps, Files
<1> QED
  BY <1>1, <1>2, <1>3, FilesKeptIsKeeps DEF FilesInv

(* What a line can do to the files and to where the shell is. *)
Harmless ==
  /\ disk' = disk /\ exists' = exists
  /\ cwd' \in exists \cup {cwd}
  /\ \/ files' = files
     \/ \E src, dst : files' \in CutFile(src, dst)
     \/ \E src, dir : files' \in MoveFile(src, dir)

(* The ways in which a line ends do no more. *)
LEMMA MovesAreHarmless ==
  /\ \A d \in exists \cup {cwd} : Enter(d) => Harmless
  /\ Stay => Harmless
  /\ Die => Harmless
  /\ \A from, src, dst : Launch(from, CutFile(src, dst)) => Harmless
  /\ \A from, src, dir : Launch(from, MoveFile(src, dir)) => Harmless
<1> USE DEF Harmless
<1>1. ASSUME NEW d \in exists \cup {cwd}, Enter(d) PROVE Harmless
  BY <1>1 DEF Enter
<1>2. Stay => Harmless
  BY DEF Stay, Enter
<1>3. Die => Harmless
  BY DEF Die
<1>4. ASSUME NEW from, NEW src, NEW dst, Launch(from, CutFile(src, dst)) PROVE Harmless
  BY <1>4 DEF Launch
<1>5. ASSUME NEW from, NEW src, NEW dir, Launch(from, MoveFile(src, dir)) PROVE Harmless
  BY <1>5 DEF Launch
<1> QED
  BY <1>1, <1>2, <1>3, <1>4, <1>5, Zenon DEF Harmless

(* It is kept by what a line can do. *)
LEMMA HarmlessKeeps == FilesInv /\ Harmless => FilesInv'
<1> SUFFICES ASSUME FilesInv, Harmless PROVE FilesInv'
  OBVIOUS
<1>1. exists' \subseteq Dirs /\ cwd' \in Dirs
  BY DEF FilesInv, Harmless
<1>2. ASSUME disk' = "room" PROVE FilesTyped' /\ FilesKept'
  <2>1. disk = "room" /\ FilesTyped /\ \A f \in Files : Keeps(files, f)
    BY <1>2, FilesKeptIsKeeps DEF FilesInv, Harmless
  <2> DEFINE Kept(where) == /\ where \in [Dirs -> [FileNames -> Contents]]
                            /\ \A f \in Files : Keeps(where, f)
  <2>2. Kept(files')
    <3>1. CASE files' = files
      BY <2>1, <3>1 DEF FilesTyped
    <3>2. ASSUME NEW src, NEW dst, files' \in CutFile(src, dst) PROVE Kept(files')
      BY <2>1, <3>2, CuttingKeeps
    <3>3. ASSUME NEW src, NEW dir, files' \in MoveFile(src, dir) PROVE Kept(files')
      BY <2>1, <3>3, ModuleKeeps
    <3> QED
      BY <3>1, <3>2, <3>3 DEF Harmless
  <2>3. \A f \in Files : Keeps(files, f)'
    BY <2>2 DEF Keeps
  <2>4. FilesKept'
    BY <2>3 DEF FilesKept, Keeps, Files
  <2> QED
    BY <1>1, <2>2, <2>4 DEF FilesTyped
<1> QED
  BY <1>1, <1>2 DEF FilesInv

(* So are all lines of the list shell. *)
LEMMA ListLinesAreHarmless == \A line : ListShellLine(line) => Harmless
<1> SUFFICES ASSUME NEW line, ListShellLine(line) PROVE Harmless
  OBVIOUS
<1>1. CASE ListPath(line)
  BY <1>1, MovesAreHarmless DEF ListPath, ListPathPlus, ListPathMinus, ListPathNull
<1>2. CASE ListCd(line)
  BY <1>2, MovesAreHarmless DEF ListCd, CanEnter
<1>3. CASE ListPushd(line)
  BY <1>3, MovesAreHarmless DEF ListPushd, CanEnter
<1>4. CASE ListPopd(line)
  BY <1>4, MovesAreHarmless DEF ListPopd, CanEnter
<1>5. CASE ListExit(line)
  BY <1>5, MovesAreHarmless DEF ListExit
<1>6. CASE ListNothing(line)
  BY <1>6, MovesAreHarmless DEF ListNothing
<1>7. CASE ListRun(line)
  BY <1>7, MovesAreHarmless DEF ListRun
<1>8. CASE ListWaitsForEver(line)
  BY <1>8 DEF ListWaitsForEver, Harmless
<1> QED
  BY <1>1, <1>2, <1>3, <1>4, <1>5, <1>6, <1>7, <1>8 DEF ListShellLine

(* So are all lines of the array shell. *)
LEMMA ArrayLinesAreHarmless == \A line : ArrayShellLine(line) => Harmless
<1> SUFFICES ASSUME NEW line, ArrayShellLine(line) PROVE Harmless
  OBVIOUS
<1>9. CASE ArrayOverrun(line)
  BY <1>9, MovesAreHarmless DEF ArrayOverrun
<1> SUFFICES ASSUME NEW args \in Tokens(line), ArrayCommand(args) PROVE Harmless
  BY <1>9 DEF ArrayShellLine
<1>1. CASE ArrayBlank(args)
  BY <1>1, MovesAreHarmless DEF ArrayBlank
<1>2. CASE ArrayPath(args)
  BY <1>2, MovesAreHarmless DEF ArrayPath
<1>3. CASE ArrayCd(args)
  BY <1>3, MovesAreHarmless DEF ArrayCd, CanEnter
<1>4. CASE ArrayPushd(args)
  BY <1>4, MovesAreHarmless DEF ArrayPushd, CanEnter
<1>5. CASE ArrayPopd(args)
  BY <1>5, MovesAreHarmless DEF ArrayPopd, CanEnter
<1>6. CASE ArrayExit(args)
  BY <1>6, MovesAreHarmless DEF ArrayExit
<1>7. CASE ArrayNothing(args)
  BY <1>7, MovesAreHarmless DEF ArrayNothing
<1>8. CASE ArrayRun(args)
  BY <1>8, MovesAreHarmless DEF ArrayRun
<1> QED
  BY <1>1, <1>2, <1>3, <1>4, <1>5, <1>6, <1>7, <1>8 DEF ArrayCommand

(* So it is kept by every step. *)
LEMMA FilesStep == FilesInv /\ [Next]_vars => FilesInv'
<1> SUFFICES ASSUME FilesInv, [Next]_vars PROVE FilesInv'
  OBVIOUS
<1>1. ASSUME NEW line \in Lines, Type(line) PROVE FilesInv'
  <2>1. Harmless
    BY <1>1, ListLinesAreHarmless, ArrayLinesAreHarmless DEF Type
  <2> QED
    BY <2>1, HarmlessKeeps
<1>2. CASE Elsewhere
  <2>1. exists' \subseteq exists /\ UNCHANGED <<cwd, files, disk>>
    BY <1>2 DEF Elsewhere, Vanish
  <2> QED
    BY <2>1 DEF FilesInv, FilesTyped, FilesKept
<1>3. CASE UNCHANGED vars
  BY <1>3 DEF vars, world, FilesInv, FilesTyped, FilesKept
<1> QED
  BY <1>1, <1>2, <1>3 DEF Next

(* No file is lost or doubled, whatever the user types into either shell and    *)
(* whatever cutp and module1 find in their way, unless the disk is full.        *)
THEOREM NoFileIsLost == Spec => []FilesKept
<1>1. Spec => []FilesInv
  BY FilesInit, FilesStep, PTL DEF Spec
<1>2. FilesInv => FilesKept
  BY DEF FilesInv, FilesKept
<1> QED
  BY <1>1, <1>2, PTL
=============================================================================
