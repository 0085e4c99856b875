------------------------ MODULE ManagedRegistryProofs ------------------------
(***************************************************************************)
(* Proofs about ManagedRegistry, for every document and any number of      *)
(* peers, registrations and claims.                                        *)
(***************************************************************************)
EXTENDS ManagedRegistry, SequenceTheorems, WellFoundedInduction, TLAPS

-----------------------------------------------------------------------------
(* Numbers.  The library's induction theorems take an operator; these take *)
(* a set of numbers in its place.                                          *)
LEMMA LeastMember ==
  ASSUME NEW T \in SUBSET Nat, T # {}
  PROVE  \E x \in T : \A y \in T : x <= y
<1> DEFINE R == OpToRel(<, Nat)
<1>1. IsWellFoundedOn(R, Nat)
  BY NatLessThanWellFounded
<1>2. \A x, y \in Nat : <<y, x>> \in R <=> y < x
  BY DEF OpToRel
<1> HIDE DEF R
<1>3. PICK e \in T : TRUE
  OBVIOUS
<1>4. PICK x \in T : \A y \in T : ~ (<<y, x>> \in R)
  BY <1>1, <1>3, WFMin
<1>5. ASSUME NEW y \in T PROVE x <= y
  <2>1. ~ (y < x)
    BY <1>2, <1>4
  <2> QED
    BY <2>1
<1> QED
  BY <1>5

LEMMA Induction ==
  ASSUME NEW S \in SUBSET Nat, 0 \in S, \A n \in S : n + 1 \in S
  PROVE  S = Nat
<1> SUFFICES ASSUME NEW e \in Nat \ S PROVE FALSE
  OBVIOUS
<1>1. PICK x \in Nat \ S : \A y \in Nat \ S : x <= y
  BY LeastMember
<1>2. x # 0 /\ x - 1 \in Nat /\ ~ (x <= x - 1) /\ (x - 1) + 1 = x
  BY <1>1
<1> QED
  BY <1>1, <1>2

-----------------------------------------------------------------------------
(* Totals.  The function that Total defines exists ...                     *)
Sums(count, f, n) ==
  f = [h \in 0..n |-> IF h = Program THEN count[h] ELSE f[h - 1] + count[h]]

LEMMA SumsExist ==
  ASSUME NEW count, NEW n \in Nat
  PROVE  \E f : Sums(count, f, n)
<1> DEFINE Defined == {m \in Nat : \E f : Sums(count, f, m)}
<1>1. 0 \in Defined
  <2> DEFINE f == [h \in 0..0 |-> count[0]]
  <2>1. \A h \in 0..0 : h = 0
    OBVIOUS
  <2>2. Sums(count, f, 0)
    BY <2>1 DEF Sums, Program
  <2> QED
    BY <2>2
<1>2. ASSUME NEW m \in Defined PROVE m + 1 \in Defined
  <2>1. PICK f : Sums(count, f, m)
    OBVIOUS
  <2> DEFINE g == [h \in 0..(m + 1) |-> IF h = m + 1 THEN f[m] + count[h] ELSE f[h]]
  <2>2. m \in Nat
    OBVIOUS
  <2>3. ASSUME NEW h \in 0..(m + 1)
        PROVE  g[h] = IF h = Program THEN count[h] ELSE g[h - 1] + count[h]
    <3>1. CASE h = m + 1
      <4>1. h # Program /\ h - 1 = m /\ m \in 0..(m + 1) /\ m # m + 1
        BY <2>2, <3>1 DEF Program
      <4>2. g[h] = f[m] + count[h] /\ g[m] = f[m]
        BY <3>1, <4>1
      <4> QED
        BY <4>1, <4>2
    <3>2. CASE h # m + 1
      <4>1. h \in 0..m /\ g[h] = f[h]
        BY <2>2, <3>2
      <4>2. f[h] = IF h = Program THEN count[h] ELSE f[h - 1] + count[h]
        <5> DEFINE e(j) == IF j = Program THEN count[j] ELSE f[j - 1] + count[j]
        <5>1. f = [j \in 0..m |-> e(j)]
          BY <2>1 DEF Sums
        <5> HIDE DEF e
        <5>2. f[h] = e(h)
          BY <4>1, <5>1
        <5> QED
          BY <5>2 DEF e
      <4>3. h # Program => h - 1 \in 0..(m + 1) /\ h - 1 # m + 1 /\ g[h - 1] = f[h - 1]
        BY <2>2, <3>2 DEF Program
      <4> QED
        BY <4>1, <4>2, <4>3
    <3> QED
      BY <3>1, <3>2
  <2>4. Sums(count, g, m + 1)
    <3> DEFINE e(j) == IF j = Program THEN count[j] ELSE g[j - 1] + count[j]
    <3>1. g = [j \in 0..(m + 1) |-> g[j]]
      OBVIOUS
    <3>2. \A j \in 0..(m + 1) : g[j] = e(j)
      BY <2>3
    <3> HIDE DEF g, e
    <3>3. g = [j \in 0..(m + 1) |-> e(j)]
      BY <3>1, <3>2
    <3> QED
      BY <3>3 DEF e, Sums
  <2> HIDE DEF g
  <2> QED
    BY <2>2, <2>4
<1>3. Defined = Nat
  <2>1. Defined \in SUBSET Nat
    OBVIOUS
  <2> HIDE DEF Defined
  <2> QED
    BY <1>1, <1>2, <2>1, Induction
<1> QED
  BY <1>3

(* ... and adds one holder's claims after the other's.                     *)
LEMMA TotalFacts ==
  ASSUME NEW count
  PROVE  \E f : /\ Total(count) = f[MaxListens] /\ f[0] = count[0]
                /\ \A h \in Subscriptions : f[h] = f[h - 1] + count[h]
<1> DEFINE f == CHOOSE f : f = [h \in Holders |-> IF h = Program THEN count[h] ELSE f[h - 1] + count[h]]
<1>1. Total(count) = f[MaxListens]
  BY DEF Total
<1>2. Holders = 0..MaxListens
  BY BoundsAssumption DEF Holders, Program, Subscriptions
<1>3. \E g : g = [h \in Holders |-> IF h = Program THEN count[h] ELSE g[h - 1] + count[h]]
  <2>1. PICK g : Sums(count, g, MaxListens)
    BY SumsExist, BoundsAssumption
  <2>2. g = [h \in Holders |-> IF h = Program THEN count[h] ELSE g[h - 1] + count[h]]
    BY <1>2, <2>1 DEF Sums
  <2> QED
    BY <2>2
<1>4. f = [h \in Holders |-> IF h = Program THEN count[h] ELSE f[h - 1] + count[h]]
  BY <1>3
<1> HIDE DEF f
<1>5. ASSUME NEW h \in Holders
      PROVE  f[h] = IF h = Program THEN count[h] ELSE f[h - 1] + count[h]
  <2> DEFINE e(j) == IF j = Program THEN count[j] ELSE f[j - 1] + count[j]
  <2>1. f = [j \in Holders |-> e(j)]
    BY <1>4
  <2> HIDE DEF e
  <2>2. f[h] = e(h)
    BY <2>1
  <2> QED
    BY <2>2 DEF e
<1>6. f[0] = count[0]
  BY <1>5 DEF Holders, Program
<1>7. \A h \in Subscriptions : h \in Holders /\ h # Program
  BY BoundsAssumption DEF Holders, Program, Subscriptions
<1> QED
  BY <1>1, <1>5, <1>6, <1>7

Counts == [Holders -> Nat]

(* No holder has more than the total.                                      *)
LEMMA TotalBounds ==
  ASSUME NEW count \in Counts, NEW k \in Holders
  PROVE  Total(count) \in Nat /\ count[k] <= Total(count)
<1>1. PICK f : /\ Total(count) = f[MaxListens] /\ f[0] = count[0]
               /\ \A h \in Subscriptions : f[h] = f[h - 1] + count[h]
  BY TotalFacts
<1>2. k \in Nat /\ k <= MaxListens /\ MaxListens \in Nat
  BY BoundsAssumption DEF Holders, Program, Subscriptions
<1> DEFINE Good == {m \in Nat : m <= MaxListens =>
                      f[m] \in Nat /\ (k <= m => count[k] <= f[m])}
<1>3. 0 \in Good
  BY <1>1, <1>2 DEF Counts, Holders, Program
<1>4. ASSUME NEW m \in Good PROVE m + 1 \in Good
  <2> SUFFICES ASSUME m + 1 <= MaxListens
               PROVE  f[m + 1] \in Nat /\ (k <= m + 1 => count[k] <= f[m + 1])
    OBVIOUS
  <2>1. m \in Nat /\ f[m] \in Nat /\ (k <= m => count[k] <= f[m])
    BY <1>2
  <2>2. m + 1 \in Subscriptions /\ (m + 1) - 1 = m
    BY <1>2, <2>1 DEF Subscriptions
  <2>3. f[m + 1] = f[m] + count[m + 1] /\ count[m + 1] \in Nat /\ count[k] \in Nat
    BY <1>1, <2>2 DEF Counts, Holders
  <2>4. k <= m + 1 => k <= m \/ k = m + 1
    BY <1>2, <2>1
  <2> QED
    BY <2>1, <2>3, <2>4
<1>5. Good = Nat
  <2>1. Good \in SUBSET Nat
    OBVIOUS
  <2> HIDE DEF Good
  <2> QED
    BY <1>3, <1>4, <2>1, Induction
<1>6. MaxListens <= MaxListens
  BY <1>2
<1> QED
  BY <1>1, <1>2, <1>5, <1>6

(* One claim more of one holder is one more in the total.                  *)
LEMMA TotalGrows ==
  ASSUME NEW count \in Counts, NEW more \in Counts, NEW k \in Holders,
         more[k] = count[k] + 1, \A h \in Holders : h # k => more[h] = count[h]
  PROVE  Total(more) = Total(count) + 1
<1>1. PICK f : /\ Total(count) = f[MaxListens] /\ f[0] = count[0]
               /\ \A h \in Subscriptions : f[h] = f[h - 1] + count[h]
  BY TotalFacts
<1>2. PICK g : /\ Total(more) = g[MaxListens] /\ g[0] = more[0]
               /\ \A h \in Subscriptions : g[h] = g[h - 1] + more[h]
  BY TotalFacts
<1>3. k \in Nat /\ k <= MaxListens /\ MaxListens \in Nat
  BY BoundsAssumption DEF Holders, Program, Subscriptions
<1> DEFINE Good == {m \in Nat : m <= MaxListens =>
                      f[m] \in Nat /\ g[m] = IF k <= m THEN f[m] + 1 ELSE f[m]}
<1>4. 0 \in Good
  <2>1. 0 \in Holders /\ count[0] \in Nat
    BY DEF Counts, Holders, Program
  <2>2. k <= 0 <=> k = 0
    BY <1>3
  <2> QED
    BY <1>1, <1>2, <2>1, <2>2
<1>5. ASSUME NEW m \in Good PROVE m + 1 \in Good
  <2> SUFFICES ASSUME m + 1 <= MaxListens
               PROVE  f[m + 1] \in Nat /\ g[m + 1] = IF k <= m + 1 THEN f[m + 1] + 1 ELSE f[m + 1]
    OBVIOUS
  <2>1. m \in Nat /\ f[m] \in Nat /\ (g[m] = IF k <= m THEN f[m] + 1 ELSE f[m])
    BY <1>3
  <2>2. m + 1 \in Subscriptions /\ m + 1 \in Holders /\ (m + 1) - 1 = m
    BY <1>3, <2>1 DEF Subscriptions, Holders
  <2>3. /\ f[m + 1] = f[m] + count[m + 1] /\ count[m + 1] \in Nat
        /\ g[m + 1] = g[m] + more[m + 1]
    BY <1>1, <1>2, <2>2 DEF Counts
  <2>4. CASE k = m + 1
    <3>1. more[m + 1] = count[m + 1] + 1 /\ ~ (k <= m) /\ k <= m + 1
      BY <1>3, <2>1, <2>4
    <3> QED
      BY <2>1, <2>3, <3>1
  <2>5. CASE k # m + 1
    <3>1. more[m + 1] = count[m + 1] /\ (k <= m <=> k <= m + 1)
      BY <1>3, <2>1, <2>2, <2>5
    <3> QED
      BY <2>1, <2>3, <3>1
  <2> QED
    BY <2>4, <2>5
<1>6. Good = Nat
  <2>1. Good \in SUBSET Nat
    OBVIOUS
  <2> HIDE DEF Good
  <2> QED
    BY <1>4, <1>5, <2>1, Induction
<1>7. MaxListens <= MaxListens
  BY <1>3
<1> QED
  BY <1>1, <1>2, <1>3, <1>6, <1>7


(* Holders that have no claim have none together.                          *)
LEMMA TotalOfNone ==
  ASSUME NEW count \in Counts, \A h \in Holders : count[h] = 0
  PROVE  Total(count) = 0
<1>1. PICK f : /\ Total(count) = f[MaxListens] /\ f[0] = count[0]
               /\ \A h \in Subscriptions : f[h] = f[h - 1] + count[h]
  BY TotalFacts
<1>2. /\ Holders = 0..MaxListens /\ Subscriptions = 1..MaxListens /\ MaxListens \in Nat
  BY BoundsAssumption DEF Holders, Program, Subscriptions
<1> DEFINE Zero == {n \in Nat : n <= MaxListens => f[n] = 0}
<1>3. 0 \in Zero
  BY <1>1, <1>2
<1>4. ASSUME NEW n \in Zero PROVE n + 1 \in Zero
  <2>1. CASE n + 1 <= MaxListens
    <3>1. n \in Nat /\ n + 1 \in Subscriptions /\ n + 1 \in Holders /\ (n + 1) - 1 = n /\ f[n] = 0
      BY <1>2, <2>1
    <3>2. f[n + 1] = f[(n + 1) - 1] + count[n + 1] /\ count[n + 1] = 0
      BY <1>1, <3>1
    <3> QED
      BY <3>1, <3>2
  <2> QED
    BY <2>1
<1>5. Zero = Nat
  <2>1. Zero \in SUBSET Nat
    OBVIOUS
  <2> HIDE DEF Zero
  <2> QED
    BY <1>3, <1>4, <2>1, Induction
<1> QED
  BY <1>1, <1>2, <1>5
-----------------------------------------------------------------------------
(* Lists and stacks.                                                       *)
Once(seq) == \A i, j \in DOMAIN seq : seq[i] = seq[j] => i = j

LEMMA PrependFacts ==
  ASSUME NEW S, NEW seq \in Seq(S), NEW s \in S, s \notin ToSet(seq), Once(seq)
  PROVE  /\ <<s>> \o seq \in Seq(S) /\ Once(<<s>> \o seq)
         /\ ToSet(<<s>> \o seq) = {s} \cup ToSet(seq)
<1> DEFINE t == <<s>> \o seq
<1>1. Len(seq) \in Nat /\ DOMAIN seq = 1..Len(seq)
  BY LenProperties
<1>2. <<s>> \in Seq(S) /\ Len(<<s>>) = 1 /\ <<s>>[1] = s
  OBVIOUS
<1>3. /\ t \in Seq(S) /\ Len(t) = 1 + Len(seq)
      /\ \A i \in 1..(1 + Len(seq)) : t[i] = IF i <= 1 THEN <<s>>[i] ELSE seq[i - 1]
  BY <1>2, ConcatProperties
<1>4. DOMAIN t = 1..(1 + Len(seq))
  BY <1>3, LenProperties
<1> HIDE DEF t
<1>5. /\ t[1] = s /\ 1 \in DOMAIN t
      /\ \A i \in DOMAIN t : i # 1 => i - 1 \in DOMAIN seq /\ t[i] = seq[i - 1]
      /\ \A i \in DOMAIN seq : i + 1 \in DOMAIN t /\ t[i + 1] = seq[i]
  BY <1>1, <1>2, <1>3, <1>4
<1>6. ToSet(t) = {s} \cup ToSet(seq)
  <2>1. ToSet(t) \subseteq {s} \cup ToSet(seq)
    BY <1>5 DEF ToSet
  <2>2. s \in ToSet(t)
    BY <1>5 DEF ToSet
  <2>3. ToSet(seq) \subseteq ToSet(t)
    BY <1>5 DEF ToSet
  <2> QED
    BY <2>1, <2>2, <2>3
<1>7. Once(t)
  <2> SUFFICES ASSUME NEW i \in DOMAIN t, NEW j \in DOMAIN t, t[i] = t[j] PROVE i = j
    BY DEF Once
  <2>1. i # 1 => t[i] \in ToSet(seq)
    BY <1>5 DEF ToSet
  <2>2. j # 1 => t[j] \in ToSet(seq)
    BY <1>5 DEF ToSet
  <2>3. CASE i = 1 \/ j = 1
    BY <1>5, <2>1, <2>2, <2>3
  <2>4. CASE i # 1 /\ j # 1
    <3>1. i - 1 \in DOMAIN seq /\ j - 1 \in DOMAIN seq /\ seq[i - 1] = seq[j - 1]
      BY <1>5, <2>4
    <3>2. i - 1 = j - 1
      BY <3>1 DEF Once
    <3> QED
      BY <1>4, <3>2
  <2> QED
    BY <2>3, <2>4
<1> QED
  BY <1>3, <1>6, <1>7 DEF t

(* The search from the head finds the one place of a member.               *)
LEMMA PlaceFacts ==
  ASSUME NEW S, NEW seq \in Seq(S), Once(seq), NEW k \in 1..Len(seq), NEW s, seq[k] = s
  PROVE  {i \in 1..Len(seq) : seq[i] = s} = {k} /\ Min({k}) = k
<1>1. DOMAIN seq = 1..Len(seq)
  BY LenProperties
<1>2. {i \in 1..Len(seq) : seq[i] = s} = {k}
  BY <1>1 DEF Once
<1>3. Min({k}) = k
  BY DEF Min
<1> QED
  BY <1>2, <1>3

LEMMA RemoveFacts ==
  ASSUME NEW S, NEW seq \in Seq(S), Once(seq), NEW s
  PROVE  /\ RemoveFirst(seq, s) \in Seq(S) /\ Once(RemoveFirst(seq, s))
         /\ ToSet(RemoveFirst(seq, s)) = ToSet(seq) \ {s}
<1> DEFINE n == Len(seq)
<1>1. n \in Nat /\ DOMAIN seq = 1..n /\ \A i \in 1..n : seq[i] \in S
  BY LenProperties, ElementOfSeq
<1>2. CASE ~ \E i \in 1..n : seq[i] = s
  <2>1. RemoveFirst(seq, s) = seq
    BY <1>2 DEF RemoveFirst
  <2>2. s \notin ToSet(seq)
    BY <1>1, <1>2 DEF ToSet
  <2> QED
    BY <2>1, <2>2
<1>3. CASE \E i \in 1..n : seq[i] = s
  <2>1. PICK k \in 1..n : seq[k] = s
    BY <1>3
  <2> DEFINE a == SubSeq(seq, 1, k - 1)
             b == SubSeq(seq, k + 1, n)
             t == a \o b
  <2>2. SelectInSeq(seq, LAMBDA x : x = s) = k
    <3>1. {i \in 1..Len(seq) : seq[i] = s} = {k} /\ Min({k}) = k
      BY <2>1, PlaceFacts
    <3> QED
      BY <3>1 DEF SelectInSeq
  <2>3. RemoveFirst(seq, s) = t
    BY <1>3, <2>2 DEF RemoveFirst, RemoveAt
  <2>4. k \in Nat /\ 1 <= k /\ k <= n
    BY <1>1
  <2>5. /\ a \in Seq(S) /\ Len(a) = k - 1
        /\ \A i \in 1..(k - 1) : a[i] = seq[i]
    <3>1. \A i \in 1..(k - 1) : seq[i] \in S
      BY <1>1, <2>4
    <3>2. /\ a \in Seq(S) /\ Len(a) = IF 1 <= k - 1 THEN (k - 1) - 1 + 1 ELSE 0
          /\ \A i \in 1..((k - 1) - 1 + 1) : a[i] = seq[1 + i - 1]
      BY <2>4, <3>1, SubSeqProperties
    <3> HIDE DEF a
    <3> QED
      BY <2>4, <3>2
  <2>6. /\ b \in Seq(S) /\ Len(b) = n - k
        /\ \A i \in 1..(n - k) : b[i] = seq[k + i]
    <3>1. \A i \in (k + 1)..n : seq[i] \in S
      BY <1>1, <2>4
    <3>2. /\ b \in Seq(S) /\ Len(b) = IF k + 1 <= n THEN n - (k + 1) + 1 ELSE 0
          /\ \A i \in 1..(n - (k + 1) + 1) : b[i] = seq[(k + 1) + i - 1]
      BY <1>1, <2>4, <3>1, SubSeqProperties
    <3> HIDE DEF b, n
    <3>3. n - (k + 1) + 1 = n - k /\ (k + 1 <= n \/ n - k = 0)
      BY <1>1, <2>4
    <3>4. \A i \in 1..(n - k) : (k + 1) + i - 1 = k + i
      BY <1>1, <2>4
    <3> QED
      BY <3>2, <3>3, <3>4
  <2> HIDE DEF a, b
  <2>7. /\ t \in Seq(S) /\ Len(t) = (k - 1) + (n - k)
        /\ \A i \in 1..((k - 1) + (n - k)) : t[i] = IF i <= k - 1 THEN a[i] ELSE b[i - (k - 1)]
    <3>1. /\ a \o b \in Seq(S) /\ Len(a \o b) = Len(a) + Len(b)
          /\ \A i \in 1..(Len(a) + Len(b)) :
               (a \o b)[i] = IF i <= Len(a) THEN a[i] ELSE b[i - Len(a)]
      BY <2>5, <2>6, ConcatProperties
    <3> QED
      BY <2>5, <2>6, <3>1
  <2>8. DOMAIN t = 1..(n - 1)
    <3>1. (k - 1) + (n - k) = n - 1
      BY <1>1, <2>4
    <3> QED
      BY <2>7, <3>1, LenProperties
  <2> HIDE DEF t
  <2>9. \A i \in 1..(n - 1) : t[i] = IF i < k THEN seq[i] ELSE seq[i + 1]
    <3> SUFFICES ASSUME NEW i \in 1..(n - 1) PROVE t[i] = IF i < k THEN seq[i] ELSE seq[i + 1]
      OBVIOUS
    <3> HIDE DEF n
    <3>1. t[i] = IF i <= k - 1 THEN a[i] ELSE b[i - (k - 1)]
      BY <1>1, <2>4, <2>7
    <3>2. CASE i < k
      <4>1. i <= k - 1 /\ i \in 1..(k - 1)
        BY <1>1, <2>4, <3>2
      <4> QED
        BY <2>5, <3>1, <3>2, <4>1
    <3>3. CASE ~ (i < k)
      <4>1. ~ (i <= k - 1) /\ i - (k - 1) \in 1..(n - k) /\ k + (i - (k - 1)) = i + 1
        BY <1>1, <2>4, <3>3
      <4> QED
        BY <2>6, <3>1, <3>3, <4>1
    <3> QED
      BY <3>2, <3>3
  <2> HIDE DEF n
  <2> DEFINE old(i) == IF i < k THEN i ELSE i + 1
  <2>10. \A i \in 1..(n - 1) : old(i) \in 1..n /\ old(i) # k /\ t[i] = seq[old(i)]
    BY <1>1, <2>4, <2>9
  <2>11. \A i, j \in 1..(n - 1) : old(i) = old(j) => i = j
    BY <1>1, <2>4
  <2>12. \A j \in 1..n : j # k => \E i \in 1..(n - 1) : old(i) = j
    <3> SUFFICES ASSUME NEW j \in 1..n, j # k PROVE \E i \in 1..(n - 1) : old(i) = j
      OBVIOUS
    <3>1. CASE j < k
      <4>1. j \in 1..(n - 1) /\ old(j) = j
        BY <1>1, <2>4, <3>1
      <4> QED
        BY <4>1
    <3>2. CASE ~ (j < k)
      <4>1. j - 1 \in 1..(n - 1) /\ old(j - 1) = j
        BY <1>1, <2>4, <3>2
      <4> QED
        BY <4>1
    <3> QED
      BY <3>1, <3>2
  <2> HIDE DEF old
  <2>13. Once(t)
    BY <1>1, <2>8, <2>10, <2>11 DEF Once
  <2>14. ToSet(t) \subseteq ToSet(seq) \ {s}
    BY <1>1, <2>1, <2>8, <2>10 DEF Once, ToSet
  <2>15. ToSet(seq) \ {s} \subseteq ToSet(t)
    <3> SUFFICES ASSUME NEW j \in 1..n, seq[j] # s PROVE seq[j] \in ToSet(t)
      BY <1>1 DEF ToSet
    <3>1. PICK i \in 1..(n - 1) : old(i) = j
      BY <2>1, <2>12
    <3>2. t[i] = seq[j] /\ i \in DOMAIN t
      BY <2>8, <2>10, <3>1
    <3> QED
      BY <3>2 DEF ToSet
  <2> QED
    BY <2>3, <2>7, <2>13, <2>14, <2>15
<1> QED
  BY <1>2, <1>3

-----------------------------------------------------------------------------
(* The inductive invariant: the types, in two halves ...                   *)
PeerTypes ==
  /\ peers \subseteq Peers
  /\ node \in [Peers -> Nodes \cup {"none"}]
  /\ claims \in [Peers -> Nat]
  /\ index \in [Nodes -> Peers \cup {None}]
  /\ held \in [Holders -> [Peers -> 0..MaxClaims]]

CallFrames == [op : FrameOps, at : Subscriptions \cup {None}]

CallTypes ==
  /\ subscription \in [Subscriptions -> {"unused", "stable", "frame", "gone"}]
  /\ list \in Seq(Subscriptions) /\ frames \in Seq(Subscriptions)
  /\ listening \subseteq Subscriptions /\ hooks \subseteq Subscriptions
  /\ invalidated \in BOOLEAN /\ registry \in BOOLEAN
  /\ owner \in [Subscriptions -> Holders \cup {Nobody}]
  /\ released \in [Subscriptions -> 0..1]
  /\ stack \in Seq(CallFrames)
  /\ outcome \in {"running", "aborted"}

(* ... a registration not made yet holds nothing, and is nowhere ...       *)
UnusedHoldsNothing ==
  \A s \in Subscriptions : subscription[s] = "unused" => \A p \in Peers : held[s][p] = 0

UnusedIsNowhere ==
  \A s \in Subscriptions : subscription[s] = "unused" =>
    released[s] = 0 /\ s \notin listening /\ owner[s] = Nobody

(* ... the closures that can still be given back are those of the          *)
(* registrations, only a stable one has a claim, and the two lists hold    *)
(* their own kind, each once ...                                           *)
ListsHold ==
  /\ hooks = listening
  /\ \A s \in Subscriptions : owner[s] # Nobody => subscription[s] = "stable"
  /\ \A s \in ToSet(frames) : subscription[s] = "frame"
  /\ Once(list) /\ Once(frames)
  /\ ~ registry => list = <<>>

(* ... and a call in progress: a registration to be deleted is cancelled   *)
(* and claimed by nobody, and from the Invalidate that was called first to *)
(* the end of its loop the frame listeners only become fewer.              *)
FrameHolds(f) ==
  /\ f.op = "delete" => /\ f.at \in Subscriptions /\ subscription[f.at] # "unused"
                        /\ owner[f.at] = Nobody /\ f.at \notin listening
  /\ f.op \in {"frames", "subscriptions", "advance"} => invalidated
  /\ f.op \in {"subscriptions", "advance"} => frames = <<>>

BottomHolds == invalidated /\ frames # <<>> => stack # <<>> /\ stack[1].op = "frames"

StackHolds == (\A f \in ToSet(stack) : FrameHolds(f)) /\ BottomHolds

PeersInv == PeerTypes /\ PeersExact /\ UnusedHoldsNothing
CallsInv == CallTypes /\ RegistrationsExact /\ UnusedIsNowhere /\ ListsHold /\ StackHolds
IInv == PeersInv /\ CallsInv

LEMMA TypesAreBoth == TypeOK <=> PeerTypes /\ CallTypes
BY DEF TypeOK, PeerTypes, CallTypes, CallFrames

LEMMA Numbers ==
  /\ MaxPeers \in Nat /\ MaxListens \in Nat /\ MaxClaims \in Nat
  /\ Program \in Holders /\ Program \notin Subscriptions /\ None \notin Peers
  /\ Subscriptions \subseteq Holders /\ None \notin Subscriptions
  /\ Nobody \notin Holders /\ Nobody # None /\ None \in Holders
BY BoundsAssumption DEF Program, None, Nobody, Holders, Subscriptions, Peers

-----------------------------------------------------------------------------
(* The peers.                                                              *)
Holdings == [Holders -> [Peers -> 0..MaxClaims]]
CountOf(hd, p) == [h \in Holders |-> hd[h][p]]

LEMMA CountFacts ==
  ASSUME NEW hd \in Holdings, NEW p \in Peers
  PROVE  CountOf(hd, p) \in Counts /\ \A h \in Holders : CountOf(hd, p)[h] = hd[h][p]
BY Numbers DEF Holdings, CountOf, Counts

LEMMA HeldGrows ==
  ASSUME NEW hd \in Holdings, NEW more \in Holdings, NEW h \in Holders, NEW p \in Peers,
         more = [hd EXCEPT ![h][p] = @ + 1]
  PROVE  /\ Total(CountOf(more, p)) = Total(CountOf(hd, p)) + 1
         /\ \A q \in Peers : q # p => CountOf(more, q) = CountOf(hd, q)
<1>1. \A k \in Holders : \A q \in Peers :
        more[k][q] = IF k = h /\ q = p THEN hd[h][p] + 1 ELSE hd[k][q]
  BY DEF Holdings
<1>2. \A k \in Holders : CountOf(more, p)[k] = IF k = h THEN CountOf(hd, p)[h] + 1 ELSE CountOf(hd, p)[k]
  <2>1. \A k \in Holders : CountOf(more, p)[k] = more[k][p] /\ CountOf(hd, p)[k] = hd[k][p]
    BY CountFacts
  <2> QED
    BY <1>1, <2>1
<1>3. CountOf(more, p) \in Counts /\ CountOf(hd, p) \in Counts
  BY CountFacts
<1>4. Total(CountOf(more, p)) = Total(CountOf(hd, p)) + 1
  BY <1>2, <1>3, TotalGrows
<1>5. ASSUME NEW q \in Peers, q # p PROVE CountOf(more, q) = CountOf(hd, q)
  BY <1>1, <1>5 DEF CountOf
<1> QED
  BY <1>4, <1>5

Integral == [Holders -> [Peers -> Int]]

LEMMA HeldShrinks ==
  ASSUME NEW hd \in Holdings, NEW less \in Integral, NEW h \in Holders, NEW p \in Peers,
         hd[h][p] > 0,
         \A k \in Holders : \A q \in Peers :
           less[k][q] = IF k = h /\ q = p THEN hd[h][p] - 1 ELSE hd[k][q]
  PROVE  /\ less \in Holdings /\ \A k \in Holders : \A q \in Peers : less[k][q] <= hd[k][q]
         /\ Total(CountOf(hd, p)) = Total(CountOf(less, p)) + 1
         /\ \A q \in Peers : q # p => CountOf(less, q) = CountOf(hd, q)
<1>1. \A k \in Holders : \A q \in Peers : hd[k][q] \in 0..MaxClaims /\ hd[k][q] \in Nat
  BY Numbers DEF Holdings
<1>2. hd[h][p] - 1 \in 0..MaxClaims /\ (hd[h][p] - 1) + 1 = hd[h][p]
  BY <1>1, Numbers
<1>3. \A k \in Holders : \A q \in Peers : less[k][q] \in 0..MaxClaims
  BY <1>1, <1>2
<1>4. less \in Holdings
  <2>1. \A k \in Holders : less[k] \in [Peers -> 0..MaxClaims]
    BY <1>3 DEF Integral
  <2> QED
    BY <2>1 DEF Integral, Holdings
<1>5. \A k \in Holders : \A q \in Peers : less[k][q] <= hd[k][q]
  BY <1>1, <1>2
<1>6. /\ CountOf(less, p) \in Counts /\ CountOf(hd, p) \in Counts
      /\ \A k \in Holders : CountOf(less, p)[k] = less[k][p] /\ CountOf(hd, p)[k] = hd[k][p]
  BY <1>4, CountFacts
<1>7. CountOf(hd, p)[h] = CountOf(less, p)[h] + 1
  BY <1>2, <1>6
<1>8. \A k \in Holders : k # h => CountOf(hd, p)[k] = CountOf(less, p)[k]
  BY <1>6
<1>9. Total(CountOf(hd, p)) = Total(CountOf(less, p)) + 1
  BY <1>6, <1>7, <1>8, TotalGrows
<1>10. ASSUME NEW q \in Peers, q # p PROVE CountOf(less, q) = CountOf(hd, q)
  BY <1>10 DEF CountOf
<1> QED
  BY <1>4, <1>5, <1>9, <1>10

(* What a closure captures the program gives up.                           *)
LEMMA HeldMoves ==
  ASSUME NEW hd \in Holdings, NEW moved \in Integral, NEW s \in Subscriptions,
         NEW captured \in SUBSET Peers,
         \A p \in captured : hd[Program][p] > 0 /\ hd[s][p] = 0,
         \A h \in Holders : \A p \in Peers :
           moved[h][p] = IF p \in captured /\ h = Program THEN hd[h][p] - 1
                         ELSE IF p \in captured /\ h = s THEN 1 ELSE hd[h][p]
  PROVE  /\ moved \in Holdings
         /\ \A p \in Peers : Total(CountOf(moved, p)) = Total(CountOf(hd, p))
<1>1. s \in Holders /\ s # Program /\ Program \in Holders
  BY Numbers
<1>2. \A h \in Holders : \A p \in Peers : hd[h][p] \in 0..MaxClaims /\ hd[h][p] \in Nat
  BY Numbers DEF Holdings
<1>3. ASSUME NEW p \in captured
      PROVE  /\ hd[Program][p] - 1 \in 0..MaxClaims /\ 1 \in 0..MaxClaims
             /\ (hd[Program][p] - 1) + 1 = hd[Program][p]
  BY <1>1, <1>2, Numbers
<1>4. \A h \in Holders : \A p \in Peers : moved[h][p] \in 0..MaxClaims
  BY <1>2, <1>3
<1>5. moved \in Holdings
  <2>1. \A h \in Holders : moved[h] \in [Peers -> 0..MaxClaims]
    BY <1>4 DEF Integral
  <2> QED
    BY <2>1 DEF Integral, Holdings
<1>6. ASSUME NEW p \in Peers PROVE Total(CountOf(moved, p)) = Total(CountOf(hd, p))
  <2>1. CASE p \notin captured
    <3>1. \A h \in Holders : moved[h][p] = hd[h][p]
      BY <2>1
    <3>2. CountOf(moved, p) = CountOf(hd, p)
      BY <3>1 DEF CountOf
    <3> QED
      BY <3>2
  <2>2. CASE p \in captured
    <3>1. /\ CountOf(moved, p) \in Counts /\ CountOf(hd, p) \in Counts
          /\ \A h \in Holders : CountOf(moved, p)[h] = moved[h][p] /\ CountOf(hd, p)[h] = hd[h][p]
      BY <1>5, CountFacts
    <3>2. PICK middle \in Counts :
            \A h \in Holders : middle[h] = IF h = s THEN hd[s][p] + 1 ELSE hd[h][p]
      <4> DEFINE m == [h \in Holders |-> IF h = s THEN hd[s][p] + 1 ELSE hd[h][p]]
      <4>1. m \in Counts
        BY <1>1, <1>2 DEF Counts
      <4> QED
        BY <4>1
    <3>3. middle[Program] = CountOf(moved, p)[Program] + 1
      BY <1>1, <1>3, <2>2, <3>1, <3>2
    <3>4. \A h \in Holders : h # Program => middle[h] = CountOf(moved, p)[h]
      BY <1>1, <2>2, <3>1, <3>2
    <3>5. Total(middle) = Total(CountOf(moved, p)) + 1
      BY <1>1, <3>1, <3>3, <3>4, TotalGrows
    <3>6. middle[s] = CountOf(hd, p)[s] + 1
      BY <1>1, <3>1, <3>2
    <3>7. \A h \in Holders : h # s => middle[h] = CountOf(hd, p)[h]
      BY <3>1, <3>2
    <3>8. Total(middle) = Total(CountOf(hd, p)) + 1
      BY <1>1, <3>1, <3>6, <3>7, TotalGrows
    <3>9. Total(CountOf(moved, p)) \in Nat /\ Total(CountOf(hd, p)) \in Nat
      BY <1>1, <3>1, TotalBounds
    <3> QED
      BY <3>5, <3>8, <3>9
  <2> QED
    BY <2>1, <2>2
<1> QED
  BY <1>5, <1>6

LEMMA PeersKept ==
  ASSUME PeersInv, UNCHANGED <<peerVars, held>>, outcome' = "running" => outcome = "running",
         invalidated => invalidated',
         \A s \in Subscriptions : subscription'[s] = "unused" => subscription[s] = "unused",
         invalidated \in BOOLEAN, invalidated' \in BOOLEAN
  PROVE  PeersInv'
<1>1. PeerTypes'
  BY DEF PeersInv, PeerTypes, peerVars
<1>2. UnusedHoldsNothing'
  BY DEF PeersInv, UnusedHoldsNothing
<1>3. ClaimsExact'
  <2>1. ASSUME outcome' = "running", NEW p \in Peers
        PROVE  claims'[p] = Total([h \in Holders |-> held'[h][p]])
    BY <2>1 DEF PeersInv, PeersExact, ClaimsExact, Running, peerVars
  <2> QED
    BY <2>1 DEF ClaimsExact, Running
<1>4. IndexIsIdentity'
  BY DEF PeersInv, PeersExact, IndexIsIdentity, Running, peerVars
<1> QED
  BY <1>1, <1>2, <1>3, <1>4 DEF PeersInv, PeersExact

LEMMA AcquireKeepsPeers ==
  ASSUME PeersInv, NEW n \in Nodes, Acquire(n)
  PROVE  PeersInv'
<1>1. PICK p \in Peers :
        /\ held[Program][p] < MaxClaims
        /\ IF Existing(n) # None
           THEN /\ p = index[n]
                /\ UNCHANGED <<peers, node, index>>
           ELSE /\ claims[p] = 0 /\ \A q \in 1..p - 1 : claims[q] > 0
                /\ peers' = peers \cup {p}
                /\ node' = [node EXCEPT ![p] = n]
                /\ index' = [index EXCEPT ![n] = p]
        /\ AddClaim(p)
        /\ held' = [held EXCEPT ![Program][p] = @ + 1]
  BY DEF Acquire
<1>2. /\ outcome = "running" /\ outcome' = "running" /\ ~ invalidated /\ ~ invalidated'
      /\ subscription' = subscription
  BY DEF Acquire, Calls, Running, lifetime, subscriptionVars
<1>3. /\ PeerTypes /\ ClaimsExact /\ UnusedHoldsNothing
      /\ \A q \in peers : node[q] \in Nodes /\ index[node[q]] = q /\ claims[q] > 0
      /\ \A m \in Nodes : index[m] # None => index[m] \in peers /\ node[index[m]] = m
  BY <1>2 DEF PeersInv, PeersExact, IndexIsIdentity, Running
<1>4. claims' = [claims EXCEPT ![p] = @ + 1] /\ claims[p] \in Nat
  BY <1>1, <1>3 DEF AddClaim, PeerTypes
<1>5. held \in Holdings /\ held' \in Holdings
  <2>1. held[Program][p] + 1 \in 0..MaxClaims
    BY <1>1, <1>3, Numbers DEF PeerTypes
  <2> QED
    BY <1>1, <1>3, <2>1, Numbers DEF PeerTypes, Holdings
<1>6. ClaimsExact'
  <2> SUFFICES ASSUME NEW q \in Peers PROVE claims'[q] = Total(CountOf(held', q))
    BY DEF ClaimsExact, CountOf
  <2>1. claims[q] = Total(CountOf(held, q))
    BY <1>2, <1>3 DEF ClaimsExact, Running, CountOf
  <2>2. /\ Total(CountOf(held', p)) = Total(CountOf(held, p)) + 1
        /\ q # p => CountOf(held', q) = CountOf(held, q)
    <3>1. PICK hd, more : hd = held /\ more = held'
      OBVIOUS
    <3>2. more = [hd EXCEPT ![Program][p] = @ + 1] /\ hd \in Holdings /\ more \in Holdings
      BY <1>1, <1>5, <3>1
    <3>3. /\ Total(CountOf(more, p)) = Total(CountOf(hd, p)) + 1
          /\ \A r \in Peers : r # p => CountOf(more, r) = CountOf(hd, r)
      BY <3>2, HeldGrows, Numbers
    <3> QED
      BY <3>1, <3>3
  <2>3. claims'[q] = IF q = p THEN claims[p] + 1 ELSE claims[q]
    BY <1>3, <1>4 DEF PeerTypes
  <2> QED
    BY <2>1, <2>2, <2>3
<1>7. UnusedHoldsNothing'
  <2>1. \A s \in Subscriptions : held'[s] = held[s]
    BY <1>1, <1>3, Numbers DEF PeerTypes
  <2> QED
    BY <1>2, <1>3, <2>1 DEF UnusedHoldsNothing
<1>8. CASE index[n] # None
  <2>1. p = index[n] /\ UNCHANGED <<peers, node, index>>
    BY <1>1, <1>8 DEF Existing
  <2>2. PeerTypes'
    BY <1>3, <1>4, <1>5, <2>1 DEF PeerTypes, Holdings
  <2>3. \A q \in peers : claims'[q] > 0
    BY <1>3, <1>4 DEF PeerTypes
  <2>4. IndexIsIdentity'
    BY <1>3, <2>1, <2>3 DEF IndexIsIdentity
  <2> QED
    BY <1>6, <1>7, <2>2, <2>4 DEF PeersInv, PeersExact
<1>9. CASE index[n] = None
  <2>1. /\ claims[p] = 0 /\ peers' = peers \cup {p}
        /\ node' = [node EXCEPT ![p] = n] /\ index' = [index EXCEPT ![n] = p]
    BY <1>1, <1>9 DEF Existing
  <2>2. PeerTypes'
    BY <1>3, <1>4, <1>5, <2>1 DEF PeerTypes, Holdings
  <2>3. p \notin peers
    BY <1>3, <2>1
  <2>4. \A q \in peers : node[q] # n /\ q # p
    BY <1>3, <1>9, <2>3, Numbers DEF PeerTypes
  <2>5. /\ node'[p] = n /\ index'[n] = p /\ claims'[p] = 1
        /\ \A q \in Peers : q # p => node'[q] = node[q] /\ claims'[q] = claims[q]
        /\ \A m \in Nodes : m # n => index'[m] = index[m]
    BY <1>3, <1>4, <2>1 DEF PeerTypes
  <2>6. \A q \in peers' : node'[q] \in Nodes /\ index'[node'[q]] = q /\ claims'[q] > 0
    <3> SUFFICES ASSUME NEW q \in peers \cup {p}
                 PROVE  node'[q] \in Nodes /\ index'[node'[q]] = q /\ claims'[q] > 0
      BY <2>1
    <3>1. CASE q = p
      BY <2>5, <3>1
    <3>2. CASE q # p
      <4>1. q \in peers /\ q \in Peers /\ node[q] # n
        BY <1>3, <2>4, <3>2 DEF PeerTypes
      <4> QED
        BY <1>3, <2>5, <3>2, <4>1
    <3> QED
      BY <3>1, <3>2
  <2>7. \A m \in Nodes : index'[m] # None => index'[m] \in peers' /\ node'[index'[m]] = m
    <3> SUFFICES ASSUME NEW m \in Nodes, index'[m] # None
                 PROVE  index'[m] \in peers' /\ node'[index'[m]] = m
      OBVIOUS
    <3>1. CASE m = n
      BY <2>1, <2>5, <3>1
    <3>2. CASE m # n
      <4>1. index'[m] = index[m] /\ index[m] \in peers /\ node[index[m]] = m
        BY <1>3, <2>5, <3>2
      <4>2. index[m] \in Peers /\ index[m] # p
        BY <1>3, <2>3, <4>1 DEF PeerTypes
      <4> QED
        BY <2>1, <2>5, <4>1, <4>2
    <3> QED
      BY <3>1, <3>2
  <2> QED
    BY <1>6, <1>7, <2>2, <2>6, <2>7 DEF PeersInv, PeersExact, IndexIsIdentity
<1> QED
  BY <1>8, <1>9

(* The last claim takes the peer from the list and the index; one that has *)
(* lost its node, or its registry, is only deleted.                        *)
LEMMA ReleaseNodeKeepsPeers ==
  ASSUME PeersInv, NEW h \in Holders, NEW p \in Peers, held[h][p] > 0, ReleaseNode(h, p), Running,
         subscription' = subscription, invalidated' = invalidated
  PROVE  PeersInv' /\ outcome' \in {"running", "aborted"}
<1>1. held' = [held EXCEPT ![h][p] = @ - 1]
  BY DEF ReleaseNode
<1>2. /\ PeerTypes /\ ClaimsExact /\ UnusedHoldsNothing /\ held \in Holdings
      /\ ~ invalidated => /\ \A q \in peers : node[q] \in Nodes /\ index[node[q]] = q /\ claims[q] > 0
                          /\ \A m \in Nodes : index[m] # None =>
                               index[m] \in peers /\ node[index[m]] = m
  BY DEF PeersInv, PeersExact, IndexIsIdentity, PeerTypes, Holdings
<1>3. /\ held' \in Holdings /\ \A k \in Holders : \A q \in Peers : held'[k][q] <= held[k][q]
      /\ Total(CountOf(held, p)) = Total(CountOf(held', p)) + 1
      /\ \A q \in Peers : q # p => CountOf(held', q) = CountOf(held, q)
  <2>1. PICK hd, less : hd = held /\ less = held'
    OBVIOUS
  <2>2. hd \in Holdings /\ hd[h][p] > 0 /\ hd \in Integral /\ less = [hd EXCEPT ![h][p] = @ - 1]
    BY <1>1, <1>2, <2>1, Numbers DEF Holdings, Integral
  <2>4. /\ less \in Integral
        /\ \A k \in Holders : \A q \in Peers :
             less[k][q] = IF k = h /\ q = p THEN hd[h][p] - 1 ELSE hd[k][q]
    BY <2>2 DEF Integral
  <2>3. /\ less \in Holdings /\ \A k \in Holders : \A q \in Peers : less[k][q] <= hd[k][q]
        /\ Total(CountOf(hd, p)) = Total(CountOf(less, p)) + 1
        /\ \A q \in Peers : q # p => CountOf(less, q) = CountOf(hd, q)
    BY <2>2, <2>4, HeldShrinks
  <2> QED
    BY <2>1, <2>3
<1>4. \A q \in Peers : claims[q] = Total(CountOf(held, q)) /\ Total(CountOf(held', q)) \in Nat
  BY <1>2, <1>3, CountFacts, TotalBounds, Numbers DEF ClaimsExact, CountOf
<1>5. /\ claims' \in [Peers -> Nat]
      /\ \A q \in Peers : claims'[q] = IF q = p THEN claims[p] - 1 ELSE claims[q]
  <2>1. claims[p] - 1 \in Nat /\ (claims[p] = 1 => claims[p] - 1 = 0)
    BY <1>3, <1>4
  <2>2. claims' = [claims EXCEPT ![p] = claims[p] - 1]
    BY <2>1 DEF ReleaseNode, LastClaim
  <2> QED
    BY <1>2, <2>1, <2>2 DEF PeerTypes
<1>6. ClaimsExact'
  <2> SUFFICES ASSUME NEW q \in Peers PROVE claims'[q] = Total(CountOf(held', q))
    BY DEF ClaimsExact, CountOf
  <2> QED
    BY <1>3, <1>4, <1>5
<1>7. UnusedHoldsNothing'
  <2> SUFFICES ASSUME NEW s \in Subscriptions, subscription[s] = "unused", NEW q \in Peers
               PROVE  held'[s][q] = 0
    BY DEF UnusedHoldsNothing
  <2>1. held[s][q] = 0 /\ held'[s][q] <= held[s][q] /\ held'[s][q] \in 0..MaxClaims
    BY <1>2, <1>3, Numbers DEF UnusedHoldsNothing, Holdings
  <2> QED
    BY <2>1, Numbers
<1>8. CASE claims[p] = 1
  <2>1. /\ peers' = peers \ {p} /\ node' = [node EXCEPT ![p] = "none"]
        /\ IF p \notin peers \/ node[p] = "none"
           THEN UNCHANGED <<index, outcome>>
           ELSE IF index[node[p]] = p
           THEN index' = [index EXCEPT ![node[p]] = None] /\ UNCHANGED outcome
           ELSE outcome' = "aborted" /\ UNCHANGED index
    BY <1>8 DEF ReleaseNode, LastClaim, Erase
  <2>2. index' \in [Nodes -> Peers \cup {None}] /\ outcome' \in {"running", "aborted"}
    BY <1>2, <2>1 DEF PeerTypes, Running
  <2>3. PeerTypes'
    BY <1>2, <1>3, <1>5, <2>1, <2>2 DEF PeerTypes, Holdings
  <2>4. IndexIsIdentity'
    <3> SUFFICES ASSUME ~ invalidated, outcome' = "running"
                 PROVE  /\ \A q \in peers' : node'[q] \in Nodes /\ index'[node'[q]] = q /\ claims'[q] > 0
                        /\ \A m \in Nodes : index'[m] # None =>
                             index'[m] \in peers' /\ node'[index'[m]] = m
      BY DEF IndexIsIdentity, Running
    <3>1. \A q \in peers' : /\ q \in peers /\ q # p /\ q \in Peers
                            /\ node'[q] = node[q] /\ claims'[q] = claims[q]
      BY <1>2, <1>5, <2>1 DEF PeerTypes
    <3>2. CASE p \notin peers
      <4>1. index' = index /\ peers' = peers
        BY <2>1, <3>2
      <4>2. \A q \in peers : node'[q] = node[q] /\ claims'[q] = claims[q]
        BY <3>1, <4>1
      <4> QED
        BY <1>2, <4>1, <4>2
    <3>3. CASE p \in peers
      <4>1. node[p] \in Nodes /\ index[node[p]] = p /\ node[p] # "none"
        BY <1>2, <3>3, NodesAssumption
      <4>2. index' = [index EXCEPT ![node[p]] = None]
        BY <2>1, <3>3, <4>1
      <4>3. \A m \in Nodes : index'[m] = IF m = node[p] THEN None ELSE index[m]
        BY <1>2, <4>2 DEF PeerTypes
      <4>4. \A m \in Nodes : m # node[p] /\ index[m] # None => index[m] # p
        BY <1>2, <3>3
      <4>5. ASSUME NEW q \in peers' PROVE node'[q] \in Nodes /\ index'[node'[q]] = q /\ claims'[q] > 0
        <5>1. q \in peers /\ q # p /\ node'[q] = node[q] /\ claims'[q] = claims[q]
          BY <3>1
        <5>2. node[q] \in Nodes /\ index[node[q]] = q /\ claims[q] > 0
          BY <1>2, <5>1
        <5> QED
          BY <4>1, <4>3, <5>1, <5>2
      <4>6. ASSUME NEW m \in Nodes, index'[m] # None PROVE index'[m] \in peers' /\ node'[index'[m]] = m
        <5>1. m # node[p] /\ index'[m] = index[m]
          BY <4>3, <4>6
        <5>2. index[m] \in peers /\ node[index[m]] = m /\ index[m] # p
          BY <1>2, <4>4, <4>6, <5>1
        <5>3. index[m] \in peers'
          BY <2>1, <5>2
        <5> QED
          BY <3>1, <5>1, <5>2, <5>3
      <4> QED
        BY <4>5, <4>6
    <3> QED
      BY <3>2, <3>3
  <2> QED
    BY <1>6, <1>7, <2>2, <2>3, <2>4 DEF PeersInv, PeersExact
<1>9. CASE claims[p] # 1
  <2>1. UNCHANGED <<peers, node, index, outcome>>
    BY <1>9 DEF ReleaseNode
  <2>2. PeerTypes'
    BY <1>2, <1>3, <1>5, <2>1 DEF PeerTypes, Holdings
  <2>3. \A q \in peers : q \in Peers /\ (claims[q] > 0 => claims'[q] > 0)
    <3> SUFFICES ASSUME NEW q \in peers, claims[q] > 0 PROVE claims'[q] > 0
      BY <1>2 DEF PeerTypes
    <3>1. q \in Peers /\ claims[q] \in Nat
      BY <1>2 DEF PeerTypes
    <3> QED
      BY <1>5, <1>9, <3>1
  <2>4. IndexIsIdentity'
    BY <1>2, <2>1, <2>3 DEF IndexIsIdentity
  <2> QED
    BY <1>6, <1>7, <2>1, <2>2, <2>4 DEF PeersInv, PeersExact, Running
<1> QED
  BY <1>8, <1>9

LEMMA ListenKeepsPeers ==
  ASSUME PeersInv, subscription \in [Subscriptions -> {"unused", "stable", "frame", "gone"}],
         NEW s \in Subscriptions, NEW kind \in {"stable", "frame"}, NEW refused \in BOOLEAN,
         NEW captured \in SUBSET Peers, Listen(s, kind, refused, captured)
  PROVE  PeersInv'
<1>1. /\ subscription[s] = "unused" /\ \A p \in captured : held[Program][p] > 0
      /\ UNCHANGED <<peerVars, lifetime, outcome>> /\ outcome = "running"
      /\ held' = [held EXCEPT
           ![Program] = [p \in Peers |-> IF p \in captured THEN @[p] - 1 ELSE @[p]],
           ![s] = [p \in Peers |-> IF p \in captured THEN 1 ELSE 0]]
  <2>1. s >= s
    BY Numbers DEF Subscriptions
  <2> QED
    BY <2>1 DEF Listen, Calls, Running
<1>2. \A t \in Subscriptions : subscription'[t] = "unused" => t # s /\ subscription[t] = "unused"
  BY DEF Listen
<1>3. held \in Holdings /\ \A p \in Peers : held[s][p] = 0
  BY <1>1 DEF PeersInv, PeerTypes, UnusedHoldsNothing, Holdings
<1>4. /\ held' \in Holdings
      /\ \A h \in Holders : \A p \in Peers : h # Program /\ h # s => held'[h][p] = held[h][p]
      /\ \A p \in Peers : Total(CountOf(held', p)) = Total(CountOf(held, p))
  <2>1. PICK hd, moved : hd = held /\ moved = held'
    OBVIOUS
  <2>2. /\ hd \in Holdings /\ hd \in Integral
        /\ \A p \in captured : hd[Program][p] > 0 /\ hd[s][p] = 0
        /\ \A p \in Peers : hd[s][p] = 0
    BY <1>1, <1>3, <2>1, Numbers DEF Holdings, Integral
  <2>3. moved = [hd EXCEPT
          ![Program] = [p \in Peers |-> IF p \in captured THEN @[p] - 1 ELSE @[p]],
          ![s] = [p \in Peers |-> IF p \in captured THEN 1 ELSE 0]]
    BY <1>1, <2>1
  <2>4. s \in Holders /\ s # Program /\ Program \in Holders
    BY Numbers
  <2>5. /\ moved[Program] = [p \in Peers |-> IF p \in captured THEN hd[Program][p] - 1 ELSE hd[Program][p]]
        /\ moved[s] = [p \in Peers |-> IF p \in captured THEN 1 ELSE 0]
        /\ \A h \in Holders : h # Program /\ h # s => moved[h] = hd[h]
        /\ moved = [h \in Holders |-> moved[h]]
    BY <2>2, <2>3, <2>4 DEF Integral
  <2>6. \A h \in Holders : moved[h] \in [Peers -> Int]
    BY <2>2, <2>4, <2>5 DEF Integral
  <2>7. moved \in Integral
    BY <2>5, <2>6 DEF Integral
  <2>8. \A h \in Holders : \A p \in Peers :
          moved[h][p] = IF p \in captured /\ h = Program THEN hd[h][p] - 1
                        ELSE IF p \in captured /\ h = s THEN 1 ELSE hd[h][p]
    BY <2>2, <2>4, <2>5
  <2>9. /\ moved \in Holdings
        /\ \A p \in Peers : Total(CountOf(moved, p)) = Total(CountOf(hd, p))
    <3>1. \A p \in captured : hd[Program][p] > 0 /\ hd[s][p] = 0
      BY <2>2
    <3>2. hd \in Holdings
      BY <2>2
    <3> QED
      BY <2>7, <2>8, <3>1, <3>2, HeldMoves, Zenon
  <2> QED
    BY <2>1, <2>5, <2>9
<1>5. PeerTypes'
  BY <1>1, <1>4 DEF PeersInv, PeerTypes, Holdings, peerVars
<1>6. ClaimsExact'
  <2> SUFFICES ASSUME NEW p \in Peers PROVE claims'[p] = Total(CountOf(held', p))
    BY DEF ClaimsExact, CountOf
  <2>1. claims[p] = Total(CountOf(held, p))
    BY <1>1 DEF PeersInv, PeersExact, ClaimsExact, Running, CountOf
  <2> QED
    BY <1>1, <1>4, <2>1 DEF peerVars
<1>7. IndexIsIdentity'
  BY <1>1 DEF PeersInv, PeersExact, IndexIsIdentity, peerVars, lifetime, Running
<1>8. UnusedHoldsNothing'
  <2> SUFFICES ASSUME NEW t \in Subscriptions, subscription'[t] = "unused", NEW p \in Peers
               PROVE  held'[t][p] = 0
    BY DEF UnusedHoldsNothing
  <2>1. t \in Holders /\ t # Program /\ t # s /\ subscription[t] = "unused"
    BY <1>2, Numbers
  <2> QED
    BY <1>4, <2>1 DEF PeersInv, UnusedHoldsNothing
<1> QED
  BY <1>5, <1>6, <1>7, <1>8 DEF PeersInv, PeersExact

(* Once the realm is invalidated the index promises nothing any more.      *)
LEMMA InvalidatedKeepsPeers ==
  ASSUME PeersInv, invalidated' = TRUE, outcome' = "running" => outcome = "running",
         UNCHANGED <<claims, held, subscription>>, PeerTypes'
  PROVE  PeersInv'
<1>1. ClaimsExact'
  <2>1. ASSUME outcome' = "running", NEW p \in Peers
        PROVE  claims'[p] = Total([h \in Holders |-> held'[h][p]])
    BY <2>1 DEF PeersInv, PeersExact, ClaimsExact, Running
  <2> QED
    BY <2>1 DEF ClaimsExact, Running
<1>2. IndexIsIdentity'
  BY DEF IndexIsIdentity
<1>3. UnusedHoldsNothing'
  BY DEF PeersInv, UnusedHoldsNothing
<1> QED
  BY <1>1, <1>2, <1>3 DEF PeersInv, PeersExact

-----------------------------------------------------------------------------
(* The stack of calls.                                                     *)
LEMMA PushFacts ==
  ASSUME NEW st \in Seq(CallFrames), NEW f \in CallFrames
  PROVE  /\ Append(st, f) \in Seq(CallFrames) /\ Append(st, f) # <<>>
         /\ ToSet(Append(st, f)) = ToSet(st) \cup {f}
         /\ Append(st, f)[1] = IF st = <<>> THEN f ELSE st[1]
<1> DEFINE t == Append(st, f)
<1>1. Len(st) \in Nat /\ DOMAIN st = 1..Len(st)
  BY LenProperties
<1>2. /\ t \in Seq(CallFrames) /\ t # <<>> /\ Len(t) = Len(st) + 1
      /\ \A i \in 1..Len(st) : t[i] = st[i]
      /\ t[Len(st) + 1] = f
  BY AppendProperties
<1>3. DOMAIN t = 1..(Len(st) + 1)
  BY <1>2, LenProperties
<1>4. st = <<>> => Len(st) = 0
  BY EmptySeq
<1>5. st # <<>> => Len(st) # 0
  BY EmptySeq
<1> HIDE DEF t
<1>6. t[1] = IF st = <<>> THEN f ELSE st[1]
  <2>1. CASE st = <<>>
    BY <1>2, <1>4, <2>1
  <2>2. CASE st # <<>>
    <3>1. 1 \in 1..Len(st)
      BY <1>1, <1>5, <2>2
    <3> QED
      BY <1>2, <2>2, <3>1
  <2> QED
    BY <2>1, <2>2
<1>7. ToSet(t) = ToSet(st) \cup {f}
  <2>1. \A i \in 1..(Len(st) + 1) : i = Len(st) + 1 \/ i \in 1..Len(st)
    BY <1>1
  <2>2. Len(st) + 1 \in 1..(Len(st) + 1) /\ 1..Len(st) \subseteq 1..(Len(st) + 1)
    BY <1>1
  <2>3. ToSet(t) \subseteq ToSet(st) \cup {f}
    BY <1>1, <1>2, <1>3, <2>1 DEF ToSet
  <2>4. f \in ToSet(t)
    BY <1>2, <1>3, <2>2 DEF ToSet
  <2>5. ToSet(st) \subseteq ToSet(t)
    <3> SUFFICES ASSUME NEW i \in 1..Len(st) PROVE st[i] \in ToSet(t)
      BY <1>1 DEF ToSet
    <3>1. t[i] = st[i] /\ i \in DOMAIN t
      BY <1>2, <1>3, <2>2
    <3> QED
      BY <3>1 DEF ToSet
  <2> QED
    BY <2>3, <2>4, <2>5
<1> QED
  BY <1>2, <1>6, <1>7 DEF t

LEMMA PopFacts ==
  ASSUME NEW st \in Seq(CallFrames), st # <<>>
  PROVE  /\ Front(st) \in Seq(CallFrames)
         /\ ToSet(Front(st)) \subseteq ToSet(st)
         /\ Last(st) \in CallFrames /\ Last(st) \in ToSet(st)
         /\ Front(st) # <<>> => Front(st)[1] = st[1]
         /\ Front(st) = <<>> => Last(st) = st[1]
<1>1. Len(st) \in Nat \ {0} /\ DOMAIN st = 1..Len(st) /\ \A i \in 1..Len(st) : st[i] \in CallFrames
  BY EmptySeq, LenProperties, ElementOfSeq
<1>2. PICK n \in Nat : Len(st) = n + 1 /\ n = Len(st) - 1
  <2>1. Len(st) - 1 \in Nat /\ Len(st) = (Len(st) - 1) + 1
    BY <1>1
  <2> QED
    BY <2>1
<1>3. Front(st) = SubSeq(st, 1, n)
  BY <1>2 DEF Front
<1>4. /\ SubSeq(st, 1, n) \in Seq(CallFrames)
      /\ Len(SubSeq(st, 1, n)) = IF 1 <= n THEN n - 1 + 1 ELSE 0
      /\ \A i \in 1..(n - 1 + 1) : SubSeq(st, 1, n)[i] = st[1 + i - 1]
  <2>1. \A i \in 1..n : st[i] \in CallFrames
    BY <1>1, <1>2
  <2> QED
    BY <2>1, SubSeqProperties
<1>5. /\ n = IF 1 <= n THEN n - 1 + 1 ELSE 0
      /\ n - 1 + 1 = n
      /\ \A i \in 1..n : 1 + i - 1 = i
  OBVIOUS
<1> DEFINE t == SubSeq(st, 1, n)
<1> HIDE DEF t
<1>6. t \in Seq(CallFrames) /\ Len(t) = n /\ \A i \in 1..n : t[i] = st[i]
  <2>1. \A i \in 1..n : t[i] = st[i]
    BY <1>4, <1>5, Zenon DEF t
  <2>2. Len(t) = n
    BY <1>4, <1>5, Zenon DEF t
  <2> QED
    BY <1>4, <2>1, <2>2 DEF t
<1>7. DOMAIN t = 1..n
  BY <1>6, LenProperties
<1>8. ToSet(t) \subseteq ToSet(st)
  BY <1>1, <1>2, <1>6, <1>7 DEF ToSet
<1>9. Last(st) = st[n + 1] /\ n + 1 \in 1..Len(st)
  BY <1>1, <1>2 DEF Last
<1>10. Last(st) \in CallFrames /\ Last(st) \in ToSet(st)
  BY <1>1, <1>9 DEF ToSet
<1>11. t # <<>> => t[1] = st[1]
  <2> SUFFICES ASSUME t # <<>> PROVE t[1] = st[1]
    OBVIOUS
  <2>1. n # 0
    BY <1>6, EmptySeq
  <2>2. 1 \in 1..n
    BY <2>1
  <2> QED
    BY <1>6, <2>2
<1>12. t = <<>> => Last(st) = st[1]
  <2> SUFFICES ASSUME t = <<>> PROVE Last(st) = st[1]
    OBVIOUS
  <2>1. n = 0
    BY <1>6, EmptySeq
  <2> QED
    BY <1>9, <2>1
<1> QED
  BY <1>3, <1>6, <1>8, <1>10, <1>11, <1>12 DEF t

(* What a step may not undo for the calls below it.                        *)
Onward ==
  /\ \A s \in Subscriptions : subscription[s] # "unused" =>
       /\ subscription'[s] # "unused"
       /\ owner[s] = Nobody => owner'[s] = Nobody
       /\ s \notin listening => s \notin listening'
  /\ invalidated => invalidated'
  /\ invalidated' /\ frames' # <<>> => invalidated /\ frames # <<>>

LEMMA FrameOnward ==
  ASSUME Onward, NEW f, FrameHolds(f), invalidated \in BOOLEAN, invalidated' \in BOOLEAN
  PROVE  FrameHolds(f)'
BY DEF Onward, FrameHolds

(* A call that is added finds what it needs; the first one stays.          *)
LEMMA StackOnward ==
  ASSUME StackHolds, Onward, invalidated \in BOOLEAN, invalidated' \in BOOLEAN,
         \A f \in ToSet(stack') : f \in ToSet(stack) \/ FrameHolds(f)',
         stack # <<>> => stack' # <<>> /\ stack'[1] = stack[1]
  PROVE  StackHolds'
<1>1. \A f \in ToSet(stack') : FrameHolds(f)'
  BY FrameOnward DEF StackHolds
<1>2. BottomHolds'
  BY DEF StackHolds, BottomHolds, Onward
<1> QED
  BY <1>1, <1>2 DEF StackHolds

(* A call that returns is not the loop over the frame listeners, unless    *)
(* that loop is done.                                                      *)
LEMMA StackReturns ==
  ASSUME StackHolds, Onward, invalidated \in BOOLEAN, invalidated' \in BOOLEAN,
         stack \in Seq(CallFrames), stack # <<>>, stack' = Below,
         Top.op # "frames" \/ frames = <<>>
  PROVE  StackHolds'
<1>1. /\ ToSet(Below) \subseteq ToSet(stack)
      /\ Below # <<>> => Below[1] = stack[1]
      /\ Below = <<>> => Top = stack[1]
  BY PopFacts DEF Below, Top
<1>2. \A f \in ToSet(stack') : FrameHolds(f)'
  BY <1>1, FrameOnward DEF StackHolds
<1>3. BottomHolds'
  <2> SUFFICES ASSUME invalidated', frames' # <<>> PROVE stack' # <<>> /\ stack'[1].op = "frames"
    BY DEF BottomHolds
  <2>1. invalidated /\ frames # <<>>
    BY DEF Onward
  <2>2. stack[1].op = "frames"
    BY <2>1 DEF StackHolds, BottomHolds
  <2> QED
    BY <1>1, <2>1, <2>2
<1> QED
  BY <1>2, <1>3 DEF StackHolds

(* A call replaced by its continuation.                                    *)
LEMMA StackTurns ==
  ASSUME StackHolds, Onward, invalidated \in BOOLEAN, invalidated' \in BOOLEAN,
         stack \in Seq(CallFrames), stack # <<>>, NEW f \in CallFrames, FrameHolds(f)',
         \/ stack' = Append(Below, f)
         \/ \E g \in CallFrames : FrameHolds(g)' /\ stack' = Append(Append(Below, f), g),
         frames = <<>>
  PROVE  StackHolds' /\ stack' \in Seq(CallFrames)
<1>1. Below \in Seq(CallFrames) /\ ToSet(Below) \subseteq ToSet(stack)
  BY PopFacts DEF Below
<1>2. /\ Append(Below, f) \in Seq(CallFrames)
      /\ ToSet(Append(Below, f)) = ToSet(Below) \cup {f}
  BY <1>1, PushFacts
<1>3. BottomHolds'
  BY DEF BottomHolds, Onward
<1>4. CASE stack' = Append(Below, f)
  <2>1. \A g \in ToSet(stack') : FrameHolds(g)'
    BY <1>1, <1>2, <1>4, FrameOnward DEF StackHolds
  <2> QED
    BY <1>2, <1>3, <1>4, <2>1 DEF StackHolds
<1>5. CASE \E g \in CallFrames : FrameHolds(g)' /\ stack' = Append(Append(Below, f), g)
  <2>1. PICK g \in CallFrames : FrameHolds(g)' /\ stack' = Append(Append(Below, f), g)
    BY <1>5
  <2>2. /\ stack' \in Seq(CallFrames)
        /\ ToSet(stack') = (ToSet(Below) \cup {f}) \cup {g}
    BY <1>2, <2>1, PushFacts
  <2>3. \A k \in ToSet(stack') : FrameHolds(k)'
    BY <1>1, <2>1, <2>2, FrameOnward DEF StackHolds
  <2> QED
    BY <1>3, <2>2, <2>3 DEF StackHolds
<1> QED
  BY <1>4, <1>5

-----------------------------------------------------------------------------
(* The registrations.                                                      *)
LEMMA HookFrame ==
  ASSUME NEW s \in Subscriptions
  PROVE  /\ Frame("hook", s) \in CallFrames /\ FrameHolds(Frame("hook", s))'
         /\ Frame("delete", s) \in CallFrames /\ Frame("advance", s) \in CallFrames
BY DEF Frame, CallFrames, FrameOps, FrameHolds

LEMMA CancelFacts ==
  ASSUME CallsInv, NEW s \in Subscriptions, NEW rest \in Seq(CallFrames), Cancel(s, rest)
  PROVE  /\ listening' = listening \ {s} /\ hooks' = listening \ {s}
         /\ released' \in [Subscriptions -> 0..1]
         /\ \A t \in Subscriptions :
              released'[t] = IF t = s /\ s \in listening THEN 1 ELSE released[t]
         /\ stack' = rest \/ stack' = Append(rest, Frame("hook", s))
         /\ stack' \in Seq(CallFrames)
         /\ ToSet(stack') \subseteq ToSet(rest) \cup {Frame("hook", s)}
         /\ rest # <<>> => stack' # <<>> /\ stack'[1] = rest[1]
<1>1. /\ listening' = listening \ {s} /\ hooks' = listening \ {s} /\ hooks = listening
      /\ released \in [Subscriptions -> 0..1]
  BY DEF Cancel, Unregister, ClearHook, CallsInv, ListsHold, CallTypes
<1>2. CASE s \in hooks
  <2>1. /\ released' = [released EXCEPT ![s] = @ + 1]
        /\ stack' = Append(rest, Frame("hook", s))
    BY <1>2 DEF Cancel
  <2>2. released[s] = 0
    BY <1>1, <1>2 DEF CallsInv, RegistrationsExact, ClosedBeforeReleased
  <2>3. /\ released' \in [Subscriptions -> 0..1]
        /\ \A t \in Subscriptions : released'[t] = IF t = s THEN 1 ELSE released[t]
    BY <1>1, <2>1, <2>2
  <2> QED
    BY <1>1, <1>2, <2>1, <2>3, HookFrame, PushFacts
<1>3. CASE s \notin hooks
  <2>1. stack' = rest /\ released' = released
    BY <1>3 DEF Cancel
  <2> QED
    BY <1>1, <1>3, <2>1
<1> QED
  BY <1>2, <1>3

LEMMA CancelCloses ==
  ASSUME CallsInv, NEW s \in Subscriptions, NEW rest \in Seq(CallFrames), Cancel(s, rest),
         subscription[s] # "unused" \/ subscription'[s] = "unused",
         \A t \in Subscriptions : t # s => subscription'[t] = subscription[t]
  PROVE  ClosedBeforeReleased'
<1>1. ClosedBeforeReleased
  BY DEF CallsInv, RegistrationsExact
<1>2. /\ listening' = listening \ {s}
      /\ \A t \in Subscriptions :
              released'[t] = IF t = s /\ s \in listening THEN 1 ELSE released[t]
  BY CancelFacts
<1>3. ASSUME NEW t \in Subscriptions
      PROVE  /\ released'[t] = 1 => t \notin listening'
             /\ released'[t] = 0 => t \in listening' \/ subscription'[t] = "unused"
  <2>1. CASE t = s
    BY <1>1, <1>2, <2>1 DEF ClosedBeforeReleased
  <2>2. CASE t # s
    BY <1>1, <1>2, <2>2 DEF ClosedBeforeReleased
  <2> QED
    BY <2>1, <2>2
<1> QED
  BY <1>3 DEF ClosedBeforeReleased

(* The last claim on a registration: it leaves the list before its closure *)
(* is given back, and is deleted only afterwards; without a registry only  *)
(* the deletion is left.                                                   *)
LEMMA ReleaseKeepsCalls ==
  ASSUME CallsInv, NEW s \in Subscriptions, owner[s] # Nobody, ReleaseSubscription(s, stack),
         UNCHANGED <<lifetime, outcome>>
  PROVE  /\ CallsInv'
         /\ \A t \in Subscriptions : subscription'[t] = "unused" => subscription[t] = "unused"
<1> /\ CallTypes /\ RegistrationsExact /\ UnusedIsNowhere /\ ListsHold /\ StackHolds
  BY DEF CallsInv
<1>1. /\ subscription[s] = "stable" /\ s \notin ToSet(frames)
      /\ owner' = [owner EXCEPT ![s] = Nobody] /\ frames' = frames
      /\ invalidated' = invalidated /\ registry' = registry /\ outcome' = outcome
      /\ invalidated \in BOOLEAN
  BY DEF ListsHold, ReleaseSubscription, lifetime, CallTypes
<1>2. /\ owner' \in [Subscriptions -> Holders \cup {Nobody}] /\ owner'[s] = Nobody
      /\ \A t \in Subscriptions : t # s => owner'[t] = owner[t]
  BY <1>1 DEF CallTypes
<1>3. CASE registry
  <2>1. /\ list' = RemoveFirst(list, s) /\ subscription' = subscription
        /\ Cancel(s, Append(stack, Frame("delete", s)))
    BY <1>3 DEF ReleaseSubscription
  <2>2. list' \in Seq(Subscriptions) /\ Once(list') /\ ToSet(list') = ToSet(list) \ {s}
    BY <2>1, RemoveFacts DEF ListsHold, CallTypes
  <2> DEFINE rest == Append(stack, Frame("delete", s))
  <2>3. /\ rest \in Seq(CallFrames) /\ rest # <<>>
        /\ ToSet(rest) = ToSet(stack) \cup {Frame("delete", s)}
        /\ stack # <<>> => rest[1] = stack[1]
    BY HookFrame, PushFacts DEF CallTypes
  <2> HIDE DEF rest
  <2>4. Cancel(s, rest)
    BY <2>1 DEF rest
  <2>5. /\ listening' = listening \ {s} /\ hooks' = listening \ {s}
        /\ released' \in [Subscriptions -> 0..1]
        /\ \A t \in Subscriptions :
             released'[t] = IF t = s /\ s \in listening THEN 1 ELSE released[t]
        /\ stack' \in Seq(CallFrames)
        /\ ToSet(stack') \subseteq ToSet(rest) \cup {Frame("hook", s)}
        /\ stack' # <<>> /\ stack'[1] = rest[1]
    BY <2>3, <2>4, CancelFacts
  <2>6. CallTypes'
    BY <1>1, <1>2, <2>1, <2>2, <2>5 DEF CallTypes
  <2>7. ClosedBeforeReleased'
    BY <1>1, <2>1, <2>3, <2>4, CancelCloses
  <2>8. LinkedWhileListening'
    BY <1>1, <1>2, <2>1, <2>2, <2>5 DEF RegistrationsExact, LinkedWhileListening
  <2>9. UnusedIsNowhere'
    BY <1>1, <1>2, <2>1, <2>5 DEF UnusedIsNowhere
  <2>10. ListsHold'
    <3>1. \A t \in Subscriptions : owner'[t] # Nobody => subscription'[t] = "stable"
      BY <1>2, <2>1 DEF ListsHold
    <3> QED
      BY <1>1, <1>3, <2>1, <2>2, <2>5, <3>1 DEF ListsHold
  <2>11. StackHolds'
    <3>1. Onward
      BY <1>1, <1>2, <2>1, <2>5 DEF Onward
    <3>2. FrameHolds(Frame("delete", s))' /\ FrameHolds(Frame("hook", s))'
      BY <1>1, <1>2, <2>1, <2>5 DEF FrameHolds, Frame
    <3> QED
      BY <1>1, <2>3, <2>5, <3>1, <3>2, StackOnward
  <2> QED
    BY <2>1, <2>6, <2>7, <2>8, <2>9, <2>10, <2>11 DEF CallsInv, RegistrationsExact
<1>4. CASE ~ registry
  <2>1. /\ subscription' = [subscription EXCEPT ![s] = "gone"] /\ stack' = stack
        /\ UNCHANGED <<list, listening, hooks, released>>
        /\ list = <<>> /\ frames = <<>> /\ ToSet(list) = {} /\ ToSet(frames) = {}
    BY <1>4 DEF ReleaseSubscription, ListsHold, RegistrationsExact, LinkedWhileListening, ToSet
  <2>2. /\ subscription' \in [Subscriptions -> {"unused", "stable", "frame", "gone"}]
        /\ subscription'[s] = "gone"
        /\ \A t \in Subscriptions : t # s => subscription'[t] = subscription[t]
    BY <2>1 DEF CallTypes
  <2>3. CallTypes'
    BY <1>1, <1>2, <2>1, <2>2 DEF CallTypes
  <2>4. ClosedBeforeReleased'
    BY <1>1, <2>1, <2>2 DEF RegistrationsExact, ClosedBeforeReleased
  <2>5. LinkedWhileListening'
    BY <1>1, <1>2, <1>4, <2>1, <2>2 DEF RegistrationsExact, LinkedWhileListening
  <2>6. UnusedIsNowhere'
    BY <1>2, <2>1, <2>2 DEF UnusedIsNowhere
  <2>7. ListsHold'
    BY <1>1, <1>2, <2>1, <2>2 DEF ListsHold
  <2>8. StackHolds'
    <3>1. Onward
      BY <1>1, <1>2, <2>1, <2>2 DEF Onward
    <3> QED
      BY <1>1, <2>1, <3>1, StackOnward
  <2> QED
    BY <2>2, <2>3, <2>4, <2>5, <2>6, <2>7, <2>8 DEF CallsInv, RegistrationsExact
<1> QED
  BY <1>3, <1>4

LEMMA CancelFrameKeepsCalls ==
  ASSUME CallsInv, NEW s \in Subscriptions, subscription[s] = "frame", CancelFrame(s, stack),
         UNCHANGED <<owner, lifetime, outcome>>
  PROVE  /\ CallsInv'
         /\ \A t \in Subscriptions : subscription'[t] = "unused" => subscription[t] = "unused"
<1> /\ CallTypes /\ RegistrationsExact /\ UnusedIsNowhere /\ ListsHold /\ StackHolds
  BY DEF CallsInv
<1>1. /\ subscription' = [subscription EXCEPT ![s] = "gone"]
      /\ frames' = RemoveFirst(frames, s) /\ Cancel(s, stack)
      /\ UNCHANGED <<list, owner, invalidated, registry, outcome>>
      /\ owner[s] = Nobody /\ s \notin ToSet(list) /\ invalidated \in BOOLEAN
  BY DEF CancelFrame, UnlinkFrame, ListsHold, lifetime, RegistrationsExact, LinkedWhileListening,
         CallTypes
<1>2. /\ subscription' \in [Subscriptions -> {"unused", "stable", "frame", "gone"}]
      /\ subscription'[s] = "gone"
      /\ \A t \in Subscriptions : t # s => subscription'[t] = subscription[t]
  BY <1>1 DEF CallTypes
<1>3. frames' \in Seq(Subscriptions) /\ Once(frames') /\ ToSet(frames') = ToSet(frames) \ {s}
  BY <1>1, RemoveFacts DEF ListsHold, CallTypes
<1>4. frames = <<>> => frames' = <<>>
  BY <1>1, EmptySeq DEF RemoveFirst
<1>5. /\ listening' = listening \ {s} /\ hooks' = listening \ {s}
      /\ released' \in [Subscriptions -> 0..1]
      /\ \A t \in Subscriptions :
           released'[t] = IF t = s /\ s \in listening THEN 1 ELSE released[t]
      /\ stack' \in Seq(CallFrames)
      /\ ToSet(stack') \subseteq ToSet(stack) \cup {Frame("hook", s)}
      /\ stack # <<>> => stack' # <<>> /\ stack'[1] = stack[1]
  BY <1>1, CancelFacts DEF CallTypes
<1>6. CallTypes'
  BY <1>1, <1>2, <1>3, <1>5 DEF CallTypes
<1>7. ClosedBeforeReleased'
  BY <1>1, <1>2, CancelCloses DEF CallTypes
<1>8. LinkedWhileListening'
  BY <1>1, <1>2, <1>3, <1>4, <1>5 DEF RegistrationsExact, LinkedWhileListening
<1>9. UnusedIsNowhere'
  BY <1>1, <1>2, <1>5 DEF UnusedIsNowhere
<1>10. ListsHold'
  BY <1>1, <1>2, <1>3, <1>5 DEF ListsHold
<1>11. StackHolds'
  <2>1. Onward
    BY <1>1, <1>2, <1>4, <1>5 DEF Onward
  <2> QED
    BY <1>1, <1>5, <2>1, HookFrame, StackOnward
<1> QED
  BY <1>2, <1>6, <1>7, <1>8, <1>9, <1>10, <1>11 DEF CallsInv, RegistrationsExact

LEMMA CallsKept ==
  ASSUME CallsInv, UNCHANGED <<subscriptionVars, owner, lifetime, stack>>,
         outcome' \in {"running", "aborted"}
  PROVE  CallsInv'
<1> /\ CallTypes /\ RegistrationsExact /\ UnusedIsNowhere /\ ListsHold /\ StackHolds
  BY DEF CallsInv
<1>1. UNCHANGED <<subscription, list, frames, listening, hooks, released, owner, invalidated,
                  registry, stack>>
  BY DEF subscriptionVars, lifetime
<1>2. CallTypes'
  BY <1>1 DEF CallTypes
<1>3. RegistrationsExact' /\ UnusedIsNowhere' /\ ListsHold'
  BY <1>1 DEF RegistrationsExact, ClosedBeforeReleased, LinkedWhileListening, UnusedIsNowhere,
              ListsHold
<1>4. StackHolds'
  BY <1>1 DEF StackHolds, BottomHolds, FrameHolds
<1> QED
  BY <1>2, <1>3, <1>4 DEF CallsInv

LEMMA ListenKeepsCalls ==
  ASSUME CallsInv, NEW s \in Subscriptions, NEW kind \in {"stable", "frame"},
         NEW refused \in BOOLEAN, NEW captured \in SUBSET Peers, Listen(s, kind, refused, captured)
  PROVE  CallsInv'
<1> /\ CallTypes /\ RegistrationsExact /\ UnusedIsNowhere /\ ListsHold /\ StackHolds
  BY DEF CallsInv
<1>1. s >= s
  BY Numbers DEF Subscriptions
<1>2. /\ subscription[s] = "unused" /\ stack = <<>> /\ registry /\ invalidated \in BOOLEAN
      /\ invalidated => refused
      /\ UNCHANGED <<invalidated, registry, outcome>>
      /\ released[s] = 0 /\ s \notin listening /\ owner[s] = Nobody
      /\ s \notin ToSet(list) /\ s \notin ToSet(frames)
  BY <1>1 DEF Listen, Calls, lifetime, CallTypes, UnusedIsNowhere, ListsHold, RegistrationsExact,
              LinkedWhileListening
<1>3. CASE refused
  <2>1. /\ subscription' = [subscription EXCEPT ![s] = "gone"]
        /\ released' = [released EXCEPT ![s] = 1]
        /\ stack' = <<Frame("hook", s)>>
        /\ UNCHANGED <<list, frames, listening, hooks, owner>>
    BY <1>3 DEF Listen
  <2>2. /\ subscription' \in [Subscriptions -> {"unused", "stable", "frame", "gone"}]
        /\ released' \in [Subscriptions -> 0..1]
        /\ subscription'[s] = "gone" /\ released'[s] = 1
        /\ \A t \in Subscriptions : t # s =>
             subscription'[t] = subscription[t] /\ released'[t] = released[t]
    BY <2>1 DEF CallTypes
  <2>3. stack' = Append(stack, Frame("hook", s))
    BY <1>2, <2>1
  <2>4. /\ stack' \in Seq(CallFrames)
        /\ ToSet(stack') = ToSet(stack) \cup {Frame("hook", s)}
    BY <2>3, HookFrame, PushFacts DEF CallTypes
  <2>5. CallTypes'
    BY <1>2, <2>1, <2>2, <2>4 DEF CallTypes
  <2>6. RegistrationsExact' /\ UnusedIsNowhere'
    BY <1>2, <2>1, <2>2
       DEF RegistrationsExact, ClosedBeforeReleased, LinkedWhileListening, UnusedIsNowhere
  <2>7. ListsHold'
    BY <1>2, <2>1, <2>2 DEF ListsHold
  <2>8. Onward
    BY <1>2, <2>1, <2>2 DEF Onward
  <2>9. StackHolds'
    BY <1>2, <2>4, <2>8, HookFrame, StackOnward
  <2> QED
    BY <2>5, <2>6, <2>7, <2>9 DEF CallsInv
<1>4. CASE ~ refused
  <2>1. /\ subscription' = [subscription EXCEPT ![s] = kind]
        /\ listening' = listening \cup {s} /\ hooks' = hooks \cup {s}
        /\ IF kind = "stable"
           THEN /\ list' = <<s>> \o list /\ UNCHANGED frames
                /\ owner' = [owner EXCEPT ![s] = Program]
           ELSE frames' = <<s>> \o frames /\ UNCHANGED <<list, owner>>
        /\ UNCHANGED <<released, stack>>
    BY <1>4 DEF Listen
  <2>2. /\ subscription' \in [Subscriptions -> {"unused", "stable", "frame", "gone"}]
        /\ subscription'[s] = kind
        /\ \A t \in Subscriptions : t # s => subscription'[t] = subscription[t]
    BY <2>1 DEF CallTypes
  <2>3. ~ invalidated /\ ~ invalidated'
    BY <1>2, <1>4
  <2>4. Onward
    <3>1. \A t \in Subscriptions : subscription[t] # "unused" => t # s
      BY <1>2
    <3>2. \A t \in Subscriptions : t # s => owner'[t] = owner[t]
      BY <2>1 DEF CallTypes
    <3> QED
      BY <2>1, <2>2, <2>3, <3>1, <3>2 DEF Onward
  <2>5. StackHolds'
    BY <1>2, <2>1, <2>4, StackOnward
  <2>6. CASE kind = "stable"
    <3>1. /\ list' \in Seq(Subscriptions) /\ Once(list') /\ ToSet(list') = {s} \cup ToSet(list)
      <4>1. list' = <<s>> \o list
        BY <2>1, <2>6
      <4>2. list \in Seq(Subscriptions) /\ s \notin ToSet(list) /\ Once(list)
        BY <1>2 DEF CallTypes, ListsHold
      <4>3. PICK seq \in Seq(Subscriptions) : seq = list
        BY <4>2
      <4>4. /\ <<s>> \o seq \in Seq(Subscriptions) /\ Once(<<s>> \o seq)
            /\ ToSet(<<s>> \o seq) = {s} \cup ToSet(seq)
        <5>1. s \notin ToSet(seq) /\ Once(seq)
          BY <4>2, <4>3
        <5> QED
          BY <5>1, PrependFacts
      <4> QED
        BY <4>1, <4>3, <4>4
    <3>2. /\ owner' \in [Subscriptions -> Holders \cup {Nobody}] /\ owner'[s] = Program
          /\ \A t \in Subscriptions : t # s => owner'[t] = owner[t]
          /\ Program # Nobody /\ frames' = frames
      BY <2>1, <2>6, Numbers DEF CallTypes
    <3>3. CallTypes'
      BY <1>2, <2>1, <2>2, <3>1, <3>2 DEF CallTypes
    <3>4. ClosedBeforeReleased' /\ UnusedIsNowhere'
      BY <1>2, <2>1, <2>2, <3>2 DEF RegistrationsExact, ClosedBeforeReleased, UnusedIsNowhere
    <3>5. LinkedWhileListening'
      <4>1. ToSet(list) \subseteq Subscriptions
        BY ElementOfSeq, LenProperties DEF CallTypes, ToSet
      <4>2. /\ registry' /\ listening' \subseteq ToSet(list') \cup ToSet(frames')
            /\ ToSet(frames') \subseteq listening'
        BY <1>2, <2>1, <3>1, <3>2 DEF RegistrationsExact, LinkedWhileListening
      <4>3. \A t \in ToSet(list') : subscription'[t] = "stable" /\ owner'[t] # Nobody
        BY <1>2, <2>2, <2>6, <3>1, <3>2, <4>1 DEF RegistrationsExact, LinkedWhileListening
      <4>4. \A t \in Subscriptions : owner'[t] # Nobody => t \in ToSet(list')
        BY <1>2, <3>1, <3>2 DEF RegistrationsExact, LinkedWhileListening
      <4>5. \A t \in Subscriptions : subscription'[t] = "frame" => t \in ToSet(frames')
        BY <1>2, <2>2, <2>6, <3>2 DEF RegistrationsExact, LinkedWhileListening
      <4> QED
        BY <4>2, <4>3, <4>4, <4>5 DEF LinkedWhileListening
    <3>6. ListsHold'
      BY <1>2, <2>1, <2>2, <2>6, <3>1, <3>2 DEF ListsHold
    <3> QED
      BY <2>5, <3>3, <3>4, <3>5, <3>6 DEF CallsInv, RegistrationsExact
  <2>7. CASE kind = "frame"
    <3>1. /\ frames' \in Seq(Subscriptions) /\ Once(frames') /\ ToSet(frames') = {s} \cup ToSet(frames)
          /\ UNCHANGED <<list, owner>>
      <4>1. frames' = <<s>> \o frames /\ UNCHANGED <<list, owner>>
        BY <2>1, <2>7
      <4>2. frames \in Seq(Subscriptions) /\ s \notin ToSet(frames) /\ Once(frames)
        BY <1>2 DEF CallTypes, ListsHold
      <4>3. PICK seq \in Seq(Subscriptions) : seq = frames
        BY <4>2
      <4>4. /\ <<s>> \o seq \in Seq(Subscriptions) /\ Once(<<s>> \o seq)
            /\ ToSet(<<s>> \o seq) = {s} \cup ToSet(seq)
        <5>1. s \notin ToSet(seq) /\ Once(seq)
          BY <4>2, <4>3
        <5> QED
          BY <5>1, PrependFacts
      <4> QED
        BY <4>1, <4>3, <4>4
    <3>2. CallTypes'
      BY <1>2, <2>1, <2>2, <3>1 DEF CallTypes
    <3>3. ClosedBeforeReleased' /\ UnusedIsNowhere'
      BY <1>2, <2>1, <2>2, <2>7, <3>1 DEF RegistrationsExact, ClosedBeforeReleased, UnusedIsNowhere
    <3>4. LinkedWhileListening'
      BY <1>2, <2>1, <2>2, <2>7, <3>1 DEF RegistrationsExact, LinkedWhileListening
    <3>5. ListsHold'
      BY <1>2, <2>1, <2>2, <2>7, <3>1 DEF ListsHold
    <3> QED
      BY <2>5, <3>2, <3>3, <3>4, <3>5 DEF CallsInv, RegistrationsExact
  <2> QED
    BY <2>6, <2>7
<1> QED
  BY <1>3, <1>4

LEMMA CaptureKeepsCalls ==
  ASSUME CallsInv, NEW s \in Subscriptions, NEW c \in Subscriptions, Capture(s, c)
  PROVE  CallsInv'
<1> /\ CallTypes /\ RegistrationsExact /\ UnusedIsNowhere /\ ListsHold /\ StackHolds
  BY DEF CallsInv
<1>1. /\ owner[s] = Program /\ Program # Nobody /\ c # Nobody /\ c \in Holders
      /\ owner' = [owner EXCEPT ![s] = c]
      /\ UNCHANGED <<subscription, list, frames, listening, hooks, released, invalidated,
                     registry, stack, outcome>>
  BY Numbers DEF Capture, subscriptionVars, lifetime
<1>2. /\ owner' \in [Subscriptions -> Holders \cup {Nobody}]
      /\ \A t \in Subscriptions : owner'[t] = Nobody <=> owner[t] = Nobody
  BY <1>1 DEF CallTypes
<1>3. CallTypes'
  BY <1>1, <1>2 DEF CallTypes
<1>4. RegistrationsExact' /\ UnusedIsNowhere'
  <2>1. ToSet(list) \subseteq Subscriptions
    BY ElementOfSeq, LenProperties DEF CallTypes, ToSet
  <2> QED
    BY <1>1, <1>2, <2>1
       DEF RegistrationsExact, ClosedBeforeReleased, LinkedWhileListening, UnusedIsNowhere
<1>5. ListsHold'
  BY <1>1, <1>2 DEF ListsHold
<1>6. Onward
  BY <1>1, <1>2 DEF Onward
<1>7. StackHolds'
  BY <1>1, <1>6, StackOnward DEF CallTypes
<1> QED
  BY <1>3, <1>4, <1>5, <1>7 DEF CallsInv

(* Steps that change nothing but the stack and whether the realm is        *)
(* invalidated.                                                            *)
LEMMA OnlyTheStack ==
  ASSUME CallsInv, UNCHANGED <<subscriptionVars, owner, registry>>, invalidated' \in BOOLEAN,
         invalidated => invalidated', stack' \in Seq(CallFrames), StackHolds',
         outcome' \in {"running", "aborted"}
  PROVE  CallsInv'
<1> /\ CallTypes /\ RegistrationsExact /\ UnusedIsNowhere /\ ListsHold
  BY DEF CallsInv
<1>1. UNCHANGED <<subscription, list, frames, listening, hooks, released, owner, registry>>
  BY DEF subscriptionVars
<1>2. CallTypes'
  BY <1>1 DEF CallTypes
<1>3. RegistrationsExact' /\ UnusedIsNowhere' /\ ListsHold'
  BY <1>1 DEF RegistrationsExact, ClosedBeforeReleased, LinkedWhileListening, UnusedIsNowhere,
              ListsHold
<1> QED
  BY <1>2, <1>3 DEF CallsInv

LEMMA ReturnKeepsCalls ==
  ASSUME CallsInv, HookReturns \/ InvalidateReturns
  PROVE  CallsInv'
<1> CallTypes /\ StackHolds
  BY DEF CallsInv
<1>1. /\ stack # <<>> /\ Top.op # "frames" /\ stack' = Below
      /\ UNCHANGED <<subscriptionVars, owner, invalidated, registry, outcome>>
  BY DEF HookReturns, InvalidateReturns, holding, lifetime
<1>2. UNCHANGED <<subscription, frames, listening>>
  BY <1>1 DEF subscriptionVars
<1>3. Onward
  BY <1>1, <1>2 DEF Onward
<1>4. StackHolds'
  BY <1>1, <1>3, StackReturns DEF CallTypes
<1>5. stack' \in Seq(CallFrames)
  BY <1>1, PopFacts DEF CallTypes, Below
<1> QED
  BY <1>1, <1>4, <1>5, OnlyTheStack DEF CallTypes

LEMMA DeleteKeepsCalls ==
  ASSUME CallsInv, Delete
  PROVE  /\ CallsInv'
         /\ \A t \in Subscriptions : subscription'[t] = "unused" => subscription[t] = "unused"
<1> /\ CallTypes /\ RegistrationsExact /\ UnusedIsNowhere /\ ListsHold /\ StackHolds
  BY DEF CallsInv
<1>1. /\ stack # <<>> /\ Top.op = "delete" /\ stack' = Below
      /\ subscription' = [subscription EXCEPT ![Top.at] = "gone"]
      /\ UNCHANGED <<list, frames, listening, hooks, released, owner, invalidated, registry, outcome>>
  BY DEF Delete, holding, lifetime
<1>2. PICK s : s = Top.at
  OBVIOUS
<1>3. /\ s \in Subscriptions /\ subscription[s] # "unused" /\ owner[s] = Nobody /\ s \notin listening
      /\ stack' \in Seq(CallFrames)
  BY <1>1, <1>2, PopFacts DEF StackHolds, FrameHolds, CallTypes, Top, Below
<1>4. /\ subscription' \in [Subscriptions -> {"unused", "stable", "frame", "gone"}]
      /\ subscription'[s] = "gone"
      /\ \A t \in Subscriptions : t # s => subscription'[t] = subscription[t]
  BY <1>1, <1>2, <1>3 DEF CallTypes
<1>5. s \notin ToSet(list) /\ s \notin ToSet(frames)
  BY <1>3 DEF RegistrationsExact, LinkedWhileListening
<1>6. CallTypes'
  BY <1>1, <1>3, <1>4 DEF CallTypes
<1>7. RegistrationsExact' /\ UnusedIsNowhere'
  BY <1>1, <1>3, <1>4, <1>5
     DEF RegistrationsExact, ClosedBeforeReleased, LinkedWhileListening, UnusedIsNowhere
<1>8. ListsHold'
  BY <1>1, <1>3, <1>4, <1>5 DEF ListsHold
<1>9. Onward
  BY <1>1, <1>4 DEF Onward
<1>10. StackHolds'
  BY <1>1, <1>9, StackReturns DEF CallTypes
<1> QED
  BY <1>4, <1>6, <1>7, <1>8, <1>10 DEF CallsInv

LEMMA InvalidateKeepsCalls ==
  ASSUME CallsInv, Invalidate
  PROVE  CallsInv'
<1> CallTypes
  BY DEF CallsInv
<1>1. /\ stack = <<>> /\ stack' = <<Frame("frames", None)>> /\ invalidated' = TRUE
      /\ UNCHANGED <<subscriptionVars, owner, registry, outcome>>
  BY DEF Invalidate, Calls, holding
<1>2. Frame("frames", None) \in CallFrames /\ Frame("frames", None).op = "frames"
  BY DEF Frame, CallFrames, FrameOps
<1>3. stack' = Append(stack, Frame("frames", None))
  BY <1>1
<1>4. /\ stack' \in Seq(CallFrames) /\ stack' # <<>> /\ stack'[1] = Frame("frames", None)
      /\ ToSet(stack') = ToSet(stack) \cup {Frame("frames", None)}
  BY <1>1, <1>2, <1>3, PushFacts DEF CallTypes
<1>5. ToSet(stack) = {}
  BY <1>1 DEF ToSet
<1>6. StackHolds'
  BY <1>1, <1>2, <1>4, <1>5 DEF StackHolds, BottomHolds, FrameHolds
<1> QED
  BY <1>1, <1>4, <1>6, OnlyTheStack DEF CallTypes

LEMMA InvalidateFramesKeepsCalls ==
  ASSUME CallsInv, InvalidateFrames
  PROVE  /\ CallsInv'
         /\ \A t \in Subscriptions : subscription'[t] = "unused" => subscription[t] = "unused"
<1> /\ CallTypes /\ RegistrationsExact /\ ListsHold /\ StackHolds
  BY DEF CallsInv
<1>1. /\ stack # <<>> /\ Top.op = "frames"
      /\ UNCHANGED <<owner, lifetime, outcome, invalidated, registry>>
  BY DEF InvalidateFrames, holding, lifetime
<1>2. CASE frames # <<>>
  <2>1. PICK s : s = Head(frames)
    OBVIOUS
  <2>2. s \in Subscriptions /\ s \in ToSet(frames)
    <3>1. 1 \in DOMAIN frames /\ frames[1] = s /\ frames[1] \in Subscriptions
      <4>1. Len(frames) \in Nat \ {0} /\ DOMAIN frames = 1..Len(frames)
        BY <1>2, EmptySeq, LenProperties DEF CallTypes
      <4>2. 1 \in DOMAIN frames
        BY <4>1
      <4> QED
        BY <2>1, <4>1, <4>2, ElementOfSeq DEF CallTypes
    <3> QED
      BY <3>1 DEF ToSet
  <2>3. CancelFrame(s, stack) /\ subscription[s] = "frame"
    BY <1>2, <2>1, <2>2 DEF InvalidateFrames, ListsHold
  <2> QED
    BY <1>1, <2>2, <2>3, CancelFrameKeepsCalls
<1>3. CASE frames = <<>>
  <2> DEFINE f == Frame("subscriptions", FirstOf(list))
  <2>1. stack' = Append(Below, f) /\ UNCHANGED subscriptionVars
    BY <1>3 DEF InvalidateFrames
  <2>2. FirstOf(list) \in Subscriptions \cup {None}
    BY HeadTailProperties DEF FirstOf, CallTypes
  <2>3. f \in CallFrames /\ f.op = "subscriptions"
    BY <2>2 DEF Frame, CallFrames, FrameOps
  <2>4. UNCHANGED <<subscription, frames, listening>>
    BY <2>1 DEF subscriptionVars
  <2>5. Onward
    BY <1>1, <2>4 DEF Onward
  <2>6. invalidated
    BY <1>1, PopFacts DEF StackHolds, FrameHolds, CallTypes, Top
  <2>7. PICK g : g = f
    OBVIOUS
  <2>8. g \in CallFrames /\ FrameHolds(g)' /\ stack' = Append(Below, g)
    BY <1>1, <1>3, <2>1, <2>3, <2>4, <2>6, <2>7 DEF FrameHolds
  <2> HIDE DEF f
  <2>9. StackHolds' /\ stack' \in Seq(CallFrames)
    BY <1>1, <1>3, <2>5, <2>8, StackTurns DEF CallTypes
  <2> QED
    BY <1>1, <2>1, <2>4, <2>9, OnlyTheStack DEF CallTypes
<1> QED
  BY <1>2, <1>3

LEMMA InvalidateSubscriptionKeepsCalls ==
  ASSUME CallsInv, InvalidateSubscription
  PROVE  CallsInv'
<1> /\ CallTypes /\ RegistrationsExact /\ UnusedIsNowhere /\ ListsHold /\ StackHolds
  BY DEF CallsInv
<1>1. PICK s : s = Top.at
  OBVIOUS
<1>2. /\ stack # <<>> /\ Top.op = "subscriptions" /\ s # None
      /\ Cancel(s, Append(Below, Frame("advance", s)))
      /\ UNCHANGED <<subscription, list, frames, owner, invalidated, registry, outcome>>
  BY <1>1 DEF InvalidateSubscription, holding, lifetime
<1>3. /\ Top \in CallFrames /\ Top \in ToSet(stack)
      /\ Below \in Seq(CallFrames) /\ ToSet(Below) \subseteq ToSet(stack)
  BY <1>2, PopFacts DEF CallTypes, Top, Below
<1>4. s \in Subscriptions /\ invalidated /\ frames = <<>>
  <2>1. s \in Subscriptions
    BY <1>1, <1>2, <1>3 DEF CallFrames
  <2> QED
    BY <1>2, <1>3, <2>1 DEF StackHolds, FrameHolds
<1> DEFINE rest == Append(Below, Frame("advance", s))
<1>5. rest \in Seq(CallFrames)
  BY <1>3, <1>4, HookFrame, PushFacts
<1>6. Cancel(s, rest)
  BY <1>2
<1> HIDE DEF rest
<1>7. /\ listening' = listening \ {s} /\ hooks' = listening \ {s}
      /\ released' \in [Subscriptions -> 0..1]
      /\ \A t \in Subscriptions :
           released'[t] = IF t = s /\ s \in listening THEN 1 ELSE released[t]
      /\ stack' = rest \/ stack' = Append(rest, Frame("hook", s))
      /\ stack' \in Seq(CallFrames)
  BY <1>4, <1>5, <1>6, CancelFacts
<1>8. CallTypes'
  BY <1>2, <1>7 DEF CallTypes
<1>9. ClosedBeforeReleased'
  BY <1>2, <1>4, <1>5, <1>6, CancelCloses
<1>10. ToSet(frames) = {}
  BY <1>4 DEF ToSet
<1>11. LinkedWhileListening'
  BY <1>2, <1>4, <1>7, <1>10 DEF RegistrationsExact, LinkedWhileListening
<1>12. UnusedIsNowhere'
  BY <1>2, <1>7 DEF UnusedIsNowhere
<1>13. ListsHold'
  BY <1>2, <1>7 DEF ListsHold
<1>14. Onward
  BY <1>2, <1>7 DEF Onward
<1>15. StackHolds'
  <2>1. PICK f, g : f = Frame("advance", s) /\ g = Frame("hook", s)
    OBVIOUS
  <2>2. /\ f \in CallFrames /\ g \in CallFrames /\ FrameHolds(g)' /\ f.op = "advance"
    BY <1>4, <2>1, HookFrame DEF Frame
  <2>3. FrameHolds(f)'
    BY <1>2, <1>4, <2>2 DEF FrameHolds
  <2>4. \/ stack' = Append(Below, f)
        \/ \E k \in CallFrames : FrameHolds(k)' /\ stack' = Append(Append(Below, f), k)
    BY <1>7, <2>1, <2>2 DEF rest
  <2>5. invalidated \in BOOLEAN /\ invalidated' \in BOOLEAN /\ stack \in Seq(CallFrames)
    BY <1>2 DEF CallTypes
  <2> QED
    BY <1>2, <1>4, <1>14, <2>2, <2>3, <2>4, <2>5, StackTurns
<1> QED
  BY <1>8, <1>9, <1>11, <1>12, <1>13, <1>15 DEF CallsInv, RegistrationsExact

LEMMA AdvanceKeepsCalls ==
  ASSUME CallsInv, Advance
  PROVE  CallsInv'
<1> /\ CallTypes /\ StackHolds
  BY DEF CallsInv
<1>1. /\ stack # <<>> /\ Top.op = "advance" /\ outcome' \in {"running", "aborted"}
      /\ UNCHANGED <<subscriptionVars, owner, invalidated, registry>>
      /\ \/ stack' = stack
         \/ stack' = Append(Below, Frame("subscriptions", None))
         \/ stack' = Append(Below, Frame("subscriptions", NextLink(Top.at)))
  BY DEF Advance, holding, lifetime, CallTypes
<1>2. UNCHANGED <<subscription, frames, listening>>
  BY <1>1 DEF subscriptionVars
<1>3. Onward
  BY <1>1, <1>2 DEF Onward
<1>4. invalidated /\ frames = <<>>
  BY <1>1, PopFacts DEF StackHolds, FrameHolds, CallTypes, Top
<1>5. CASE stack' = stack
  BY <1>1, <1>3, <1>5, StackOnward, OnlyTheStack DEF CallTypes
<1>6. ASSUME NEW at \in Subscriptions \cup {None}, stack' = Append(Below, Frame("subscriptions", at))
      PROVE  CallsInv'
  <2>1. PICK f : f = Frame("subscriptions", at)
    OBVIOUS
  <2>2. f \in CallFrames /\ f.op = "subscriptions"
    BY <2>1 DEF Frame, CallFrames, FrameOps
  <2>3. FrameHolds(f)'
    BY <1>1, <1>2, <1>4, <2>2 DEF FrameHolds
  <2>4. StackHolds' /\ stack' \in Seq(CallFrames)
    BY <1>1, <1>3, <1>4, <1>6, <2>1, <2>2, <2>3, StackTurns DEF CallTypes
  <2> QED
    BY <1>1, <2>4, OnlyTheStack DEF CallTypes
<1>7. NextLink(Top.at) \in Subscriptions \cup {None}
  <2>1. PICK k : k = Place(Top.at)
    OBVIOUS
  <2>2. CASE k \in 1..Len(list) - 1
    <3>1. Len(list) \in Nat
      BY LenProperties DEF CallTypes
    <3>2. k + 1 \in 1..Len(list)
      BY <2>2, <3>1
    <3>3. list[k + 1] \in Subscriptions
      BY <3>2, ElementOfSeq DEF CallTypes
    <3> QED
      BY <2>1, <2>2, <3>3 DEF NextLink
  <2>3. CASE k \notin 1..Len(list) - 1
    BY <2>1, <2>3 DEF NextLink
  <2> QED
    BY <2>2, <2>3
<1> QED
  BY <1>1, <1>5, <1>6, <1>7

LEMMA DestroyKeepsCalls ==
  ASSUME CallsInv, Destroy
  PROVE  CallsInv'
<1> /\ CallTypes /\ RegistrationsExact /\ UnusedIsNowhere /\ ListsHold /\ StackHolds
  BY DEF CallsInv
<1>1. /\ registry' = FALSE /\ list' = <<>> /\ stack = <<>> /\ invalidated
      /\ UNCHANGED <<subscription, frames, listening, hooks, released, owner, invalidated, stack,
                     outcome>>
  BY DEF Destroy, Calls, holding
<1>2. frames = <<>>
  BY <1>1 DEF StackHolds, BottomHolds
<1>3. list' \in Seq(Subscriptions) /\ Once(list') /\ ToSet(list') = {}
  BY <1>1, EmptySeq DEF Once, ToSet
<1>4. CallTypes'
  BY <1>1, <1>3 DEF CallTypes
<1>5. RegistrationsExact' /\ UnusedIsNowhere'
  BY <1>1, <1>2, <1>3
     DEF RegistrationsExact, ClosedBeforeReleased, LinkedWhileListening, UnusedIsNowhere
<1>6. ListsHold'
  BY <1>1, <1>3 DEF ListsHold
<1>7. Onward
  BY <1>1 DEF Onward
<1>8. StackHolds'
  BY <1>1, <1>7, StackOnward DEF CallTypes
<1> QED
  BY <1>4, <1>5, <1>6, <1>8 DEF CallsInv


-----------------------------------------------------------------------------
(* The invariant holds at first, and in every step.                        *)
LEMMA InitHolds == Init => IInv
<1> SUFFICES ASSUME Init PROVE IInv
  OBVIOUS
<1> USE DEF Init
<1>1. PeerTypes
  BY Numbers DEF PeerTypes
<1>2. ClaimsExact
  <2>1. ASSUME NEW p \in Peers PROVE claims[p] = Total(CountOf(held, p))
    <3>1. held \in Holdings
      BY <1>1 DEF PeerTypes, Holdings
    <3>2. CountOf(held, p) \in Counts /\ \A h \in Holders : CountOf(held, p)[h] = held[h][p]
      BY <3>1, CountFacts
    <3>3. \A h \in Holders : held[h][p] = 0
      OBVIOUS
    <3>4. Total(CountOf(held, p)) = 0
      BY <3>2, <3>3, TotalOfNone
    <3> QED
      BY <3>4
  <2> QED
    BY <2>1 DEF ClaimsExact, CountOf
<1>3. IndexIsIdentity
  BY DEF IndexIsIdentity
<1>4. UnusedHoldsNothing
  BY Numbers DEF UnusedHoldsNothing
<1>5. ToSet(<<>>) = {} /\ Once(<<>>) /\ <<>> \in Seq(Subscriptions) /\ <<>> \in Seq(CallFrames)
  BY DEF ToSet, Once
<1>6. CallTypes
  <2>1. /\ subscription \in [Subscriptions -> {"unused", "stable", "frame", "gone"}]
        /\ released \in [Subscriptions -> 0..1]
        /\ owner \in [Subscriptions -> Holders \cup {Nobody}]
    BY Numbers
  <2>2. list \in Seq(Subscriptions) /\ frames \in Seq(Subscriptions) /\ stack \in Seq(CallFrames)
    BY <1>5
  <2> QED
    BY <2>1, <2>2 DEF CallTypes
<1>7. RegistrationsExact
  BY <1>5 DEF RegistrationsExact, ClosedBeforeReleased, LinkedWhileListening
<1>8. UnusedIsNowhere
  BY DEF UnusedIsNowhere
<1>9. ListsHold
  BY <1>5 DEF ListsHold
<1>10. StackHolds
  BY <1>5 DEF StackHolds, BottomHolds
<1> QED
  BY <1>1, <1>2, <1>3, <1>4, <1>6, <1>7, <1>8, <1>9, <1>10 DEF IInv, PeersInv, PeersExact, CallsInv

(* The calls of the program.                                               *)
LEMMA CallKeeps ==
  ASSUME IInv,
         \/ \E n \in Nodes : Acquire(n)
         \/ \E p \in Peers : ProgramReleasesNode(p)
         \/ \E s \in Subscriptions :
              \/ \E kind \in {"stable", "frame"}, refused \in BOOLEAN, captured \in SUBSET Peers :
                   Listen(s, kind, refused, captured)
              \/ \E c \in Subscriptions : Capture(s, c)
              \/ ProgramReleasesSubscription(s)
              \/ ReleaseFrame(s)
         \/ Invalidate
         \/ Destroy
  PROVE  IInv'
<1> /\ PeersInv /\ CallsInv
  BY DEF IInv
<1>0. /\ invalidated \in BOOLEAN /\ outcome \in {"running", "aborted"}
      /\ subscription \in [Subscriptions -> {"unused", "stable", "frame", "gone"}]
      /\ PeerTypes
  BY DEF CallsInv, CallTypes, PeersInv
<1>1. ASSUME NEW n \in Nodes, Acquire(n) PROVE IInv'
  <2>1. UNCHANGED <<subscriptionVars, owner, lifetime, stack, outcome>>
    BY <1>1 DEF Acquire
  <2>2. CallsInv'
    BY <1>0, <2>1, CallsKept
  <2>3. PeersInv'
    BY <1>1, AcquireKeepsPeers
  <2> QED
    BY <2>2, <2>3 DEF IInv
<1>2. ASSUME NEW p \in Peers, ProgramReleasesNode(p) PROVE IInv'
  <2>1. /\ held[Program][p] > 0 /\ ReleaseNode(Program, p) /\ Running
        /\ UNCHANGED <<subscriptionVars, owner, lifetime, stack>>
    BY <1>2 DEF ProgramReleasesNode, Calls
  <2>2. subscription' = subscription /\ invalidated' = invalidated
    BY <2>1 DEF subscriptionVars, lifetime
  <2>3. PeersInv' /\ outcome' \in {"running", "aborted"}
    BY <2>1, <2>2, Numbers, ReleaseNodeKeepsPeers
  <2>4. CallsInv'
    BY <2>1, <2>3, CallsKept
  <2> QED
    BY <2>3, <2>4 DEF IInv
<1>3. ASSUME NEW s \in Subscriptions, NEW kind \in {"stable", "frame"}, NEW refused \in BOOLEAN,
             NEW captured \in SUBSET Peers, Listen(s, kind, refused, captured)
      PROVE  IInv'
  <2>1. PeersInv'
    BY <1>0, <1>3, ListenKeepsPeers
  <2>2. CallsInv'
    BY <1>3, ListenKeepsCalls
  <2> QED
    BY <2>1, <2>2 DEF IInv
<1>4. ASSUME NEW s \in Subscriptions, NEW c \in Subscriptions, Capture(s, c) PROVE IInv'
  <2>1. UNCHANGED <<peerVars, held, outcome, invalidated, subscription>>
    BY <1>4 DEF Capture, subscriptionVars, lifetime
  <2>2. PeersInv'
    BY <1>0, <2>1, PeersKept
  <2>3. CallsInv'
    BY <1>4, CaptureKeepsCalls
  <2> QED
    BY <2>2, <2>3 DEF IInv
<1>5. ASSUME NEW s \in Subscriptions, ProgramReleasesSubscription(s) PROVE IInv'
  <2>1. /\ owner[s] # Nobody /\ ReleaseSubscription(s, stack)
        /\ UNCHANGED <<lifetime, outcome>>
        /\ UNCHANGED <<peerVars, held, outcome, invalidated>>
    BY <1>5, Numbers DEF ProgramReleasesSubscription, lifetime
  <2>2. /\ CallsInv'
        /\ \A t \in Subscriptions : subscription'[t] = "unused" => subscription[t] = "unused"
    BY <2>1, ReleaseKeepsCalls
  <2>3. PeersInv'
    BY <1>0, <2>1, <2>2, PeersKept
  <2> QED
    BY <2>2, <2>3 DEF IInv
<1>6. ASSUME NEW s \in Subscriptions, ReleaseFrame(s) PROVE IInv'
  <2>1. /\ subscription[s] = "frame" /\ CancelFrame(s, stack)
        /\ UNCHANGED <<owner, lifetime, outcome>>
        /\ UNCHANGED <<peerVars, held, outcome, invalidated>>
    BY <1>6 DEF ReleaseFrame, lifetime, holding
  <2>2. /\ CallsInv'
        /\ \A t \in Subscriptions : subscription'[t] = "unused" => subscription[t] = "unused"
    BY <2>1, CancelFrameKeepsCalls
  <2>3. PeersInv'
    BY <1>0, <2>1, <2>2, PeersKept
  <2> QED
    BY <2>2, <2>3 DEF IInv
<1>7. CASE Invalidate
  <2>1. /\ invalidated' = TRUE /\ index' = [n \in Nodes |-> None]
        /\ UNCHANGED <<peers, node, claims, held, subscription, outcome>>
    BY <1>7 DEF Invalidate, subscriptionVars, holding
  <2>2. PeerTypes'
    BY <1>0, <2>1 DEF PeerTypes
  <2>3. PeersInv'
    BY <2>1, <2>2, InvalidatedKeepsPeers
  <2>4. CallsInv'
    BY <1>7, InvalidateKeepsCalls
  <2> QED
    BY <2>3, <2>4 DEF IInv
<1>8. CASE Destroy
  <2>1. /\ invalidated' = TRUE /\ peers' = {}
        /\ UNCHANGED <<node, claims, index, held, subscription, outcome>>
    BY <1>0, <1>8 DEF Destroy, holding
  <2>2. PeerTypes'
    BY <1>0, <2>1 DEF PeerTypes
  <2>3. PeersInv'
    BY <2>1, <2>2, InvalidatedKeepsPeers
  <2>4. CallsInv'
    BY <1>8, DestroyKeepsCalls
  <2> QED
    BY <2>3, <2>4 DEF IInv
<1> QED
  BY <1>1, <1>2, <1>3, <1>4, <1>5, <1>6, <1>7, <1>8

(* The calls in progress.                                                  *)
LEMMA StepKeeps ==
  ASSUME IInv, Step
  PROVE  IInv'
<1> /\ PeersInv /\ CallsInv
  BY DEF IInv
<1>0. /\ invalidated \in BOOLEAN /\ outcome \in {"running", "aborted"} /\ PeerTypes
      /\ stack \in Seq(CallFrames)
      /\ \A f \in ToSet(stack) : FrameHolds(f)
      /\ subscription \in [Subscriptions -> {"unused", "stable", "frame", "gone"}]
  BY DEF CallsInv, CallTypes, PeersInv, StackHolds
<1>1. stack # <<>> => Top \in CallFrames /\ Top \in ToSet(stack) /\ Top.at \in Holders
  <2>1. stack # <<>> => Top \in CallFrames /\ Top \in ToSet(stack)
    BY <1>0, PopFacts DEF Top
  <2>2. \A f \in CallFrames : f.at \in Holders
    BY Numbers DEF CallFrames
  <2> QED
    BY <2>1, <2>2
<1>2. CASE HookReleasesNode
  <2>1. PICK p \in Peers : held[Top.at][p] > 0 /\ ReleaseNode(Top.at, p)
    BY <1>2 DEF HookReleasesNode
  <2>2. PICK h \in Holders : h = Top.at
    BY <1>1, <1>2 DEF HookReleasesNode
  <2>3. held[h][p] > 0 /\ ReleaseNode(h, p)
    BY <2>1, <2>2
  <2>4. Running /\ UNCHANGED <<subscriptionVars, owner, lifetime, stack>>
    BY <1>2 DEF HookReleasesNode
  <2>5. subscription' = subscription /\ invalidated' = invalidated
    BY <2>4 DEF subscriptionVars, lifetime
  <2>6. PeersInv' /\ outcome' \in {"running", "aborted"}
    BY <2>3, <2>4, <2>5, ReleaseNodeKeepsPeers
  <2>7. CallsInv'
    BY <2>4, <2>6, CallsKept
  <2> QED
    BY <2>6, <2>7 DEF IInv
<1>3. CASE HookReleasesSubscription
  <2>1. PICK s \in Subscriptions : owner[s] = Top.at /\ ReleaseSubscription(s, stack)
    BY <1>3 DEF HookReleasesSubscription
  <2>2. /\ owner[s] # Nobody /\ ReleaseSubscription(s, stack)
        /\ UNCHANGED <<lifetime, outcome>> /\ UNCHANGED <<peerVars, held, outcome, invalidated>>
    BY <1>1, <1>3, <2>1, Numbers DEF HookReleasesSubscription, lifetime
  <2>3. /\ CallsInv'
        /\ \A t \in Subscriptions : subscription'[t] = "unused" => subscription[t] = "unused"
    BY <2>2, ReleaseKeepsCalls
  <2>4. PeersInv'
    BY <1>0, <2>2, <2>3, PeersKept
  <2> QED
    BY <2>3, <2>4 DEF IInv
<1>4. CASE HookReturns
  <2>1. UNCHANGED <<peerVars, held, outcome, invalidated, subscription>>
    BY <1>4 DEF HookReturns, subscriptionVars, lifetime, holding
  <2>2. PeersInv'
    BY <1>0, <2>1, PeersKept
  <2>3. CallsInv'
    BY <1>4, ReturnKeepsCalls
  <2> QED
    BY <2>2, <2>3 DEF IInv
<1>5. CASE Delete
  <2>1. UNCHANGED <<peerVars, held, outcome, invalidated>>
    BY <1>5 DEF Delete, lifetime, holding
  <2>2. /\ CallsInv'
        /\ \A t \in Subscriptions : subscription'[t] = "unused" => subscription[t] = "unused"
    BY <1>5, DeleteKeepsCalls
  <2>3. PeersInv'
    BY <1>0, <2>1, <2>2, PeersKept
  <2> QED
    BY <2>2, <2>3 DEF IInv
<1>6. CASE InvalidateFrames
  <2>1. UNCHANGED <<peerVars, held, outcome, invalidated>>
    BY <1>6 DEF InvalidateFrames, lifetime, holding
  <2>2. /\ CallsInv'
        /\ \A t \in Subscriptions : subscription'[t] = "unused" => subscription[t] = "unused"
    BY <1>6, InvalidateFramesKeepsCalls
  <2>3. PeersInv'
    BY <1>0, <2>1, <2>2, PeersKept
  <2> QED
    BY <2>2, <2>3 DEF IInv
<1>7. CASE InvalidateSubscription
  <2>1. UNCHANGED <<peerVars, held, outcome, invalidated, subscription>>
    BY <1>7 DEF InvalidateSubscription, lifetime, holding
  <2>2. PeersInv'
    BY <1>0, <2>1, PeersKept
  <2>3. CallsInv'
    BY <1>7, InvalidateSubscriptionKeepsCalls
  <2> QED
    BY <2>2, <2>3 DEF IInv
<1>8. CASE Advance
  <2>1. UNCHANGED <<peerVars, held, invalidated, subscription>>
    BY <1>8 DEF Advance, subscriptionVars, lifetime, holding
  <2>2. outcome = "running"
    BY <1>8 DEF Advance, Running
  <2>3. PeersInv'
    BY <1>0, <2>1, <2>2, PeersKept
  <2>4. CallsInv'
    BY <1>8, AdvanceKeepsCalls
  <2> QED
    BY <2>3, <2>4 DEF IInv
<1>9. CASE InvalidateReturns
  <2>1. /\ node' = [p \in Peers |-> IF p \in peers THEN "none" ELSE node[p]]
        /\ UNCHANGED <<peers, claims, index, held, subscription, outcome, invalidated>>
    BY <1>9 DEF InvalidateReturns, subscriptionVars, lifetime, holding
  <2>2. PeerTypes'
    BY <1>0, <2>1 DEF PeerTypes
  <2>3. invalidated
    BY <1>0, <1>1, <1>9 DEF InvalidateReturns, FrameHolds
  <2>4. PeersInv'
    BY <1>0, <2>1, <2>2, <2>3, InvalidatedKeepsPeers
  <2>5. CallsInv'
    BY <1>9, ReturnKeepsCalls
  <2> QED
    BY <2>4, <2>5 DEF IInv
<1> QED
  BY <1>2, <1>3, <1>4, <1>5, <1>6, <1>7, <1>8, <1>9 DEF Step

LEMMA Invariance == Spec => []IInv
<1>1. IInv /\ UNCHANGED vars => IInv'
  <2> SUFFICES ASSUME IInv, UNCHANGED vars PROVE IInv'
    OBVIOUS
  <2>1. /\ UNCHANGED <<peerVars, held, outcome, invalidated, subscription>>
        /\ UNCHANGED <<subscriptionVars, owner, lifetime, stack>>
        /\ PeersInv /\ CallsInv /\ invalidated \in BOOLEAN /\ outcome \in {"running", "aborted"}
    BY DEF vars, subscriptionVars, lifetime, holding, IInv, CallsInv, CallTypes
  <2>2. PeersInv'
    BY <2>1, PeersKept
  <2>3. CallsInv'
    BY <2>1, CallsKept
  <2> QED
    BY <2>2, <2>3 DEF IInv
<1>2. IInv /\ Next => IInv'
  BY CallKeeps, StepKeeps DEF Next
<1> QED
  BY <1>1, <1>2, InitHolds, PTL DEF Spec

-----------------------------------------------------------------------------
(* No counter, link or list leaves its type, however the releases nest; in *)
(* particular a closure is given back at most once (released).             *)
THEOREM TypeCorrect == Spec => []TypeOK
<1>1. IInv => TypeOK
  BY TypesAreBoth DEF IInv, PeersInv, CallsInv
<1> QED
  BY <1>1, Invariance, PTL

(* The count of a peer is the number of claims that the program and the    *)
(* closures have on it, so AddClaim and ReleaseManagedNode neither lose    *)
(* one nor delete a peer that is in use; and while the realm lives a node  *)
(* has one peer, which AcquireNode finds.                                  *)
THEOREM PeersCounted == Spec => []PeersExact
<1>1. IInv => PeersExact
  BY DEF IInv, PeersInv
<1> QED
  BY <1>1, Invariance, PTL

(* A listener is unregistered before its closure is given back, and the    *)
(* registry's two lists hold exactly the registrations that may still run: *)
(* the CHECKs of the two unlinking functions never fail, nor does the one  *)
(* of the destructor on the frame listeners.                               *)
THEOREM RegistrationsAgree == Spec => []RegistrationsExact
<1>1. IInv => RegistrationsExact
  BY DEF IInv, CallsInv
<1> QED
  BY <1>1, Invariance, PTL
=============================================================================
