----------------------- MODULE ArtifactExecutorProofs -----------------------
(***************************************************************************)
(* Proofs about ArtifactExecutor for every set of graphs, any concurrency  *)
(* and all settings of the cache, the deadline and the abort signal, and   *)
(* about RunCommand, the promise behind each command an action executes,   *)
(* for every combination of its options.                                   *)
(***************************************************************************)
EXTENDS ArtifactExecutor, RunCommand, FiniteSetTheorems, SequenceTheorems,
        WellFoundedInduction, TLAPS

-----------------------------------------------------------------------------
(* Numbers.  The library's induction theorems take an operator; these take *)
(* a set of numbers in its place.                                          *)
LEMMA LeastMember ==
  ASSUME NEW T \in SUBSET Nat, T # {}
  PROVE  \E x \in T : \A y \in T : x <= y
<1> DEFINE R == OpToRel(<, Nat)
<1>1. IsWellFoundedOn(R, Nat)
  BY NatLessThanWellFounded
<1>2. \A x, y \in Nat : <<y, x>> \in R <=> y < x
  BY DEF OpToRel
<1> HIDE DEF R
<1>3. PICK e \in T : TRUE
  OBVIOUS
<1>4. PICK x \in T : \A y \in T : ~ (<<y, x>> \in R)
  BY <1>1, <1>3, WFMin
<1>5. ASSUME NEW y \in T PROVE x <= y
  <2>1. ~ (y < x)
    BY <1>2, <1>4
  <2> QED
    BY <2>1
<1> QED
  BY <1>5

LEMMA Induction ==
  ASSUME NEW S \in SUBSET Nat, 0 \in S, \A n \in S : n + 1 \in S
  PROVE  S = Nat
<1> SUFFICES ASSUME NEW e \in Nat \ S PROVE FALSE
  OBVIOUS
<1>1. PICK x \in Nat \ S : \A y \in Nat \ S : x <= y
  BY LeastMember
<1>2. x # 0 /\ x - 1 \in Nat /\ ~ (x <= x - 1) /\ (x - 1) + 1 = x
  BY <1>1
<1> QED
  BY <1>1, <1>2

(* A finite set of ids can be put in order, so InIdOrder is one of its     *)
(* orders.                                                                 *)
Ascending(seq, n) == \A i, j \in 1..n : i < j => seq[i] < seq[j]

LEMMA OrderExists ==
  ASSUME NEW S \in SUBSET Nat, IsFiniteSet(S)
  PROVE  \E seq \in [1..Cardinality(S) -> S] : Ascending(seq, Cardinality(S))
<1> DEFINE Ordered == {n \in Nat : \A T \in SUBSET Nat :
      IsFiniteSet(T) /\ Cardinality(T) = n => \E seq \in [1..n -> T] : Ascending(seq, n)}
<1>1. 0 \in Ordered
  <2> SUFFICES ASSUME NEW T \in SUBSET Nat
               PROVE  \E seq \in [1..0 -> T] : Ascending(seq, 0)
    OBVIOUS
  <2> DEFINE empty == [i \in 1..0 |-> 0]
  <2>1. 1..0 = {}
    OBVIOUS
  <2>2. empty \in [1..0 -> T]
    BY <2>1
  <2>3. Ascending(empty, 0)
    BY <2>1 DEF Ascending
  <2> QED
    BY <2>2, <2>3
<1>2. ASSUME NEW n \in Ordered PROVE n + 1 \in Ordered
  <2> SUFFICES ASSUME NEW T \in SUBSET Nat, IsFiniteSet(T), Cardinality(T) = n + 1
               PROVE  \E seq \in [1..(n + 1) -> T] : Ascending(seq, n + 1)
    OBVIOUS
  <2>1. T # {}
    BY FS_EmptySet
  <2>2. PICK x \in T : \A y \in T : x <= y
    BY <2>1, LeastMember
  <2>3. IsFiniteSet(T \ {x}) /\ Cardinality(T \ {x}) = n
    <3>1. IsFiniteSet(T \ {x}) /\ Cardinality(T \ {x}) = Cardinality(T) - 1
      BY FS_RemoveElement
    <3> QED
      BY <3>1
  <2>4. PICK rest \in [1..n -> T \ {x}] : Ascending(rest, n)
    BY <2>3
  <2> DEFINE seq == [i \in 1..(n + 1) |-> IF i = 1 THEN x ELSE rest[i - 1]]
  <2>5. \A i \in 1..(n + 1) : i # 1 => i - 1 \in 1..n /\ rest[i - 1] \in T \ {x}
    BY <2>4
  <2>6. seq \in [1..(n + 1) -> T]
    BY <2>5
  <2>7. ASSUME NEW i \in 1..(n + 1), NEW j \in 1..(n + 1), i < j PROVE seq[i] < seq[j]
    <3>1. j # 1 /\ j - 1 \in 1..n /\ rest[j - 1] \in T /\ rest[j - 1] # x /\ seq[j] = rest[j - 1]
      BY <2>5, <2>7
    <3>2. CASE i = 1
      <4>1. seq[i] = x /\ x <= rest[j - 1] /\ x \in Nat /\ rest[j - 1] \in Nat
        BY <2>2, <3>1, <3>2
      <4> HIDE DEF seq
      <4> QED
        BY <3>1, <4>1
    <3>3. CASE i # 1
      <4>1. i - 1 \in 1..n /\ i - 1 < j - 1 /\ seq[i] = rest[i - 1]
        BY <2>5, <2>7, <3>3
      <4> HIDE DEF seq
      <4>2. rest[i - 1] < rest[j - 1]
        BY <2>4, <3>1, <4>1 DEF Ascending
      <4> QED
        BY <3>1, <4>1, <4>2
    <3> QED
      BY <3>2, <3>3
  <2>8. Ascending(seq, n + 1)
    BY <2>7 DEF Ascending
  <2> QED
    BY <2>6, <2>8
<1>3. Ordered = Nat
  <2> HIDE DEF Ordered
  <2>1. Ordered \in SUBSET Nat
    BY DEF Ordered
  <2> QED
    BY <1>1, <1>2, <2>1, Induction
<1>4. Cardinality(S) \in Nat
  BY FS_CardinalityType
<1> QED
  BY <1>3, <1>4

LEMMA OrderFacts ==
  ASSUME NEW S \in SUBSET Nat, IsFiniteSet(S)
  PROVE  /\ InIdOrder(S) \in Seq(S)
         /\ Len(InIdOrder(S)) \in Nat /\ DOMAIN InIdOrder(S) = 1..Len(InIdOrder(S))
         /\ \A i \in 1..Len(InIdOrder(S)) : InIdOrder(S)[i] \in S
         /\ \A i, j \in 1..Len(InIdOrder(S)) : InIdOrder(S)[i] = InIdOrder(S)[j] => i = j
<1> DEFINE n == Cardinality(S)  seq == InIdOrder(S)
<1>1. n \in Nat
  BY FS_CardinalityType
<1>2. seq \in [1..n -> S] /\ \A i, j \in 1..n : i < j => seq[i] < seq[j]
  BY OrderExists DEF InIdOrder, Ascending
<1> HIDE DEF n, seq
<1>3. seq \in Seq(S) /\ Len(seq) = n /\ DOMAIN seq = 1..n
  BY <1>1, <1>2
<1>4. ASSUME NEW i \in 1..n, NEW j \in 1..n, seq[i] = seq[j] PROVE i = j
  <2>1. seq[i] \in Nat /\ seq[j] \in Nat
    BY <1>2
  <2>2. ~ (i < j) /\ ~ (j < i)
    BY <1>2, <1>4, <2>1
  <2> QED
    BY <1>1, <2>2
<1>5. seq \in Seq(S) /\ Len(seq) \in Nat /\ DOMAIN seq = 1..Len(seq)
  BY <1>1, <1>3
<1>6. \A i \in 1..Len(seq) : seq[i] \in S
  BY <1>2, <1>3
<1>7. \A i, j \in 1..Len(seq) : seq[i] = seq[j] => i = j
  BY <1>3, <1>4
<1> QED
  BY <1>5, <1>6, <1>7 DEF seq

-----------------------------------------------------------------------------
(* What defineArtifactGraph promises of a graph it accepts.                *)
LEMMA AcceptedFacts ==
  ASSUME NEW g, Accepted(g)
  PROVE  ~ UnknownReference(g) /\ ~ ProducerMismatch(g) /\ ~ Cyclic(g) /\ ~ BadArguments(g)
BY DEF Accepted, Diagnostics

(* The origins agree with the outputs in both directions.                  *)
LEMMA OriginFacts ==
  ASSUME NEW g, IsGraph(g), Accepted(g)
  PROVE  /\ Source \notin g.actions
         /\ \A i \in Artifacts(g) : g.origin[i] # Source =>
              g.origin[i] \in g.actions /\ i \in g.outputs[g.origin[i]]
         /\ \A a \in g.actions :
              /\ g.inputs[a] \subseteq Artifacts(g) /\ g.outputs[a] \subseteq Artifacts(g)
              /\ DependenciesOf(g, a) \subseteq g.actions
              /\ \A o \in g.outputs[a] : g.origin[o] = a
<1>1. Source \notin g.actions
  BY DEF IsGraph
<1>2. ~ UnknownReference(g) /\ ~ ProducerMismatch(g)
  BY AcceptedFacts
<1>3. \A i \in Artifacts(g) : g.origin[i] # Source =>
        g.origin[i] \in g.actions /\ i \in g.outputs[g.origin[i]]
  BY <1>2 DEF UnknownReference, ProducerMismatch
<1>4. ASSUME NEW a \in g.actions
      PROVE  /\ g.inputs[a] \subseteq Artifacts(g) /\ g.outputs[a] \subseteq Artifacts(g)
             /\ DependenciesOf(g, a) \subseteq g.actions
             /\ \A o \in g.outputs[a] : g.origin[o] = a
  <2>1. g.inputs[a] \subseteq Artifacts(g) /\ g.outputs[a] \subseteq Artifacts(g)
    BY <1>2 DEF UnknownReference
  <2>2. DependenciesOf(g, a) \subseteq g.actions
    BY <1>3 DEF DependenciesOf
  <2>3. \A o \in g.outputs[a] : g.origin[o] = a
    BY <1>2, <2>1 DEF ProducerMismatch
  <2> QED
    BY <2>1, <2>2, <2>3
<1> QED
  BY <1>1, <1>3, <1>4

(* The rounds of the topological loop, as a function of their number.      *)
Rounds(g, n) ==
  CHOOSE after : after = [k \in 0..n |->
    IF k = 0 THEN g.actions ELSE after[k - 1] \ Round(g, after[k - 1])]

LEMMA RoundsFacts ==
  ASSUME NEW g, NEW n \in Nat
  PROVE  /\ Remaining(g, n) = Rounds(g, n)[n]
         /\ Rounds(g, n)[0] = g.actions
         /\ \A k \in 0..n : k # 0 =>
              Rounds(g, n)[k] = Rounds(g, n)[k - 1] \ Round(g, Rounds(g, n)[k - 1])
<1> DEFINE Solves(f, m) ==
      f = [k \in 0..m |-> IF k = 0 THEN g.actions ELSE f[k - 1] \ Round(g, f[k - 1])]
<1> DEFINE Defined == {m \in Nat : \E f : Solves(f, m)}
<1>1. 0 \in Defined
  <2> DEFINE f == [k \in 0..0 |-> g.actions]
  <2>1. \A k \in 0..0 : k = 0
    OBVIOUS
  <2>2. Solves(f, 0)
    BY <2>1
  <2> QED
    BY <2>2
<1>2. ASSUME NEW m \in Defined PROVE m + 1 \in Defined
  <2>1. PICK f : Solves(f, m)
    OBVIOUS
  <2> DEFINE h == [k \in 0..(m + 1) |-> IF k = m + 1 THEN f[m] \ Round(g, f[m]) ELSE f[k]]
  <2>2. m \in Nat
    OBVIOUS
  <2>3. ASSUME NEW k \in 0..(m + 1)
        PROVE  h[k] = IF k = 0 THEN g.actions ELSE h[k - 1] \ Round(g, h[k - 1])
    <3>1. CASE k = m + 1
      <4>1. k # 0 /\ k - 1 = m /\ m \in 0..(m + 1) /\ m # m + 1
        BY <2>2, <3>1
      <4>2. h[k] = f[m] \ Round(g, f[m]) /\ h[m] = f[m]
        BY <3>1, <4>1
      <4> QED
        BY <4>1, <4>2
    <3>2. CASE k # m + 1
      <4>1. k \in 0..m /\ h[k] = f[k]
        BY <2>2, <3>2
      <4>2. f[k] = IF k = 0 THEN g.actions ELSE f[k - 1] \ Round(g, f[k - 1])
        <5> DEFINE e(j) == IF j = 0 THEN g.actions ELSE f[j - 1] \ Round(g, f[j - 1])
        <5>1. f = [j \in 0..m |-> e(j)]
          BY <2>1
        <5> HIDE DEF e
        <5>2. f[k] = e(k)
          BY <4>1, <5>1
        <5> QED
          BY <5>2 DEF e
      <4>3. k # 0 => k - 1 \in 0..(m + 1) /\ k - 1 # m + 1 /\ h[k - 1] = f[k - 1]
        BY <2>2, <3>2
      <4> QED
        BY <4>1, <4>2, <4>3
    <3> QED
      BY <3>1, <3>2
  <2>4. Solves(h, m + 1)
    <3> DEFINE e(j) == IF j = 0 THEN g.actions ELSE h[j - 1] \ Round(g, h[j - 1])
    <3>1. h = [j \in 0..(m + 1) |-> h[j]]
      OBVIOUS
    <3>2. \A j \in 0..(m + 1) : h[j] = e(j)
      BY <2>3
    <3> HIDE DEF h, e
    <3>3. h = [j \in 0..(m + 1) |-> e(j)]
      BY <3>1, <3>2
    <3> QED
      BY <3>3 DEF e
  <2> HIDE DEF h, Solves
  <2> QED
    BY <2>2, <2>4
<1>3. Defined = Nat
  <2>1. Defined \in SUBSET Nat
    OBVIOUS
  <2> HIDE DEF Defined
  <2> QED
    BY <1>1, <1>2, <2>1, Induction
<1>4. \E f : Solves(f, n)
  BY <1>3
<1> DEFINE f == Rounds(g, n)
<1>5. Solves(f, n)
  BY <1>4 DEF Rounds
<1>6. Remaining(g, n) = f[n]
  BY DEF Remaining, Rounds
<1> HIDE DEF f
<1>7. ASSUME NEW k \in 0..n
      PROVE  f[k] = IF k = 0 THEN g.actions ELSE f[k - 1] \ Round(g, f[k - 1])
  <2> DEFINE e(j) == IF j = 0 THEN g.actions ELSE f[j - 1] \ Round(g, f[j - 1])
  <2>1. f = [j \in 0..n |-> e(j)]
    BY <1>5
  <2> HIDE DEF e
  <2>2. f[k] = e(k)
    BY <2>1
  <2> QED
    BY <2>2 DEF e
<1>8. 0 \in 0..n
  OBVIOUS
<1> QED
  BY <1>6, <1>7, <1>8 DEF f

(* A set of actions each of which waits for another of them survives every *)
(* round: in an accepted graph there is none but the empty one.            *)
LEMMA NoDeadlock ==
  ASSUME NEW g, IsGraph(g), ~ Cyclic(g), NEW stuck \in SUBSET g.actions,
         \A a \in stuck : DependenciesOf(g, a) \cap stuck # {}
  PROVE  stuck = {}
<1> DEFINE n == Cardinality(g.actions)  after == Rounds(g, n)
<1>1. n \in Nat
  BY FS_CardinalityType DEF IsGraph
<1>2. /\ Remaining(g, n) = after[n] /\ after[0] = g.actions
      /\ \A k \in 0..n : k # 0 => after[k] = after[k - 1] \ Round(g, after[k - 1])
  BY <1>1, RoundsFacts
<1>3. Remaining(g, n) = {}
  BY DEF Cyclic
<1> HIDE DEF n, after
<1> DEFINE Survived == {k \in Nat : k <= n => stuck \subseteq after[k]}
<1>4. 0 \in Survived
  BY <1>2
<1>5. ASSUME NEW k \in Survived PROVE k + 1 \in Survived
  <2> SUFFICES ASSUME k + 1 <= n PROVE stuck \subseteq after[k + 1]
    OBVIOUS
  <2>1. stuck \subseteq after[k]
    BY <1>1
  <2>2. k + 1 \in 0..n /\ k + 1 # 0 /\ (k + 1) - 1 = k
    BY <1>1
  <2>3. after[k + 1] = after[k] \ Round(g, after[k])
    BY <1>2, <2>2
  <2>4. stuck \cap Round(g, after[k]) = {}
    BY <2>1 DEF Round
  <2> QED
    BY <2>1, <2>3, <2>4
<1>6. Survived = Nat
  <2>1. Survived \in SUBSET Nat
    OBVIOUS
  <2> HIDE DEF Survived
  <2> QED
    BY <1>4, <1>5, <2>1, Induction
<1>7. stuck \subseteq after[n]
  BY <1>1, <1>6
<1> QED
  BY <1>2, <1>3, <1>7

-----------------------------------------------------------------------------
(* The inductive invariant.  The rest of a round holds distinct actions,   *)
(* all of them due and none completed ...                                  *)
Pending == {i \in DOMAIN ready : offset < i}

RoundHolds ==
  exec \in {"launch", "await"} =>
    /\ \A i, j \in DOMAIN ready : ready[i] = ready[j] => i = j
    /\ \A i \in DOMAIN ready : DependenciesOf(graph, ready[i]) \subseteq completed
    /\ \A i \in Pending : ready[i] \notin completed
    /\ exec = "await" => offset < Len(ready)

(* ... an action that has started was due, and has been collected unless   *)
(* its batch is under way or the execution failed ...                      *)
StartedWhenDue ==
  \A a \in graph.actions : state[a] # "idle" =>
    /\ DependenciesOf(graph, a) \subseteq completed
    /\ a \in completed \/ (exec = "await" /\ a \in Batch) \/ exec = "rejected"

(* ... and what exists are the sources and what was collected.             *)
CollectedExactly ==
  /\ \A a \in completed : state[a] = "reported"
  /\ materialized = {i \in Artifacts(graph) : graph.origin[i] = Source}
                    \cup UNION {graph.outputs[a] : a \in completed}
  /\ exec = "resolved" => completed = graph.actions

IInv ==
  /\ TypeOK /\ Accepted(graph)
  /\ RoundHolds /\ StartedWhenDue /\ CollectedExactly /\ NoCommandAfterAbort

LEMMA InitHolds == Init => IInv
<1> SUFFICES ASSUME Init PROVE IInv
  OBVIOUS
<1>1. graph \in Graphs /\ Accepted(graph) /\ Concurrency \in Nat \ {0}
  BY ExecutorAssumption DEF Init
<1>2. <<>> \in Seq(graph.actions) /\ Len(<<>>) = 0
  OBVIOUS
<1>3. TypeOK
  <2>1. offset \in 0..Len(ready) + Concurrency - 1
    BY <1>1, <1>2 DEF Init
  <2>2. state \in [graph.actions -> {"idle", "reported", "threw"} \cup Active]
    BY DEF Init
  <2> QED
    BY <1>1, <1>2, <2>1, <2>2 DEF Init, TypeOK
<1>4. RoundHolds /\ NoCommandAfterAbort
  BY DEF Init, RoundHolds, NoCommandAfterAbort
<1>5. StartedWhenDue
  BY DEF Init, StartedWhenDue
<1>6. CollectedExactly
  BY DEF Init, CollectedExactly
<1> QED
  BY <1>1, <1>3, <1>4, <1>5, <1>6 DEF IInv

(* The batch, as positions of the round.                                   *)
LEMMA BatchFacts ==
  ASSUME TypeOK
  PROVE  /\ Len(ready) \in Nat /\ DOMAIN ready = 1..Len(ready)
         /\ offset \in Nat /\ Concurrency \in Nat \ {0}
         /\ Batch \subseteq graph.actions
         /\ \A a \in Batch : \E i \in DOMAIN ready :
              i \in Pending /\ i <= offset + Concurrency /\ ready[i] = a
<1>1. ready \in Seq(graph.actions) /\ offset \in 0..Len(ready) + Concurrency - 1
  BY DEF TypeOK
<1>2. Len(ready) \in Nat /\ DOMAIN ready = 1..Len(ready) /\ \A i \in 1..Len(ready) : ready[i] \in graph.actions
  BY <1>1, LenProperties, ElementOfSeq
<1>3. Concurrency \in Nat \ {0} /\ offset \in Nat
  BY <1>1, ExecutorAssumption
<1> QED
  BY <1>2, <1>3 DEF Batch, Pending

(* A step of one action that has started.                                  *)
LEMMA MoveKeeps ==
  ASSUME IInv, NEW a \in graph.actions, state[a] \in Active,
         NEW to \in {"reported", "threw"} \cup Active, Move(a, to),
         to = "running" => ~ aborted,
         verification' \in {"none", "pending", "good", "bad"}
  PROVE  IInv'
<1>1. /\ UNCHANGED <<graph, exec, ready, offset, completed, materialized, aborted>>
      /\ state' = [state EXCEPT ![a] = to]
  BY DEF Move
<1>2. /\ state \in [graph.actions -> {"idle", "reported", "threw"} \cup Active]
      /\ state' \in [graph.actions -> {"idle", "reported", "threw"} \cup Active]
      /\ \A b \in graph.actions : state'[b] = IF b = a THEN to ELSE state[b]
  BY <1>1 DEF IInv, TypeOK
<1>3. state[a] # "idle" /\ state[a] # "reported" /\ to # "idle"
  BY DEF Active
<1>4. TypeOK'
  BY <1>1, <1>2 DEF IInv, TypeOK
<1>5. Accepted(graph)' /\ RoundHolds' /\ Batch' = Batch
  BY <1>1 DEF IInv, RoundHolds, Pending, Batch
<1>6. StartedWhenDue'
  <2>1. \A b \in graph.actions : state'[b] # "idle" => state[b] # "idle"
    BY <1>2, <1>3
  <2> QED
    BY <1>1, <1>5, <2>1 DEF IInv, StartedWhenDue
<1>7. CollectedExactly'
  <2>1. completed \subseteq graph.actions /\ a \notin completed
    BY <1>3 DEF IInv, TypeOK, CollectedExactly
  <2>2. \A b \in completed : state'[b] = "reported"
    BY <1>2, <2>1 DEF IInv, CollectedExactly
  <2> QED
    BY <1>1, <2>2 DEF IInv, CollectedExactly
<1>8. NoCommandAfterAbort'
  BY <1>1, <1>2 DEF IInv, NoCommandAfterAbort
<1> QED
  BY <1>4, <1>5, <1>6, <1>7, <1>8 DEF IInv

LEMMA SelectKeeps ==
  ASSUME IInv, SelectReady
  PROVE  IInv'
<1>1. /\ exec = "select"
      /\ UNCHANGED <<graph, state, completed, materialized, verification, aborted>>
  BY DEF SelectReady
<1>2. IsGraph(graph) /\ graph.actions \subseteq Nat /\ IsFiniteSet(graph.actions)
  BY GraphsAssumption DEF IInv, TypeOK, IsGraph
<1>3. Accepted(graph)' /\ NoCommandAfterAbort'
  BY <1>1 DEF IInv, NoCommandAfterAbort
<1>4. \A a \in graph.actions : state[a] # "idle" =>
        DependenciesOf(graph, a) \subseteq completed /\ a \in completed
  BY <1>1 DEF IInv, StartedWhenDue
<1>5. StartedWhenDue'
  BY <1>1, <1>4 DEF StartedWhenDue
<1>6. CASE exec' \in Final /\ UNCHANGED <<ready, offset>> /\ (exec' = "resolved" => completed = graph.actions)
  <2>1. TypeOK'
    BY <1>1, <1>6 DEF IInv, TypeOK
  <2>2. RoundHolds'
    BY <1>6 DEF RoundHolds, Final
  <2>3. CollectedExactly'
    BY <1>1, <1>6 DEF IInv, CollectedExactly
  <2> QED
    BY <1>3, <1>5, <2>1, <2>2, <2>3 DEF IInv
<1>7. CASE exec' = "launch" /\ ready' = InIdOrder(ReadyActions) /\ offset' = 0
  <2> DEFINE S == ReadyActions
  <2>1. S \subseteq graph.actions /\ S \in SUBSET Nat /\ IsFiniteSet(S)
    BY <1>2, FS_Subset DEF ReadyActions
  <2> HIDE DEF S
  <2> DEFINE order == InIdOrder(S)
  <2>2. /\ order \in Seq(S) /\ Len(order) \in Nat /\ DOMAIN order = 1..Len(order)
        /\ \A i \in 1..Len(order) : order[i] \in S
        /\ \A i, j \in 1..Len(order) : order[i] = order[j] => i = j
    BY <2>1, OrderFacts
  <2> HIDE DEF order
  <2>3. ready' = order
    BY <1>7 DEF order, S
  <2>4. /\ ready' \in Seq(S) /\ Len(ready') \in Nat /\ DOMAIN ready' = 1..Len(ready')
        /\ \A i \in DOMAIN ready' : ready'[i] \in S
        /\ \A i, j \in DOMAIN ready' : ready'[i] = ready'[j] => i = j
    BY <2>2, <2>3
  <2>5. ready' \in Seq(graph.actions)
    BY <2>1, <2>4, SeqMonotonic
  <2>6. offset' \in 0..Len(ready') + Concurrency - 1
    BY <1>7, <2>4, ExecutorAssumption
  <2>7. TypeOK'
    BY <1>1, <1>7, <2>5, <2>6 DEF IInv, TypeOK
  <2>8. RoundHolds'
    BY <1>1, <1>7, <2>4, <2>6 DEF RoundHolds, Pending, ReadyActions, S
  <2>9. CollectedExactly'
    BY <1>1, <1>7 DEF IInv, CollectedExactly
  <2> QED
    BY <1>3, <1>5, <2>7, <2>8, <2>9 DEF IInv
<1> QED
  BY <1>6, <1>7 DEF SelectReady, Final

LEMMA LaunchKeeps ==
  ASSUME IInv, LaunchBatch
  PROVE  IInv'
<1>1. /\ exec = "launch"
      /\ UNCHANGED <<graph, ready, offset, completed, materialized, verification, aborted>>
  BY DEF LaunchBatch
<1>2. Accepted(graph)' /\ Batch' = Batch /\ Pending' = Pending
  BY <1>1 DEF IInv, Batch, Pending
<1>3. \A a \in graph.actions : state[a] # "idle" =>
        DependenciesOf(graph, a) \subseteq completed /\ a \in completed
  BY <1>1 DEF IInv, StartedWhenDue
<1>4. CASE RoundDone /\ exec' = "select" /\ UNCHANGED state
  <2>1. TypeOK' /\ RoundHolds' /\ NoCommandAfterAbort'
    BY <1>1, <1>4 DEF IInv, TypeOK, RoundHolds, NoCommandAfterAbort
  <2>2. StartedWhenDue' /\ CollectedExactly'
    BY <1>1, <1>3, <1>4 DEF IInv, StartedWhenDue, CollectedExactly
  <2> QED
    BY <1>2, <2>1, <2>2 DEF IInv
<1>5. CASE ~ RoundDone /\ exec' = "await" /\
           state' = [a \in graph.actions |->
                IF a \notin Batch THEN state[a]
                ELSE IF CacheBound /\ a \in graph.cacheable THEN "restoring" ELSE "verifying"]
  <2>1. /\ Len(ready) \in Nat /\ DOMAIN ready = 1..Len(ready) /\ offset \in Nat
        /\ \A a \in Batch : \E i \in DOMAIN ready : i \in Pending /\ ready[i] = a
    BY BatchFacts DEF IInv
  <2>2. offset < Len(ready)
    BY <1>5, <2>1 DEF RoundDone
  <2>3. \A a \in Batch : a \notin completed /\ DependenciesOf(graph, a) \subseteq completed
    BY <1>1, <2>1 DEF IInv, RoundHolds
  <2>4. /\ state \in [graph.actions -> {"idle", "reported", "threw"} \cup Active]
        /\ completed \subseteq graph.actions
    BY DEF IInv, TypeOK
  <2>5. /\ \A a \in graph.actions : a \notin Batch => state'[a] = state[a]
        /\ \A a \in graph.actions : a \in Batch => state'[a] \in {"restoring", "verifying"}
    BY <1>5
  <2>6. state' \in [graph.actions -> {"idle", "reported", "threw"} \cup Active]
    BY <1>5, <2>4 DEF Active
  <2>7. TypeOK'
    BY <1>1, <1>5, <2>6 DEF IInv, TypeOK
  <2>8. RoundHolds'
    BY <1>1, <1>2, <1>5, <2>2 DEF IInv, RoundHolds
  <2>9. StartedWhenDue'
    BY <1>1, <1>2, <1>3, <1>5, <2>3, <2>5 DEF StartedWhenDue
  <2>10. CollectedExactly'
    <3>1. \A a \in completed : state'[a] = "reported"
      BY <2>3, <2>4, <2>5 DEF IInv, CollectedExactly
    <3> QED
      BY <1>1, <1>5, <3>1 DEF IInv, CollectedExactly
  <2>11. NoCommandAfterAbort'
    BY <1>1, <2>5 DEF IInv, NoCommandAfterAbort
  <2> QED
    BY <1>2, <2>7, <2>8, <2>9, <2>10, <2>11 DEF IInv
<1> QED
  BY <1>4, <1>5 DEF LaunchBatch

LEMMA CollectKeeps ==
  ASSUME IInv, CollectReports
  PROVE  IInv'
<1>1. /\ exec = "await" /\ \A a \in Batch : state[a] = "reported"
      /\ completed' = completed \cup Batch
      /\ materialized' = materialized \cup UNION {graph.outputs[a] : a \in Batch}
      /\ offset' = offset + Concurrency /\ exec' = "launch"
      /\ UNCHANGED <<graph, ready, state, verification, aborted>>
  BY DEF CollectReports
<1>2. /\ Len(ready) \in Nat /\ DOMAIN ready = 1..Len(ready)
      /\ offset \in Nat /\ Concurrency \in Nat \ {0} /\ Batch \subseteq graph.actions
      /\ \A a \in Batch : \E i \in DOMAIN ready :
           i \in Pending /\ i <= offset + Concurrency /\ ready[i] = a
  BY BatchFacts DEF IInv
<1>3. /\ \A i, j \in DOMAIN ready : ready[i] = ready[j] => i = j
      /\ \A i \in DOMAIN ready : DependenciesOf(graph, ready[i]) \subseteq completed
      /\ \A i \in Pending : ready[i] \notin completed
      /\ offset < Len(ready)
  BY <1>1 DEF IInv, RoundHolds
<1>4. IsGraph(graph)
  BY GraphsAssumption DEF IInv, TypeOK
<1>5. \A a \in graph.actions : graph.outputs[a] \subseteq Artifacts(graph)
  BY <1>4, OriginFacts DEF IInv
<1>6. TypeOK'
  <2>1. offset' \in 0..Len(ready) + Concurrency - 1
    BY <1>1, <1>2, <1>3
  <2>2. completed' \subseteq graph.actions
    BY <1>1, <1>2 DEF IInv, TypeOK
  <2>3. materialized' \subseteq Artifacts(graph)
    BY <1>1, <1>2, <1>5 DEF IInv, TypeOK
  <2> QED
    BY <1>1, <2>1, <2>2, <2>3 DEF IInv, TypeOK
<1>7. RoundHolds'
  <2>1. \A i \in Pending' : i \in DOMAIN ready /\ i \in Nat /\ offset + Concurrency < i /\ i \in Pending
    BY <1>1, <1>2 DEF Pending
  <2>2. ASSUME NEW i \in Pending' PROVE ready[i] \notin completed'
    <3>1. i \in DOMAIN ready /\ i \in Nat /\ offset + Concurrency < i /\ i \in Pending
      BY <2>1
    <3>2. ASSUME ready[i] \in Batch PROVE FALSE
      <4>1. PICK j \in DOMAIN ready : j <= offset + Concurrency /\ ready[j] = ready[i]
        BY <1>2, <3>2
      <4>2. j = i
        BY <1>3, <3>1, <4>1
      <4> QED
        BY <1>2, <3>1, <4>1, <4>2
    <3> QED
      BY <1>1, <1>3, <3>1, <3>2
  <2>3. \A i \in DOMAIN ready : DependenciesOf(graph, ready[i]) \subseteq completed'
    BY <1>1, <1>3
  <2> QED
    BY <1>1, <1>3, <2>2, <2>3 DEF RoundHolds
<1>8. StartedWhenDue'
  BY <1>1 DEF IInv, StartedWhenDue
<1>9. CollectedExactly'
  BY <1>1 DEF IInv, CollectedExactly
<1>10. Accepted(graph)' /\ NoCommandAfterAbort'
  BY <1>1 DEF IInv, NoCommandAfterAbort
<1> QED
  BY <1>6, <1>7, <1>8, <1>9, <1>10 DEF IInv

LEMMA RejectKeeps ==
  ASSUME IInv, Reject
  PROVE  IInv'
<1>1. exec' = "rejected" /\ UNCHANGED <<graph, ready, offset, state, completed, materialized, verification, aborted>>
  BY DEF Reject
<1>2. TypeOK' /\ Accepted(graph)' /\ NoCommandAfterAbort'
  BY <1>1 DEF IInv, TypeOK, NoCommandAfterAbort, Final
<1>3. RoundHolds' /\ StartedWhenDue' /\ CollectedExactly'
  BY <1>1 DEF IInv, RoundHolds, StartedWhenDue, CollectedExactly
<1> QED
  BY <1>2, <1>3 DEF IInv

LEMMA VerificationKeeps ==
  ASSUME IInv, verification' \in {"none", "pending", "good", "bad"},
         UNCHANGED <<graph, exec, ready, offset, state, completed, materialized, aborted>>
  PROVE  IInv'
<1>1. TypeOK' /\ Accepted(graph)' /\ NoCommandAfterAbort'
  BY DEF IInv, TypeOK, NoCommandAfterAbort
<1>2. RoundHolds' /\ StartedWhenDue' /\ CollectedExactly'
  BY DEF IInv, RoundHolds, Pending, StartedWhenDue, Batch, CollectedExactly
<1> QED
  BY <1>1, <1>2 DEF IInv

LEMMA AbortKeeps ==
  ASSUME IInv, Abort
  PROVE  IInv'
<1>1. /\ aborted' = TRUE
      /\ state' = [a \in graph.actions |-> IF state[a] = "running" THEN "threw" ELSE state[a]]
      /\ UNCHANGED <<graph, exec, ready, offset, completed, materialized, verification>>
  BY DEF Abort
<1>2. state \in [graph.actions -> {"idle", "reported", "threw"} \cup Active] /\ completed \subseteq graph.actions
  BY DEF IInv, TypeOK
<1>3. /\ state' \in [graph.actions -> {"idle", "reported", "threw"} \cup Active]
      /\ \A a \in graph.actions : /\ state'[a] # "running"
                                  /\ state'[a] # "idle" => state[a] # "idle"
                                  /\ state[a] = "reported" => state'[a] = "reported"
  BY <1>1, <1>2
<1>4. TypeOK' /\ Accepted(graph)'
  BY <1>1, <1>3 DEF IInv, TypeOK
<1>5. RoundHolds' /\ Batch' = Batch
  BY <1>1 DEF IInv, RoundHolds, Pending, Batch
<1>6. StartedWhenDue'
  BY <1>1, <1>3, <1>5 DEF IInv, StartedWhenDue
<1>7. CollectedExactly'
  BY <1>1, <1>2, <1>3 DEF IInv, CollectedExactly
<1>8. NoCommandAfterAbort'
  BY <1>1, <1>3 DEF NoCommandAfterAbort
<1> QED
  BY <1>4, <1>5, <1>6, <1>7, <1>8 DEF IInv

(* The steps of one action.                                                *)
LEMMA ActionKeeps ==
  ASSUME IInv, NEW a \in graph.actions, ActionStep(a) \/ ToolExits(a)
  PROVE  IInv'
<1>1. verification \in {"none", "pending", "good", "bad"}
  BY DEF IInv, TypeOK
<1>2. CASE Restore(a)
  <2>1. PICK to \in {"reported", "verifying", "threw"} : Move(a, to)
    BY <1>2 DEF Restore
  <2>2. state[a] \in Active /\ to \in {"reported", "threw"} \cup Active /\ to # "running" /\ verification' = verification
    BY <1>2 DEF Restore, Active
  <2> QED
    BY <1>1, <2>1, <2>2, MoveKeeps
<1>3. CASE StartVerification(a)
  BY <1>3, VerificationKeeps DEF StartVerification
<1>4. CASE Spawn(a)
  <2>1. PICK to \in {"running", "threw"} : Move(a, to) /\ (to = "running" => ~ aborted)
    BY <1>4 DEF Spawn, Refused
  <2>2. state[a] \in Active /\ to \in {"reported", "threw"} \cup Active /\ verification' = verification
    BY <1>4 DEF Spawn, Active
  <2> QED
    BY <1>1, <2>1, <2>2, MoveKeeps
<1>5. CASE DeadlineExpires(a)
  <2>1. state[a] \in Active /\ Move(a, "threw") /\ verification' = verification
    BY <1>5 DEF DeadlineExpires, Active
  <2> QED
    BY <1>1, <2>1, MoveKeeps
<1>6. CASE PublishEntry(a)
  <2>1. PICK to \in {"reported", "threw"} : Move(a, to)
    BY <1>6 DEF PublishEntry
  <2>2. state[a] \in Active /\ to # "running" /\ verification' = verification
    BY <1>6 DEF PublishEntry, Active
  <2> QED
    BY <1>1, <2>1, <2>2, MoveKeeps
<1>7. CASE ToolExits(a)
  <2>1. PICK to \in {"publishing", "reported", "threw"} : Move(a, to)
    BY <1>7 DEF ToolExits
  <2>2. state[a] \in Active /\ to \in {"reported", "threw"} \cup Active /\ to # "running" /\ verification' = verification
    BY <1>7 DEF ToolExits, Active
  <2> QED
    BY <1>1, <2>1, <2>2, MoveKeeps
<1> QED
  BY <1>2, <1>3, <1>4, <1>5, <1>6, <1>7 DEF ActionStep

LEMMA NextKeeps == IInv /\ [Next]_vars => IInv'
<1> SUFFICES ASSUME IInv, [Next]_vars PROVE IInv'
  OBVIOUS
<1>1. verification \in {"none", "pending", "good", "bad"}
  BY DEF IInv, TypeOK
<1>2. CASE Executor
  BY <1>2, SelectKeeps, LaunchKeeps, CollectKeeps, RejectKeeps DEF Executor
<1>3. CASE \E a \in graph.actions : ActionStep(a) \/ ToolExits(a)
  BY <1>3, ActionKeeps
<1>4. CASE FinishVerification
  BY <1>4, VerificationKeeps DEF FinishVerification
<1>5. CASE Abort
  BY <1>5, AbortKeeps
<1>6. CASE UNCHANGED vars
  BY <1>1, <1>6, VerificationKeeps DEF vars
<1> QED
  BY <1>2, <1>3, <1>4, <1>5, <1>6 DEF Next

LEMMA Invariance == Spec => []IInv
BY InitHolds, NextKeeps, PTL DEF Spec

-----------------------------------------------------------------------------
(* Inputs exist because their producers have been collected.               *)
LEMMA InputsThere == IInv => InputsMaterialized
<1> SUFFICES ASSUME IInv PROVE InputsMaterialized
  OBVIOUS
<1>1. IsGraph(graph) /\ Accepted(graph)
  BY GraphsAssumption DEF IInv, TypeOK
<1>2. ASSUME NEW a \in graph.actions, state[a] # "idle", NEW i \in graph.inputs[a]
      PROVE  i \in materialized
  <2>1. i \in Artifacts(graph)
    BY <1>1, OriginFacts
  <2>2. CASE graph.origin[i] = Source
    BY <2>1, <2>2 DEF IInv, CollectedExactly
  <2>3. CASE graph.origin[i] # Source
    <3>1. graph.origin[i] \in DependenciesOf(graph, a)
      BY <2>1, <2>3 DEF DependenciesOf
    <3>2. graph.origin[i] \in completed
      BY <1>2, <3>1 DEF IInv, StartedWhenDue
    <3>3. i \in graph.outputs[graph.origin[i]]
      BY <1>1, <2>1, <2>3, OriginFacts
    <3> QED
      BY <3>2, <3>3 DEF IInv, CollectedExactly
  <2> QED
    BY <2>2, <2>3
<1> QED
  BY <1>2 DEF InputsMaterialized

(* Types: in particular a round is a sequence of actions of the graph, and *)
(* a batch starts inside it.                                               *)
THEOREM TypeCorrect == Spec => []TypeOK
<1>1. IInv => TypeOK
  BY DEF IInv
<1> QED
  BY <1>1, Invariance, PTL

(* An action that executeArtifactGraph has started finds every input in    *)
(* the build root, whatever graph the planner accepted, and no command     *)
(* runs once the signal has fired.                                         *)
THEOREM LaunchedDue == Spec => []LaunchedIsDue
<1>1. IInv => LaunchedIsDue
  BY InputsThere DEF IInv, LaunchedIsDue
<1> QED
  BY <1>1, Invariance, PTL

(* "Artifact graph lost its validated topological order" is never thrown:  *)
(* while actions remain, the rounds that validation ran in advance show    *)
(* one that waits for none of them.                                        *)
THEOREM OrderKept == Spec => []OrderNeverLost
<1>1. IInv => OrderNeverLost
  <2> SUFFICES ASSUME IInv, ReadyActions = {} PROVE completed = graph.actions
    BY DEF OrderNeverLost
  <2>1. IsGraph(graph) /\ Accepted(graph) /\ ~ Cyclic(graph) /\ completed \subseteq graph.actions
    BY GraphsAssumption, AcceptedFacts DEF IInv, TypeOK
  <2> DEFINE stuck == graph.actions \ completed
  <2>2. \A a \in stuck : DependenciesOf(graph, a) \cap stuck # {}
    <3>1. \A a \in stuck : ~ (DependenciesOf(graph, a) \subseteq completed)
      BY DEF ReadyActions
    <3>2. \A a \in stuck : DependenciesOf(graph, a) \subseteq graph.actions
      BY <2>1, OriginFacts
    <3> QED
      BY <3>1, <3>2
  <2>3. stuck = {}
    BY <2>1, <2>2, NoDeadlock
  <2> QED
    BY <2>1, <2>3
<1> QED
  BY <1>1, Invariance, PTL

(* Every argument and captured stream of a running command has a path,     *)
(* every output of it a way to come into being, and an execution that      *)
(* resolves ran every action and materialized every artifact.              *)
THEOREM AcceptedExecutable == Spec => []AcceptedIsExecutable
<1>1. IInv => AcceptedIsExecutable
  <2> SUFFICES ASSUME IInv PROVE AcceptedIsExecutable
    OBVIOUS
  <2>1. IsGraph(graph) /\ Accepted(graph) /\ ~ BadArguments(graph)
    BY GraphsAssumption, AcceptedFacts DEF IInv, TypeOK
  <2>2. ASSUME NEW a \in graph.actions, state[a] = "running"
        PROVE  /\ graph.reads[a] \subseteq materialized
               /\ graph.captured[a] # NoArtifact => graph.captured[a] \in graph.outputs[a]
               /\ \A o \in graph.outputs[a] :
                    graph.origin[o] = a /\ (o \in graph.writes[a] \/ o = graph.captured[a])
    <3>1. graph.reads[a] \subseteq graph.inputs[a]
      BY <2>1 DEF BadArguments
    <3>2. graph.inputs[a] \subseteq materialized
      BY <2>2, InputsThere DEF InputsMaterialized
    <3>3. graph.captured[a] # NoArtifact => graph.captured[a] \in graph.outputs[a]
      BY <2>1 DEF BadArguments
    <3>4. \A o \in graph.outputs[a] : graph.origin[o] = a
      BY <2>1, OriginFacts
    <3>5. graph.outputs[a] \subseteq graph.writes[a] \cup {graph.captured[a]}
      BY <2>1 DEF BadArguments
    <3> QED
      BY <3>1, <3>2, <3>3, <3>4, <3>5
  <2>3. ASSUME exec = "resolved"
        PROVE  (\A a \in graph.actions : state[a] = "reported") /\ materialized = Artifacts(graph)
    <3>1. completed = graph.actions
      BY <2>3 DEF IInv, CollectedExactly
    <3>2. \A i \in Artifacts(graph) : i \in materialized
      BY <2>1, <3>1, OriginFacts DEF IInv, CollectedExactly
    <3> QED
      BY <3>1, <3>2 DEF IInv, CollectedExactly, TypeOK
  <2> QED
    BY <2>2, <2>3 DEF AcceptedIsExecutable, ArgumentsResolve, ResolvedIsComplete
<1> QED
  BY <1>1, Invariance, PTL

-----------------------------------------------------------------------------
(* The command of one action: runCommand.                                  *)

(* A flag of succeedIfComplete stands for an event that has happened and   *)
(* that nothing takes back.                                                *)
CompleteMeansClosed ==
  /\ processComplete => child = "closed" /\ exitCode = "zero"
  /\ standardOutputComplete /\ options.file => stream = "closed"
  /\ child = "none" => stream = "none"

ResolvedMeansComplete == settled = "resolved" => processComplete /\ standardOutputComplete

CommandIInv == CommandTypeOK /\ CompleteMeansClosed /\ ResolvedMeansComplete

LEMMA CommandInitHolds == CommandInit => CommandIInv
BY DEF CommandInit, CommandIInv, CommandTypeOK, CompleteMeansClosed, ResolvedMeansComplete

LEMMA FailFacts ==
  ASSUME CommandTypeOK, Fail
  PROVE  /\ settled' \in {"pending", "resolved", "rejected"}
         /\ timer' \in BOOLEAN /\ listener' \in BOOLEAN /\ killSent' \in BOOLEAN
         /\ settled' = "resolved" => settled = "resolved"
BY DEF CommandTypeOK, Fail, StopWaiting, KillChild

LEMMA SucceedFacts ==
  ASSUME CommandTypeOK, NEW process \in BOOLEAN, NEW output \in BOOLEAN, SucceedIfComplete(process, output)
  PROVE  /\ processComplete' = process /\ standardOutputComplete' = output
         /\ settled' \in {"pending", "resolved", "rejected"}
         /\ timer' \in BOOLEAN /\ listener' \in BOOLEAN
         /\ settled' = "resolved" => settled = "resolved" \/ (process /\ output)
BY DEF CommandTypeOK, SucceedIfComplete, MaySucceed, StopWaiting

LEMMA StartKeeps == CommandIInv /\ Start => CommandIInv'
<1> SUFFICES ASSUME CommandIInv, Start PROVE CommandIInv'
  OBVIOUS
<1>1. /\ child = "none" /\ child' = "spawning" /\ stream = "none"
      /\ UNCHANGED <<options, exitCode, processComplete, standardOutputComplete, signalled, crashed>>
  BY DEF Start, CommandIInv, CompleteMeansClosed
<1>2. options.timeout \in BOOLEAN /\ options.signal \in BOOLEAN
  BY DEF CommandIInv, CommandTypeOK
<1>3. /\ timer' \in BOOLEAN /\ listener' \in BOOLEAN /\ killSent' \in BOOLEAN /\ handlers' \in BOOLEAN
      /\ stream' \in {"none", "open"} /\ settled' \in {"rejected", settled}
  <2>1. CASE signalled
    BY <1>1, <2>1 DEF Start, StopWaiting, CommandIInv, CommandTypeOK
  <2>2. CASE ~ signalled
    BY <1>1, <1>2, <2>2 DEF Start, ArmTimer, OutputStream, CommandIInv, CommandTypeOK
  <2> QED
    BY <2>1, <2>2
<1>4. CommandTypeOK'
  BY <1>1, <1>3 DEF CommandIInv, CommandTypeOK
<1>5. CompleteMeansClosed' /\ ResolvedMeansComplete'
  BY <1>1, <1>3 DEF CommandIInv, CompleteMeansClosed, ResolvedMeansComplete
<1> QED
  BY <1>4, <1>5 DEF CommandIInv

LEMMA DeadlineKeeps == CommandIInv /\ Deadline => CommandIInv'
BY FailFacts DEF CommandIInv, CommandTypeOK, CompleteMeansClosed, ResolvedMeansComplete, Deadline

LEMMA CommandAbortKeeps == CommandIInv /\ CommandAbort => CommandIInv'
BY FailFacts DEF CommandIInv, CommandTypeOK, CompleteMeansClosed, ResolvedMeansComplete, CommandAbort

LEMMA SpawnFailsKeeps == CommandIInv /\ SpawnFails => CommandIInv'
<1> SUFFICES ASSUME CommandIInv, SpawnFails PROVE CommandIInv'
  OBVIOUS
<1>1. /\ child = "spawning" /\ child' = "exited" /\ exitCode' = "other"
      /\ UNCHANGED <<options, stream, handlers, processComplete, standardOutputComplete, signalled>>
  BY DEF SpawnFails
<1>2. /\ settled' \in {"pending", "resolved", "rejected"} /\ crashed' \in BOOLEAN
      /\ timer' \in BOOLEAN /\ listener' \in BOOLEAN /\ killSent' \in BOOLEAN
      /\ settled' = "resolved" => settled = "resolved"
  <2>1. CASE handlers
    BY <2>1, FailFacts DEF SpawnFails, CommandIInv, CommandTypeOK
  <2>2. CASE ~ handlers
    BY <2>2 DEF SpawnFails, CommandIInv, CommandTypeOK
  <2> QED
    BY <2>1, <2>2
<1> QED
  BY <1>1, <1>2 DEF CommandIInv, CommandTypeOK, CompleteMeansClosed, ResolvedMeansComplete

LEMMA ChildClosesKeeps == CommandIInv /\ ChildCloses => CommandIInv'
<1> SUFFICES ASSUME CommandIInv, ChildCloses PROVE CommandIInv'
  OBVIOUS
<1>1. /\ child = "exited" /\ child' = "closed" /\ standardOutputComplete \in BOOLEAN
      /\ UNCHANGED <<options, exitCode, stream, handlers, signalled, crashed>>
  BY DEF ChildCloses, CommandIInv, CommandTypeOK
<1>2. CASE ~ handlers
  BY <1>1, <1>2 DEF ChildCloses, CommandIInv, CommandTypeOK, CompleteMeansClosed, ResolvedMeansComplete
<1>3. CASE handlers /\ exitCode = "zero"
  <2>1. SucceedIfComplete(TRUE, standardOutputComplete) /\ UNCHANGED killSent
    BY <1>3 DEF ChildCloses
  <2>2. /\ processComplete' = TRUE /\ standardOutputComplete' = standardOutputComplete
        /\ settled' \in {"pending", "resolved", "rejected"}
        /\ timer' \in BOOLEAN /\ listener' \in BOOLEAN
        /\ settled' = "resolved" => settled = "resolved" \/ standardOutputComplete
    BY <1>1, <2>1, SucceedFacts DEF CommandIInv
  <2> QED
    BY <1>1, <1>3, <2>1, <2>2 DEF CommandIInv, CommandTypeOK, CompleteMeansClosed, ResolvedMeansComplete
<1>4. CASE handlers /\ exitCode # "zero"
  <2>1. Fail /\ UNCHANGED <<processComplete, standardOutputComplete>>
    BY <1>4 DEF ChildCloses
  <2> QED
    BY <1>1, <1>4, <2>1, FailFacts DEF CommandIInv, CommandTypeOK, CompleteMeansClosed, ResolvedMeansComplete
<1> QED
  BY <1>2, <1>3, <1>4

LEMMA StreamClosesKeeps == CommandIInv /\ StreamCloses => CommandIInv'
<1> SUFFICES ASSUME CommandIInv, StreamCloses PROVE CommandIInv'
  OBVIOUS
<1>1. /\ stream # "none" /\ stream' = "closed" /\ processComplete \in BOOLEAN
      /\ SucceedIfComplete(processComplete, TRUE)
      /\ UNCHANGED <<options, child, exitCode, killSent, handlers, signalled, crashed>>
  BY DEF StreamCloses, CommandIInv, CommandTypeOK
<1>2. /\ processComplete' = processComplete /\ standardOutputComplete' = TRUE
      /\ settled' \in {"pending", "resolved", "rejected"}
      /\ timer' \in BOOLEAN /\ listener' \in BOOLEAN
      /\ settled' = "resolved" => settled = "resolved" \/ processComplete
  BY <1>1, SucceedFacts DEF CommandIInv
<1> QED
  BY <1>1, <1>2 DEF CommandIInv, CommandTypeOK, CompleteMeansClosed, ResolvedMeansComplete

LEMMA StreamFailsKeeps == CommandIInv /\ StreamFails => CommandIInv'
<1> SUFFICES ASSUME CommandIInv, StreamFails PROVE CommandIInv'
  OBVIOUS
<1>1. /\ stream = "open" /\ stream' = "failed"
      /\ UNCHANGED <<options, child, exitCode, handlers, processComplete,
                     standardOutputComplete, signalled, crashed>>
  BY DEF StreamFails
<1>2. /\ settled' \in {"pending", "resolved", "rejected"}
      /\ timer' \in BOOLEAN /\ listener' \in BOOLEAN /\ killSent' \in BOOLEAN
      /\ settled' = "resolved" => settled = "resolved"
  <2>1. CASE settled # "pending"
    BY <2>1 DEF StreamFails, CommandIInv, CommandTypeOK
  <2>2. CASE settled = "pending"
    BY <2>2, FailFacts DEF StreamFails, CommandIInv
  <2> QED
    BY <2>1, <2>2
<1> QED
  BY <1>1, <1>2 DEF CommandIInv, CommandTypeOK, CompleteMeansClosed, ResolvedMeansComplete

(* The child's own steps come before its close.                            *)
LEMMA ChildKeeps == CommandIInv /\ (ChildStarts \/ ChildExits \/ Killed) => CommandIInv'
BY DEF CommandIInv, CommandTypeOK, CompleteMeansClosed, ResolvedMeansComplete, ChildStarts, ChildExits, Killed

LEMMA CommandNextKeeps == CommandIInv /\ [CommandNext]_commandVars => CommandIInv'
<1>1. CommandIInv /\ UNCHANGED commandVars => CommandIInv'
  BY DEF CommandIInv, CommandTypeOK, CompleteMeansClosed, ResolvedMeansComplete, commandVars
<1> QED
  BY <1>1, StartKeeps, DeadlineKeeps, CommandAbortKeeps, SpawnFailsKeeps, ChildClosesKeeps,
     StreamClosesKeeps, StreamFailsKeeps, ChildKeeps DEF CommandNext

(* Before the promise executor runs nothing has settled it and nothing     *)
(* waits for it, so the timer and the listener it arms are a pending       *)
(* promise's.                                                              *)
WaitsWhilePending ==
  /\ child = "none" => settled = "pending" /\ ~ timer /\ ~ listener
  /\ NothingWaits

LEMMA WaitsInit == CommandInit => WaitsWhilePending
BY DEF CommandInit, WaitsWhilePending, NothingWaits

LEMMA FailStops ==
  ASSUME NothingWaits, Fail
  PROVE  NothingWaits'
BY DEF NothingWaits, Fail, StopWaiting

LEMMA SucceedStops ==
  ASSUME NothingWaits, NEW process, NEW output, SucceedIfComplete(process, output)
  PROVE  NothingWaits'
<1>1. CASE MaySucceed(process, output)
  BY <1>1 DEF NothingWaits, SucceedIfComplete, StopWaiting
<1>2. CASE ~ MaySucceed(process, output)
  BY <1>2 DEF NothingWaits, SucceedIfComplete
<1> QED
  BY <1>1, <1>2

(* Every event of a running command settles the promise through fail or    *)
(* succeedIfComplete, or not at all.                                       *)
LEMMA WaitsStep ==
  ASSUME CommandIInv, WaitsWhilePending, [CommandNext]_commandVars
  PROVE  WaitsWhilePending'
<1> USE DEF WaitsWhilePending
<1>1. CASE Start
  <2>1. child' # "none" /\ settled = "pending"
    BY <1>1 DEF Start
  <2>2. CASE signalled
    BY <1>1, <2>1, <2>2 DEF Start, StopWaiting, NothingWaits
  <2>3. CASE ~ signalled
    BY <1>1, <2>1, <2>3 DEF Start, NothingWaits
  <2> QED
    BY <2>2, <2>3
<1>2. CASE Deadline
  BY <1>2, FailStops DEF Deadline
<1>3. CASE CommandAbort
  <2>1. CASE listener
    BY <1>3, <2>1, FailStops DEF CommandAbort
  <2>2. CASE ~ listener
    BY <1>3, <2>2 DEF CommandAbort, NothingWaits
  <2> QED
    BY <2>1, <2>2
<1>4. CASE SpawnFails
  <2>1. CASE handlers
    BY <1>4, <2>1, FailStops DEF SpawnFails
  <2>2. CASE ~ handlers
    BY <1>4, <2>2 DEF SpawnFails, NothingWaits
  <2> QED
    BY <2>1, <2>2
<1>5. CASE ChildCloses
  <2>1. CASE ~ handlers
    BY <1>5, <2>1 DEF ChildCloses, NothingWaits
  <2>2. CASE handlers /\ exitCode = "zero"
    BY <1>5, <2>2, SucceedStops DEF ChildCloses
  <2>3. CASE handlers /\ exitCode # "zero"
    BY <1>5, <2>3, FailStops DEF ChildCloses
  <2> QED
    BY <2>1, <2>2, <2>3
<1>6. CASE StreamCloses
  <2>1. child # "none" /\ UNCHANGED child
    BY <1>6 DEF StreamCloses, CommandIInv, CompleteMeansClosed
  <2> QED
    BY <1>6, <2>1, SucceedStops DEF StreamCloses
<1>7. CASE StreamFails
  <2>1. child # "none" /\ UNCHANGED child
    BY <1>7 DEF StreamFails, CommandIInv, CompleteMeansClosed
  <2>2. CASE settled # "pending"
    BY <1>7, <2>1, <2>2 DEF StreamFails, NothingWaits
  <2>3. CASE settled = "pending"
    BY <1>7, <2>1, <2>3, FailStops DEF StreamFails
  <2> QED
    BY <2>2, <2>3
<1>8. CASE ChildStarts \/ ChildExits \/ Killed
  BY <1>8 DEF ChildStarts, ChildExits, Killed, NothingWaits
<1>9. CASE UNCHANGED commandVars
  BY <1>9 DEF commandVars, NothingWaits
<1> QED
  BY <1>1, <1>2, <1>3, <1>4, <1>5, <1>6, <1>7, <1>8, <1>9 DEF CommandNext

(* runCommand resolves only for a child that exited with 0 and whose       *)
(* captured output has been written to the file to its end, and whichever  *)
(* event settles its promise, neither the deadline nor the abort listener  *)
(* is left behind, whatever the order of the child's, the stream's, the    *)
(* timer's and the signal's events.                                        *)
THEOREM SettledDone == CommandSpec => []SettledIsDone
<1>1. CommandIInv /\ WaitsWhilePending => SettledIsDone
  BY DEF CommandIInv, CompleteMeansClosed, ResolvedMeansComplete, ResolvedIsWhole,
         WaitsWhilePending, SettledIsDone
<1>2. CommandSpec => []CommandIInv
  BY CommandInitHolds, CommandNextKeeps, PTL DEF CommandSpec
<1>3. CommandSpec => []WaitsWhilePending
  BY <1>2, WaitsInit, WaitsStep, PTL DEF CommandSpec
<1> QED
  BY <1>1, <1>2, <1>3, PTL
=============================================================================
