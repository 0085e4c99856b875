-------------------------- MODULE NativeProgramsProofs --------------------------
(***************************************************************************)
(* Proofs about NativePrograms for every set of builds: any manifests, any *)
(* selections, any number of packages in any order.                        *)
(***************************************************************************)
EXTENDS NativePrograms, FiniteSetTheorems, SequenceTheorems,
        WellFoundedInduction, TLAPS

-----------------------------------------------------------------------------
(* Phases.                                                                 *)
Translating == {"validate", "reach", "spread"}
Composing == {"merge", "order", "reconcile"}

BuildFits ==
  /\ build \in Seq(Range(build)) /\ build # <<>>
  /\ \A i \in DOMAIN build : IsManifest(build[i].manifest)

PhaseFits ==
  /\ phase \in Translating \cup Composing \cup {"done"}
  /\ refused \in BOOLEAN /\ merged \in Nat
  /\ phase \in Translating => Len(programs) < Len(build) /\ merged = 0 /\ ~ refused
  /\ phase \in Composing => Len(programs) = Len(build) /\ merged <= Len(programs)
  /\ phase \in {"order", "reconcile"} => merged = Len(programs)
  /\ phase = "done" /\ ~ refused => Len(programs) = Len(build)

(* The manifest in hand was validated, and its seeds stay marked.          *)
TranslationFits ==
  /\ phase \in {"reach", "spread"} => ManifestValid(M)
  /\ phase = "spread" => TraceableSeeds(M, reached) \subseteq marked

(* What a translation hands over: link inputs in a sequence, types that    *)
(* are records, and every handle of a registration a traceable type.       *)
TypeFits(r) ==
  /\ r = [contract |-> r.contract, upcasts |-> r.upcasts, peer |-> r.peer, traceable |-> r.traceable]
  /\ r.traceable \in BOOLEAN

Registration(c) == c.owner \notin {None, NativeCall, Process}
RegistrationTraced(p, b) ==
  \A t \in {p.bindings[b].contract.gives, p.bindings[b].contract.owner} \ {Result} :
    <<b[1], t>> \in DOMAIN p.types /\ p.types[<<b[1], t>>].traceable

LinksFit(p) ==
  /\ p.links \in Seq(DOMAIN p.names)
  /\ DOMAIN p.names \subseteq Nat /\ IsFiniteSet(DOMAIN p.names)

PackageFits(p) ==
  /\ LinksFit(p)
  /\ \A t \in DOMAIN p.types : TypeFits(p.types[t])
  /\ \A b \in DOMAIN p.bindings :
       Registration(p.bindings[b].contract) => RegistrationTraced(p, b)

ProgramsFit ==
  /\ programs \in Seq(Range(programs))
  /\ \A i \in DOMAIN programs : PackageFits(programs[i])

(* What was merged so far is the union of the first n of a sequence of     *)
(* functions, earlier ones first.                                          *)
Collects(f, fs, n) ==
  /\ DOMAIN f = UNION {DOMAIN fs[i] : i \in 1..n}
  /\ \A x \in DOMAIN f : \E i \in 1..n : x \in DOMAIN fs[i] /\ f[x] = fs[i][x]

AllAgree(fs, n) == \A i, j \in 1..n : Agree(fs[i], fs[j])

TypesOf == [i \in DOMAIN programs |-> programs[i].types]
BindingsOf == [i \in DOMAIN programs |-> programs[i].bindings]
NamesOf == [i \in DOMAIN programs |-> programs[i].names]
AdaptersOf == [i \in DOMAIN programs |-> programs[i].adapters]

AllCompatible(n) == \A i, j \in 1..n : Compatible(programs[i], programs[j])

EdgesFit ==
  /\ DOMAIN edges = DOMAIN names
  /\ \A l \in DOMAIN edges : edges[l] = UNION {After(programs[i], l) : i \in 1..merged}

Merged ==
  /\ Collects(types, TypesOf, merged) /\ Collects(bindings, BindingsOf, merged)
  /\ Collects(names, NamesOf, merged) /\ Collects(adapters, AdaptersOf, merged)
  /\ EdgesFit

AllProvided == \A p \in Packages : Provided(p)

MergedFits ==
  /\ phase \in Translating \cup Composing => Merged
  /\ phase \in {"merge", "order"} => (refused <=> ~ AllCompatible(merged))
  /\ phase = "reconcile" =>
       /\ refused <=> ~ (AllCompatible(merged) /\ AllProvided)
       /\ {t \in DOMAIN types : types[t].traceable} \subseteq traceable

(* The link inputs placed so far: each once, after all that must come      *)
(* before it, and least of those it could be.                              *)
Placed == Range(ordered)
OrderedFits ==
  /\ ordered \in Seq(LinkInputs)
  /\ \A i, j \in DOMAIN ordered : i # j => ordered[i] # ordered[j]
  /\ \A i \in DOMAIN ordered : \A k \in Before(ordered[i]) : \E j \in 1..(i - 1) : k = ordered[j]
  /\ \A i \in DOMAIN ordered : \A l \in LinkInputs :
       /\ \A j \in 1..(i - 1) : l # ordered[j]
       /\ \A k \in Before(l) : \E j \in 1..(i - 1) : k = ordered[j]
       => ordered[i] <= l

KahnFits ==
  /\ phase \in Translating \cup {"merge"} => ordered = <<>>
  /\ phase \in {"order", "reconcile"} =>
       /\ OrderedFits
       /\ ready = {l \in LinkInputs \ Placed : Before(l) \subseteq Placed}
  /\ phase = "order" => indegree = [l \in LinkInputs |-> Cardinality(Before(l) \ Placed)]
  /\ phase = "reconcile" => ready = {}

(* The two properties hold from the step on that ends the composition.     *)
DoneFits == CompositionIgnoresOrder /\ CyclesAreTraced

IInv ==
  /\ BuildFits /\ PhaseFits /\ TranslationFits /\ ProgramsFit
  /\ MergedFits /\ KahnFits /\ DoneFits
-----------------------------------------------------------------------------
(* Numbers and sequences.                                                  *)
LEMMA LeastMember ==
  ASSUME NEW T \in SUBSET Nat, T # {}
  PROVE  \E x \in T : \A y \in T : x <= y
<1> DEFINE R == OpToRel(<, Nat)
<1>1. IsWellFoundedOn(R, Nat)
  BY NatLessThanWellFounded
<1>2. \A x, y \in Nat : <<y, x>> \in R <=> y < x
  BY DEF OpToRel
<1> HIDE DEF R
<1>3. PICK e \in T : TRUE
  OBVIOUS
<1>4. PICK x \in T : \A y \in T : ~ (<<y, x>> \in R)
  BY <1>1, <1>3, WFMin
<1>5. ASSUME NEW y \in T PROVE x <= y
  <2>1. ~ (y < x)
    BY <1>2, <1>4
  <2> QED
    BY <2>1
<1> QED
  BY <1>5

LEMMA Induction ==
  ASSUME NEW S \in SUBSET Nat, 0 \in S, \A n \in S : n + 1 \in S
  PROVE  S = Nat
<1> SUFFICES ASSUME NEW e \in Nat \ S PROVE FALSE
  OBVIOUS
<1>1. PICK x \in Nat \ S : \A y \in Nat \ S : x <= y
  BY LeastMember
<1>2. x # 0 /\ x - 1 \in Nat /\ ~ (x <= x - 1) /\ (x - 1) + 1 = x
  BY <1>1
<1> QED
  BY <1>1, <1>2

(* A nonempty finite set of link inputs has one that comes last.           *)
LEMMA LastLink ==
  ASSUME NEW m, NEW T \in SUBSET Nat, IsFiniteSet(T), T # {},
         \A l \in T : m.links[l].order \in Nat
  PROVE  \E x \in T : \A y \in T \ {x} : LinkPrecedes(m, y, x)
<1> DEFINE Fine == {n \in Nat : \A U \in SUBSET T : IsFiniteSet(U) /\ Cardinality(U) = n + 1 =>
                                  \E x \in U : \A y \in U \ {x} : LinkPrecedes(m, y, x)}
<1>1. 0 \in Fine
  <2> SUFFICES ASSUME NEW U \in SUBSET T, IsFiniteSet(U), Cardinality(U) = 1
               PROVE  \E x \in U : \A y \in U \ {x} : LinkPrecedes(m, y, x)
    OBVIOUS
  <2>1. PICK x : U = {x}
    BY FS_Singleton
  <2> QED
    BY <2>1
<1>2. ASSUME NEW n \in Fine PROVE n + 1 \in Fine
  <2> SUFFICES ASSUME NEW U \in SUBSET T, IsFiniteSet(U), Cardinality(U) = (n + 1) + 1
               PROVE  \E x \in U : \A y \in U \ {x} : LinkPrecedes(m, y, x)
    OBVIOUS
  <2>1. U # {}
    BY FS_EmptySet
  <2>2. PICK e \in U : TRUE
    BY <2>1
  <2>3. IsFiniteSet(U \ {e}) /\ Cardinality(U \ {e}) = n + 1
    BY <2>2, FS_RemoveElement
  <2>4. PICK x \in U \ {e} : \A y \in (U \ {e}) \ {x} : LinkPrecedes(m, y, x)
    BY <2>3
  <2>5. x \in Nat /\ e \in Nat /\ x # e /\ m.links[x].order \in Nat /\ m.links[e].order \in Nat
    BY <2>2, <2>4
  <2>6. CASE LinkPrecedes(m, e, x)
    BY <2>4, <2>6
  <2>7. CASE ~ LinkPrecedes(m, e, x)
    <3>1. LinkPrecedes(m, x, e)
      BY <2>5, <2>7 DEF LinkPrecedes
    <3>2. ASSUME NEW y \in (U \ {e}) \ {x} PROVE LinkPrecedes(m, y, e)
      <4>1. LinkPrecedes(m, y, x)
        BY <2>4
      <4>2. y \in Nat /\ m.links[y].order \in Nat
        OBVIOUS
      <4> QED
        BY <2>5, <3>1, <4>1, <4>2 DEF LinkPrecedes
    <3> QED
      BY <2>2, <3>1, <3>2
  <2> QED
    BY <2>6, <2>7
<1>3. Fine = Nat
  <2> HIDE DEF Fine
  <2>1. Fine \in SUBSET Nat
    BY DEF Fine
  <2> QED
    BY <1>1, <1>2, <2>1, Induction
<1>4. Cardinality(T) \in Nat /\ Cardinality(T) # 0
  BY FS_CardinalityType, FS_EmptySet
<1>5. Cardinality(T) - 1 \in Nat /\ Cardinality(T) = (Cardinality(T) - 1) + 1
  BY <1>4
<1> QED
  BY <1>3, <1>5

(* So the link inputs that are emitted can be put in the manifest's order, *)
(* and LinkSequence is one of their orders.                                *)
InOrder(m, seq, n) == \A i, j \in 1..n : i < j => LinkPrecedes(m, seq[i], seq[j])

LEMMA OrderExists ==
  ASSUME NEW m, NEW T \in SUBSET Nat, IsFiniteSet(T), \A l \in T : m.links[l].order \in Nat
  PROVE  \E seq \in [1..Cardinality(T) -> T] : InOrder(m, seq, Cardinality(T))
<1> DEFINE Fine == {n \in Nat : \A U \in SUBSET T : IsFiniteSet(U) /\ Cardinality(U) = n =>
                                  \E seq \in [1..n -> U] : InOrder(m, seq, n)}
<1>1. 0 \in Fine
  <2> SUFFICES ASSUME NEW U \in SUBSET T
               PROVE  \E seq \in [1..0 -> U] : InOrder(m, seq, 0)
    OBVIOUS
  <2> DEFINE empty == [i \in 1..0 |-> 0]
  <2>1. 1..0 = {}
    OBVIOUS
  <2>2. empty \in [1..0 -> U]
    BY <2>1
  <2>3. InOrder(m, empty, 0)
    BY <2>1 DEF InOrder
  <2> QED
    BY <2>2, <2>3
<1>2. ASSUME NEW n \in Fine PROVE n + 1 \in Fine
  <2> SUFFICES ASSUME NEW U \in SUBSET T, IsFiniteSet(U), Cardinality(U) = n + 1
               PROVE  \E seq \in [1..(n + 1) -> U] : InOrder(m, seq, n + 1)
    OBVIOUS
  <2>1. U # {}
    BY FS_EmptySet
  <2>2. PICK x \in U : \A y \in U \ {x} : LinkPrecedes(m, y, x)
    BY <2>1, LastLink
  <2>3. IsFiniteSet(U \ {x}) /\ Cardinality(U \ {x}) = n
    BY <2>2, FS_RemoveElement
  <2>4. PICK seq \in [1..n -> U \ {x}] : InOrder(m, seq, n)
    BY <2>3
  <2> DEFINE longer == [i \in 1..(n + 1) |-> IF i = n + 1 THEN x ELSE seq[i]]
  <2>5. \A i \in 1..(n + 1) : i # n + 1 => i \in 1..n
    OBVIOUS
  <2>6. longer \in [1..(n + 1) -> U]
    BY <2>4, <2>5
  <2>7. InOrder(m, longer, n + 1)
    <3> SUFFICES ASSUME NEW i \in 1..(n + 1), NEW j \in 1..(n + 1), i < j
                 PROVE  LinkPrecedes(m, longer[i], longer[j])
      BY DEF InOrder
    <3>1. i \in 1..n /\ longer[i] = seq[i]
      OBVIOUS
    <3>2. CASE j = n + 1
      BY <2>2, <2>4, <3>1, <3>2
    <3>3. CASE j # n + 1
      BY <2>4, <2>5, <3>1, <3>3 DEF InOrder
    <3> QED
      BY <3>2, <3>3
  <2> QED
    BY <2>6, <2>7
<1>3. Fine = Nat
  <2> HIDE DEF Fine
  <2>1. Fine \in SUBSET Nat
    BY DEF Fine
  <2> QED
    BY <1>1, <1>2, <2>1, Induction
<1>4. Cardinality(T) \in Nat
  BY FS_CardinalityType
<1> QED
  BY <1>3, <1>4

LEMMA LinkSequenceFits ==
  ASSUME NEW m, NEW T \in SUBSET Nat, IsFiniteSet(T), \A l \in T : m.links[l].order \in Nat
  PROVE  LinkSequence(m, T) \in Seq(T)
<1> DEFINE n == Cardinality(T)
<1>1. n \in Nat
  BY FS_CardinalityType
<1>2. PICK seq \in [1..n -> T] : InOrder(m, seq, n)
  BY OrderExists
<1>3. \A i, j \in DOMAIN seq : i < j => LinkPrecedes(m, seq[i], seq[j])
  BY <1>2 DEF InOrder
<1>4. LinkSequence(m, T) \in [1..n -> T]
  BY <1>2, <1>3 DEF LinkSequence
<1> QED
  BY <1>1, <1>4
-----------------------------------------------------------------------------
(* What a translation hands over.                                          *)

(* The calls emitted are bindings of the manifest, so their link inputs    *)
(* are finitely many of its own.                                           *)
LEMMA LoweredLinksFit ==
  ASSUME NEW m, NEW selection, NEW R, NEW K, ManifestValid(m), IsManifest(m)
  PROVE  LinksFit(LoweredPackage(m, selection, R, K))
<1> DEFINE calls == EmittedCalls(m, R)
           links == UNION {m.bindings[b].links : b \in calls}
           p == LoweredPackage(m, selection, R, K)
<1>1. calls \subseteq BindingIds(m)
  BY DEF EmittedCalls, IsCall
<1>2. links \subseteq DOMAIN m.links
  BY <1>1 DEF ManifestValid, DependenciesValid
<1>3. /\ links \in SUBSET Nat /\ IsFiniteSet(links)
      /\ \A l \in links : m.links[l].order \in Nat
  BY <1>2, FS_Subset DEF IsManifest
<1>4. LinkSequence(m, links) \in Seq(links)
  BY <1>3, LinkSequenceFits
<1>5. p.links = LinkSequence(m, links) /\ DOMAIN p.names = links
  BY DEF LoweredPackage
<1> QED
  BY <1>3, <1>4, <1>5 DEF LinksFit

(* A registration that is emitted names handles of its own package, which  *)
(* are lowered with it and marked.                                         *)
LEMMA SupportedRegistration ==
  ASSUME NEW m, NEW selection, NEW R, IsManifest(m), ~ Refuses(m, selection, R),
         NEW b \in EmittedCalls(m, R), Registration(m.bindings[b])
  PROVE  /\ Registers(m, b) /\ b \in R
         /\ {m.bindings[b].gives, m.bindings[b].owner} \ {Result} \subseteq CycleHandles(m, b)
         /\ CycleHandles(m, b) \subseteq LoweredTypes(m, LoweringRoots(m, selection, R))
<1>1. b \in R /\ IsCall(m, b)
  BY DEF EmittedCalls, Emitted
<1>2. Registers(m, b)
  BY <1>1 DEF Registers, Registration
<1>3. b \notin Accessors(m)
  <2> SUFFICES ASSUME b \in Accessors(m) PROVE FALSE
    OBVIOUS
  <2>1. AccessorSupported(m, b)
    BY DEF Refuses
  <2> QED
    BY <2>1 DEF AccessorSupported, Registration
<1>4. BindingSupported(m, b, R)
  BY <1>3 DEF Refuses
<1>5. RetainedCallbackSupported(m, b)
  BY <1>2, <1>4 DEF BindingSupported
<1>6. /\ m.bindings[b].gives \in LocalTypes(m)
      /\ m.bindings[b].owner # Result => m.bindings[b].owner \in m.bindings[b].takes \cap LocalTypes(m)
  BY <1>5 DEF RetainedCallbackSupported
<1>7. {m.bindings[b].gives, m.bindings[b].owner} \ {Result} \subseteq CycleHandles(m, b)
  BY <1>6 DEF CycleHandles
<1>8. ASSUME NEW t \in CycleHandles(m, b)
      PROVE  t \in LoweredTypes(m, LoweringRoots(m, selection, R))
  <2>1. t \in LocalTypes(m) /\ t # Result /\ t \in {m.bindings[b].gives, m.bindings[b].owner}
    BY DEF CycleHandles
  <2>2. t \in SignatureTypes(m, b)
    <3>1. CASE t = m.bindings[b].owner
      BY <1>6, <2>1, <3>1 DEF SignatureTypes
    <3>2. CASE t = m.bindings[b].gives /\ t # None
      BY <3>2 DEF SignatureTypes, Gives
    <3>3. CASE t = m.bindings[b].gives /\ t = None
      BY <2>1, <3>3 DEF IsManifest, LocalTypes
    <3> QED
      BY <2>1, <3>1, <3>2, <3>3
  <2>3. t \in LoweringRoots(m, selection, R)
    BY <2>2 DEF LoweringRoots
  <2> QED
    BY <2>1, <2>3 DEF LoweredTypes
<1> QED
  BY <1>1, <1>2, <1>7, <1>8

LEMMA LoweredTypeFits ==
  ASSUME NEW m, NEW t, NEW K
  PROVE  /\ TypeFits(LoweredType(m, t, K))
         /\ t \in K => LoweredType(m, t, K).traceable
<1> DEFINE r == LoweredType(m, t, K)
<1>1. r.traceable = (t \in K)
  BY DEF LoweredType
<1>2. (t \in K) \in BOOLEAN
  OBVIOUS
<1>3. r.traceable \in BOOLEAN
  BY <1>1, <1>2, Zenon
<1>4. r = [contract |-> r.contract, upcasts |-> r.upcasts, peer |-> r.peer, traceable |-> r.traceable]
  BY DEF LoweredType
<1>5. TypeFits(r)
  BY <1>3, <1>4 DEF TypeFits
<1>6. t \in K => r.traceable
  BY <1>1, Zenon
<1> QED
  BY <1>5, <1>6

LEMMA LoweredFits ==
  ASSUME NEW m, NEW selection, NEW R, NEW K, ManifestValid(m), IsManifest(m),
         ~ Refuses(m, selection, R), TraceableSeeds(m, R) \subseteq K
  PROVE  PackageFits(LoweredPackage(m, selection, R, K))
<1> DEFINE p == LoweredPackage(m, selection, R, K)
           lowered == LoweredTypes(m, LoweringRoots(m, selection, R))
           calls == EmittedCalls(m, R)
<1>1. LinksFit(p)
  BY LoweredLinksFit
<1>2. p.types = [i \in {Scoped(m, t) : t \in lowered} |-> LoweredType(m, i[2], K)]
  BY DEF LoweredPackage
<1>3. p.bindings = [i \in {Scoped(m, b) : b \in calls} |-> LoweredBinding(m, i[2])]
  BY DEF LoweredPackage
<1>4. \A t : Scoped(m, t)[1] = m.instance /\ Scoped(m, t)[2] = t
  BY DEF Scoped
<1>5. ASSUME NEW i \in DOMAIN p.types PROVE TypeFits(p.types[i])
  <2>1. p.types[i] = LoweredType(m, i[2], K)
    BY <1>2
  <2> QED
    BY <2>1, LoweredTypeFits
<1>6. ASSUME NEW i \in DOMAIN p.bindings, Registration(p.bindings[i].contract)
      PROVE  RegistrationTraced(p, i)
  <2>1. PICK b \in calls : i = Scoped(m, b)
    BY <1>3
  <2>2. p.bindings[i].contract = m.bindings[b] /\ i[1] = m.instance
    BY <1>3, <1>4, <2>1 DEF LoweredBinding
  <2>3. /\ Registers(m, b) /\ b \in R
        /\ {m.bindings[b].gives, m.bindings[b].owner} \ {Result} \subseteq CycleHandles(m, b)
        /\ CycleHandles(m, b) \subseteq lowered
    BY <1>6, <2>2, SupportedRegistration
  <2>4. CycleHandles(m, b) \subseteq K
    BY <2>3 DEF TraceableSeeds
  <2>5. ASSUME NEW t \in {m.bindings[b].gives, m.bindings[b].owner} \ {Result}
        PROVE  <<i[1], t>> \in DOMAIN p.types /\ p.types[<<i[1], t>>].traceable
    <3>1. t \in lowered /\ t \in K
      BY <2>3, <2>4
    <3>2. <<i[1], t>> = Scoped(m, t)
      BY <2>2 DEF Scoped
    <3>3. p.types[Scoped(m, t)] = LoweredType(m, t, K)
      BY <1>2, <1>4, <3>1
    <3>4. LoweredType(m, t, K).traceable
      BY <3>1, LoweredTypeFits
    <3>5. Scoped(m, t) \in DOMAIN p.types
      BY <1>2, <3>1
    <3> QED
      BY <3>2, <3>3, <3>4, <3>5
  <2> QED
    BY <2>2, <2>5 DEF RegistrationTraced
<1> QED
  BY <1>1, <1>5, <1>6 DEF PackageFits
-----------------------------------------------------------------------------
(* The composition's data: what was merged is what the programs say.       *)
LEMMA CollectOne ==
  ASSUME NEW f, NEW fs, NEW n \in Nat, Collects(f, fs, n)
  PROVE  Collects(FirstWins(f, fs[n + 1]), fs, n + 1)
<1> DEFINE g == fs[n + 1]
           h == FirstWins(f, g)
<1>1. 1..(n + 1) = (1..n) \cup {n + 1}
  OBVIOUS
<1>2. DOMAIN h = DOMAIN f \cup DOMAIN g
  BY DEF FirstWins
<1>3. DOMAIN h = UNION {DOMAIN fs[i] : i \in 1..(n + 1)}
  BY <1>1, <1>2 DEF Collects
<1>4. ASSUME NEW x \in DOMAIN h
      PROVE  \E i \in 1..(n + 1) : x \in DOMAIN fs[i] /\ h[x] = fs[i][x]
  <2>1. CASE x \in DOMAIN f
    <3>1. h[x] = f[x]
      BY <1>2, <2>1 DEF FirstWins
    <3>2. PICK i \in 1..n : x \in DOMAIN fs[i] /\ f[x] = fs[i][x]
      BY <2>1 DEF Collects
    <3> QED
      BY <1>1, <3>1, <3>2
  <2>2. CASE x \notin DOMAIN f
    <3>1. h[x] = g[x] /\ x \in DOMAIN g
      BY <1>2, <2>2 DEF FirstWins
    <3> QED
      BY <1>1, <3>1
  <2> QED
    BY <2>1, <2>2
<1> QED
  BY <1>3, <1>4 DEF Collects

(* Where all of them agree, each can be read off the union,                *)
LEMMA CollectedAgrees ==
  ASSUME NEW f, NEW fs, NEW n \in Nat, Collects(f, fs, n), AllAgree(fs, n),
         NEW i \in 1..n, NEW x \in DOMAIN fs[i]
  PROVE  x \in DOMAIN f /\ f[x] = fs[i][x]
<1>1. x \in DOMAIN f
  BY DEF Collects
<1>2. PICK j \in 1..n : x \in DOMAIN fs[j] /\ f[x] = fs[j][x]
  BY <1>1 DEF Collects
<1>3. fs[j][x] = fs[i][x]
  BY <1>2 DEF AllAgree, Agree
<1> QED
  BY <1>1, <1>2, <1>3

(* and the next one agrees with them all exactly when it has no conflict   *)
(* with the union.                                                         *)
LEMMA ConflictIsDisagreement ==
  ASSUME NEW f, NEW fs, NEW n \in Nat, Collects(f, fs, n), AllAgree(fs, n)
  PROVE  Conflict(f, fs[n + 1]) <=> ~ AllAgree(fs, n + 1)
<1> DEFINE g == fs[n + 1]
<1>1. 1..(n + 1) = (1..n) \cup {n + 1}
  OBVIOUS
<1>2. ASSUME Conflict(f, g) PROVE ~ AllAgree(fs, n + 1)
  <2>1. PICK x \in DOMAIN f \cap DOMAIN g : f[x] # g[x]
    BY <1>2 DEF Conflict
  <2>2. PICK i \in 1..n : x \in DOMAIN fs[i] /\ f[x] = fs[i][x]
    BY <2>1 DEF Collects
  <2>3. ~ Agree(fs[i], g)
    BY <2>1, <2>2 DEF Agree
  <2> QED
    BY <1>1, <2>3 DEF AllAgree
<1>3. ASSUME ~ Conflict(f, g) PROVE AllAgree(fs, n + 1)
  <2>1. ASSUME NEW i \in 1..n PROVE Agree(fs[i], g) /\ Agree(g, fs[i])
    <3>1. ASSUME NEW x \in DOMAIN fs[i] \cap DOMAIN g PROVE fs[i][x] = g[x]
      <4>1. x \in DOMAIN f /\ f[x] = fs[i][x]
        BY CollectedAgrees
      <4> QED
        BY <1>3, <4>1 DEF Conflict
    <3> QED
      BY <3>1 DEF Agree
  <2>2. Agree(g, g)
    BY DEF Agree
  <2>3. \A i, j \in 1..n : Agree(fs[i], fs[j])
    BY DEF AllAgree
  <2> QED
    BY <1>1, <2>1, <2>2, <2>3 DEF AllAgree
<1> QED
  BY <1>2, <1>3

Columns(n) ==
  /\ AllAgree(TypesOf, n) /\ AllAgree(BindingsOf, n)
  /\ AllAgree(NamesOf, n) /\ AllAgree(AdaptersOf, n)

SameTarget(n) == \A i, j \in 1..n : programs[i].target = programs[j].target

LEMMA CompatibleColumns ==
  ASSUME NEW n \in Nat, 1..n \subseteq DOMAIN programs
  PROVE  AllCompatible(n) <=> Columns(n) /\ SameTarget(n)
<1>1. \A i \in 1..n : /\ TypesOf[i] = programs[i].types /\ BindingsOf[i] = programs[i].bindings
                      /\ NamesOf[i] = programs[i].names /\ AdaptersOf[i] = programs[i].adapters
  BY DEF TypesOf, BindingsOf, NamesOf, AdaptersOf
<1>2. ASSUME AllCompatible(n) PROVE Columns(n) /\ SameTarget(n)
  BY <1>1, <1>2 DEF AllCompatible, Compatible, Columns, AllAgree, SameTarget
<1>3. ASSUME Columns(n), SameTarget(n) PROVE AllCompatible(n)
  BY <1>1, <1>3 DEF AllCompatible, Compatible, Columns, AllAgree, SameTarget
<1> QED
  BY <1>2, <1>3
-----------------------------------------------------------------------------
(* One program more.                                                       *)
LEMMA AfterFits ==
  ASSUME NEW p, LinksFit(p), NEW l
  PROVE  /\ After(p, l) \subseteq DOMAIN p.names
         /\ l \notin DOMAIN p.names => After(p, l) = {}
<1>1. \A i \in DOMAIN p.links : p.links[i] \in DOMAIN p.names
  BY DEF LinksFit
<1>2. DOMAIN p.links = 1..Len(p.links) /\ Len(p.links) \in Nat
  BY DEF LinksFit
<1>3. \A k \in DOMAIN p.links : \A i \in 1..(k - 1) : i \in DOMAIN p.links
  BY <1>2
<1> QED
  BY <1>1, <1>3 DEF After

LEMMA ProgramsIndexed ==
  ASSUME ProgramsFit
  PROVE  /\ Len(programs) \in Nat /\ DOMAIN programs = 1..Len(programs)
         /\ \A n \in Nat : n <= Len(programs) => 1..n \subseteq DOMAIN programs
BY DEF ProgramsFit

LEMMA MergeEdges ==
  ASSUME ProgramsFit, Merged, merged \in Nat, merged < Len(programs),
         edges' = MergedEdges(programs[merged + 1]),
         names' = FirstWins(names, programs[merged + 1].names),
         merged' = merged + 1, UNCHANGED programs
  PROVE  EdgesFit'
<1> DEFINE n == merged
           p == programs[n + 1]
<1>1. 1..(n + 1) = (1..n) \cup {n + 1} /\ 1..(n + 1) \subseteq DOMAIN programs
  BY ProgramsIndexed
<1>2. DOMAIN edges' = DOMAIN edges \cup DOMAIN p.names
  BY DEF MergedEdges
<1>3. DOMAIN edges' = DOMAIN names'
  BY <1>2 DEF FirstWins, Merged, EdgesFit
<1>4. ASSUME NEW l \in DOMAIN edges'
      PROVE  edges'[l] = UNION {After(programs[i], l) : i \in 1..(n + 1)}
  <2>1. edges'[l] = Edges(l) \cup After(p, l)
    BY <1>2 DEF MergedEdges
  <2>2. UNION {After(programs[i], l) : i \in 1..(n + 1)}
          = (UNION {After(programs[i], l) : i \in 1..n}) \cup After(p, l)
    <3>1. ASSUME NEW x PROVE (\E i \in 1..(n + 1) : x \in After(programs[i], l))
                              <=> (\E i \in 1..n : x \in After(programs[i], l)) \/ x \in After(p, l)
      BY <1>1
    <3> QED
      BY <3>1
  <2>3. Edges(l) = UNION {After(programs[i], l) : i \in 1..n}
    <3>1. CASE l \in DOMAIN edges
      BY <3>1 DEF Edges, Merged, EdgesFit
    <3>2. CASE l \notin DOMAIN edges
      <4>1. ASSUME NEW i \in 1..n PROVE After(programs[i], l) = {}
        <5>1. NamesOf[i] = programs[i].names /\ LinksFit(programs[i])
          BY <1>1 DEF NamesOf, ProgramsFit, PackageFits
        <5>2. l \notin DOMAIN programs[i].names
          BY <3>2, <5>1 DEF Merged, EdgesFit, Collects
        <5> QED
          BY <5>1, <5>2, AfterFits
      <4>2. Edges(l) = {}
        BY <3>2 DEF Edges
      <4> QED
        BY <4>1, <4>2
    <3> QED
      BY <3>1, <3>2
  <2> QED
    BY <2>1, <2>2, <2>3
<1> QED
  BY <1>3, <1>4 DEF EdgesFit

LEMMA MergeCollects ==
  ASSUME ProgramsFit, Merged, merged \in Nat, Merge
  PROVE  Merged'
<1> DEFINE p == programs[merged + 1]
<1>1. /\ merged < Len(programs) /\ merged' = merged + 1 /\ UNCHANGED programs
      /\ types' = FirstWins(types, p.types) /\ bindings' = FirstWins(bindings, p.bindings)
      /\ names' = FirstWins(names, p.names) /\ adapters' = FirstWins(adapters, p.adapters)
      /\ edges' = MergedEdges(p)
  BY DEF Merge, translation
<1>2. merged + 1 \in DOMAIN programs
  BY <1>1, ProgramsIndexed
<1>3. /\ TypesOf' = TypesOf /\ BindingsOf' = BindingsOf /\ NamesOf' = NamesOf /\ AdaptersOf' = AdaptersOf
  BY <1>1 DEF TypesOf, BindingsOf, NamesOf, AdaptersOf
<1>4. /\ TypesOf[merged + 1] = p.types /\ BindingsOf[merged + 1] = p.bindings
      /\ NamesOf[merged + 1] = p.names /\ AdaptersOf[merged + 1] = p.adapters
  BY <1>2 DEF TypesOf, BindingsOf, NamesOf, AdaptersOf
<1>5. Collects(types', TypesOf, merged + 1)
  BY <1>1, <1>4, CollectOne DEF Merged
<1>6. Collects(bindings', BindingsOf, merged + 1)
  BY <1>1, <1>4, CollectOne DEF Merged
<1>7. Collects(names', NamesOf, merged + 1)
  BY <1>1, <1>4, CollectOne DEF Merged
<1>8. Collects(adapters', AdaptersOf, merged + 1)
  BY <1>1, <1>4, CollectOne DEF Merged
<1>9. EdgesFit'
  BY <1>1, MergeEdges
<1>10. /\ Collects(types', TypesOf', merged') /\ Collects(bindings', BindingsOf', merged')
       /\ Collects(names', NamesOf', merged') /\ Collects(adapters', AdaptersOf', merged')
  BY <1>1, <1>3, <1>5, <1>6, <1>7, <1>8
<1> QED
  BY <1>9, <1>10 DEF Merged

LEMMA MergeRefuses ==
  ASSUME ProgramsFit, Merged, merged \in Nat, Merge, refused <=> ~ AllCompatible(merged)
  PROVE  refused' <=> ~ AllCompatible(merged + 1)
<1> DEFINE n == merged
           p == programs[n + 1]
<1>1. n < Len(programs) /\ refused' = (refused \/ Conflicts(p))
  BY DEF Merge
<1>2. /\ 1..n \subseteq DOMAIN programs /\ 1..(n + 1) \subseteq DOMAIN programs
      /\ n + 1 \in DOMAIN programs /\ n + 1 \in Nat
  BY <1>1, ProgramsIndexed
<1>3. CASE ~ AllCompatible(n)
  <2>1. 1..n \subseteq 1..(n + 1)
    OBVIOUS
  <2>2. ~ AllCompatible(n + 1)
    BY <1>3, <2>1 DEF AllCompatible
  <2> QED
    BY <1>1, <1>3, <2>2
<1>4. CASE AllCompatible(n)
  <2>1. Columns(n) /\ SameTarget(n)
    BY <1>2, <1>4, CompatibleColumns
  <2>2. /\ TypesOf[n + 1] = p.types /\ BindingsOf[n + 1] = p.bindings
        /\ NamesOf[n + 1] = p.names /\ AdaptersOf[n + 1] = p.adapters
    BY <1>2 DEF TypesOf, BindingsOf, NamesOf, AdaptersOf
  <2>3. /\ Conflict(types, p.types) <=> ~ AllAgree(TypesOf, n + 1)
        /\ Conflict(bindings, p.bindings) <=> ~ AllAgree(BindingsOf, n + 1)
        /\ Conflict(names, p.names) <=> ~ AllAgree(NamesOf, n + 1)
        /\ Conflict(adapters, p.adapters) <=> ~ AllAgree(AdaptersOf, n + 1)
    <3>1. Conflict(types, p.types) <=> ~ AllAgree(TypesOf, n + 1)
      BY <2>1, <2>2, ConflictIsDisagreement DEF Columns, Merged
    <3>2. Conflict(bindings, p.bindings) <=> ~ AllAgree(BindingsOf, n + 1)
      BY <2>1, <2>2, ConflictIsDisagreement DEF Columns, Merged
    <3>3. Conflict(names, p.names) <=> ~ AllAgree(NamesOf, n + 1)
      BY <2>1, <2>2, ConflictIsDisagreement DEF Columns, Merged
    <3>4. Conflict(adapters, p.adapters) <=> ~ AllAgree(AdaptersOf, n + 1)
      BY <2>1, <2>2, ConflictIsDisagreement DEF Columns, Merged
    <3> QED
      BY <3>1, <3>2, <3>3, <3>4
  <2>4. p.target # programs[1].target <=> ~ SameTarget(n + 1)
    <3>1. 1 \in 1..(n + 1) /\ 1..(n + 1) = (1..n) \cup {n + 1} /\ (1 \in 1..n \/ n = 0)
      OBVIOUS
    <3>2. ASSUME p.target = programs[1].target PROVE SameTarget(n + 1)
      BY <2>1, <3>1, <3>2 DEF SameTarget
    <3>3. ASSUME SameTarget(n + 1) PROVE p.target = programs[1].target
      BY <3>1, <3>3 DEF SameTarget
    <3> QED
      BY <3>2, <3>3
  <2>5. Conflicts(p) <=> ~ (Columns(n + 1) /\ SameTarget(n + 1))
    BY <2>3, <2>4 DEF Conflicts, Columns
  <2>6. Conflicts(p) <=> ~ AllCompatible(n + 1)
    BY <1>2, <2>5, CompatibleColumns
  <2> QED
    BY <1>1, <1>4, <2>6
<1> QED
  BY <1>3, <1>4
-----------------------------------------------------------------------------
(* The order of the link inputs.                                           *)

(* Once everything is merged, the edges are the constraints the programs   *)
(* state, between link inputs of the composition.                          *)

LEMMA NodesAreLinks ==
  ASSUME ProgramsFit, Merged, merged = Len(programs)
  PROVE  /\ LinkConstraints.node = LinkInputs
         /\ IsFiniteSet(LinkInputs) /\ LinkInputs \subseteq Nat
         /\ \A i \in DOMAIN programs : DOMAIN programs[i].names \subseteq LinkInputs
<1> DEFINE n == Len(programs)
           doms == [i \in 1..n |-> DOMAIN programs[i].names]
<1>1. n \in Nat /\ DOMAIN programs = 1..n
  BY ProgramsIndexed
<1>2. \A i \in 1..n : NamesOf[i] = programs[i].names
  BY <1>1 DEF NamesOf
<1>3. LinkInputs = UNION {DOMAIN programs[i].names : i \in 1..n}
  BY <1>2 DEF LinkInputs, Merged, Collects
<1>4. Packages = {programs[i] : i \in 1..n}
  BY <1>1 DEF Packages, Range
<1>5. LinkConstraints.node = LinkInputs
  BY <1>3, <1>4 DEF LinkConstraints
<1>6. \A i \in 1..n : DOMAIN programs[i].names \subseteq Nat /\ IsFiniteSet(DOMAIN programs[i].names)
  BY <1>1 DEF ProgramsFit, PackageFits, LinksFit
<1>7. IsFiniteSet({DOMAIN programs[i].names : i \in 1..n})
  <2>1. IsFiniteSet(1..n)
    BY <1>1, FS_Interval
  <2>2. doms \in Surjection(1..n, {DOMAIN programs[i].names : i \in 1..n})
    BY DEF Surjection
  <2> QED
    BY <2>1, <2>2, FS_Surjection
<1>8. IsFiniteSet(LinkInputs)
  BY <1>3, <1>6, <1>7, FS_UNION
<1> QED
  BY <1>1, <1>3, <1>5, <1>6, <1>8

LEMMA EdgesAreConstraints ==
  ASSUME ProgramsFit, Merged, merged = Len(programs), NEW k \in LinkInputs
  PROVE  /\ edges[k] \subseteq LinkInputs
         /\ \A l : l \in edges[k] <=> <<k, l>> \in LinkConstraints.edge
<1>1. DOMAIN programs = 1..merged /\ DOMAIN edges = LinkInputs
  BY ProgramsIndexed DEF Merged, EdgesFit, LinkInputs
<1>2. edges[k] = UNION {After(programs[i], k) : i \in 1..merged}
  BY <1>1 DEF Merged, EdgesFit
<1>3. edges[k] \subseteq LinkInputs
  <2> SUFFICES ASSUME NEW i \in 1..merged PROVE After(programs[i], k) \subseteq LinkInputs
    BY <1>2
  <2>1. LinksFit(programs[i]) /\ DOMAIN programs[i].names \subseteq LinkInputs
    BY <1>1, NodesAreLinks DEF ProgramsFit, PackageFits
  <2> QED
    BY <2>1, AfterFits
<1>4. ASSUME NEW l PROVE l \in edges[k] <=> \E i \in 1..merged : l \in After(programs[i], k)
  BY <1>2
<1>5. ASSUME NEW l, NEW i \in 1..merged
      PROVE  l \in After(programs[i], k) <=>
               \E a, b \in DOMAIN programs[i].links :
                 a < b /\ programs[i].links[a] = k /\ programs[i].links[b] = l
  <2> DEFINE links == programs[i].links
  <2>1. DOMAIN links = 1..Len(links) /\ Len(links) \in Nat
    BY <1>1 DEF ProgramsFit, PackageFits, LinksFit
  <2>2. \A b \in DOMAIN links : \A a \in Nat : a \in 1..(b - 1) <=> a \in DOMAIN links /\ a < b
    BY <2>1
  <2>3. l \in After(programs[i], k) <=>
          \E b \in DOMAIN links : (\E a \in 1..(b - 1) : links[a] = k) /\ links[b] = l
    BY DEF After
  <2> HIDE DEF links
  <2> QED
    BY <2>1, <2>2, <2>3 DEF links
<1>6. Packages = {programs[i] : i \in 1..merged}
  BY <1>1 DEF Packages, Range
<1>7. ASSUME NEW l PROVE <<k, l>> \in LinkConstraints.edge <=>
        l \in LinkInputs /\ \E i \in 1..merged : \E a, b \in DOMAIN programs[i].links :
                              a < b /\ programs[i].links[a] = k /\ programs[i].links[b] = l
  <2>1. LinkConstraints.node = LinkInputs
    BY NodesAreLinks
  <2>2. LinkConstraints.edge =
          {e \in LinkInputs \X LinkInputs : \E p \in Packages : \E a, b \in DOMAIN p.links :
             a < b /\ p.links[a] = e[1] /\ p.links[b] = e[2]}
    BY <2>1 DEF LinkConstraints
  <2>3. <<k, l>> \in LinkConstraints.edge <=>
          l \in LinkInputs /\ \E p \in Packages : \E a, b \in DOMAIN p.links :
                                a < b /\ p.links[a] = k /\ p.links[b] = l
    BY <2>2
  <2> QED
    BY <1>6, <2>3
<1>8. ASSUME NEW l PROVE l \in edges[k] <=> <<k, l>> \in LinkConstraints.edge
  <2> DEFINE Says(i) == \E a, b \in DOMAIN programs[i].links :
                          a < b /\ programs[i].links[a] = k /\ programs[i].links[b] = l
  <2>1. l \in edges[k] <=> \E i \in 1..merged : l \in After(programs[i], k)
    BY <1>4
  <2>2. \A i \in 1..merged : l \in After(programs[i], k) <=> Says(i)
    BY <1>5
  <2>3. <<k, l>> \in LinkConstraints.edge <=> l \in LinkInputs /\ \E i \in 1..merged : Says(i)
    BY <1>7
  <2> HIDE DEF Says
  <2> QED
    BY <1>3, <2>1, <2>2, <2>3
<1> QED
  BY <1>3, <1>8
(* The order in hand.                                                      *)
LEMMA NextLinkIsLeast ==
  ASSUME ready \subseteq Nat, ready # {}
  PROVE  NextLink \in ready /\ \A k \in ready : NextLink <= k
<1>1. \E l \in ready : \A k \in ready : l <= k
  BY LeastMember
<1> QED
  BY <1>1 DEF NextLink

LEMMA PlacedSoFar ==
  ASSUME OrderedFits
  PROVE  /\ Len(ordered) \in Nat /\ DOMAIN ordered = 1..Len(ordered)
         /\ Placed = {ordered[j] : j \in 1..Len(ordered)} /\ Placed \subseteq LinkInputs
         /\ \A l \in Placed : Before(l) \subseteq Placed
<1>1. Len(ordered) \in Nat /\ DOMAIN ordered = 1..Len(ordered) /\ ordered \in [1..Len(ordered) -> LinkInputs]
  BY DEF OrderedFits
<1>2. Placed = {ordered[j] : j \in 1..Len(ordered)} /\ Placed \subseteq LinkInputs
  BY <1>1 DEF Placed, Range
<1>3. ASSUME NEW l \in Placed PROVE Before(l) \subseteq Placed
  <2>1. PICK i \in 1..Len(ordered) : l = ordered[i]
    BY <1>2
  <2>2. 1..(i - 1) \subseteq 1..Len(ordered)
    BY <1>1, <2>1
  <2> QED
    BY <1>1, <1>2, <2>1, <2>2 DEF OrderedFits
<1> QED
  BY <1>1, <1>2, <1>3

LEMMA CountEdgesKeeps ==
  ASSUME ProgramsFit, Merged, CountEdges, ordered = <<>>
  PROVE  /\ OrderedFits'
         /\ (ready = {l \in LinkInputs \ Placed : Before(l) \subseteq Placed})'
         /\ (indegree = [l \in LinkInputs |-> Cardinality(Before(l) \ Placed)])'
<1>1. /\ ready' = {l \in LinkInputs : Before(l) = {}}
      /\ indegree' = [l \in LinkInputs |-> Cardinality(Before(l))]
      /\ UNCHANGED <<names, edges, ordered>>
  BY DEF CountEdges, composed
<1>2. LinkInputs' = LinkInputs /\ \A l : Before(l)' = Before(l)
  BY <1>1 DEF LinkInputs, Before
<1>3. ordered' = <<>> /\ Placed' = {}
  BY <1>1 DEF Placed, Range
<1>4. OrderedFits'
  BY <1>3 DEF OrderedFits
<1>5. \A l : Before(l) \ {} = Before(l) /\ (Before(l) \subseteq {} <=> Before(l) = {})
  OBVIOUS
<1>6. /\ ready' = {l \in LinkInputs \ {} : Before(l) \subseteq {}}
      /\ indegree' = [l \in LinkInputs |-> Cardinality(Before(l) \ {})]
  BY <1>1, <1>5
<1> QED
  BY <1>2, <1>3, <1>4, <1>6

LEMMA OrderLinkKeeps ==
  ASSUME ProgramsFit, Merged, merged = Len(programs), OrderLink, OrderedFits,
         ready = {l \in LinkInputs \ Placed : Before(l) \subseteq Placed},
         indegree = [l \in LinkInputs |-> Cardinality(Before(l) \ Placed)]
  PROVE  /\ OrderedFits'
         /\ (ready = {l \in LinkInputs \ Placed : Before(l) \subseteq Placed})'
         /\ (indegree = [l \in LinkInputs |-> Cardinality(Before(l) \ Placed)])'
<1> DEFINE x == NextLink
           n == Len(ordered)
<1>1. /\ ready # {} /\ ordered' = Append(ordered, x)
      /\ indegree' = [l \in LinkInputs |-> IF l \in edges[x] THEN indegree[l] - 1 ELSE indegree[l]]
      /\ ready' = (ready \ {x}) \cup {l \in edges[x] : indegree[l] = 1}
      /\ UNCHANGED <<names, edges>>
  BY DEF OrderLink, composed
<1>2. LinkInputs' = LinkInputs /\ \A l : Before(l)' = Before(l)
  BY <1>1 DEF LinkInputs, Before
<1>3. IsFiniteSet(LinkInputs) /\ LinkInputs \subseteq Nat
  BY NodesAreLinks
<1>4. /\ x \in LinkInputs /\ x \notin Placed /\ Before(x) \subseteq Placed
      /\ \A k \in ready : x <= k
  BY <1>1, <1>3, NextLinkIsLeast
<1>5. /\ n \in Nat /\ DOMAIN ordered = 1..n /\ Placed = {ordered[j] : j \in 1..n}
      /\ Placed \subseteq LinkInputs /\ \A l \in Placed : Before(l) \subseteq Placed
  BY PlacedSoFar
<1>6. /\ ordered' \in Seq(LinkInputs) /\ Len(ordered') = n + 1 /\ DOMAIN ordered' = 1..(n + 1)
      /\ \A i \in 1..n : ordered'[i] = ordered[i]
      /\ ordered'[n + 1] = x
  BY <1>1, <1>4, <1>5 DEF OrderedFits
<1>7. Placed' = Placed \cup {x}
  <2>1. Placed' = {ordered'[j] : j \in 1..(n + 1)}
    BY <1>6 DEF Placed, Range
  <2>2. 1..(n + 1) = (1..n) \cup {n + 1}
    BY <1>5
  <2> QED
    BY <1>5, <1>6, <2>1, <2>2
<1>8. edges[x] \subseteq LinkInputs /\ \A l \in LinkInputs : l \in edges[x] <=> x \in Before(l)
  BY <1>4, EdgesAreConstraints DEF Before
<1>9. \A l : Before(l) \subseteq LinkInputs
  BY DEF Before
<1> HIDE DEF x, n
<1>10. ASSUME NEW l \in LinkInputs
       PROVE  indegree'[l] = Cardinality(Before(l) \ Placed')
  <2>1. IsFiniteSet(Before(l) \ Placed)
    BY <1>3, <1>9, FS_Subset
  <2>2. CASE l \in edges[x]
    <3>1. x \in Before(l) \ Placed /\ Before(l) \ Placed' = (Before(l) \ Placed) \ {x}
      BY <1>4, <1>7, <1>8, <2>2
    <3>2. Cardinality((Before(l) \ Placed) \ {x}) = Cardinality(Before(l) \ Placed) - 1
      BY <2>1, <3>1, FS_RemoveElement
    <3>3. indegree'[l] = indegree[l] - 1 /\ indegree[l] = Cardinality(Before(l) \ Placed)
      BY <1>1, <2>2
    <3> QED
      BY <3>1, <3>2, <3>3
  <2>3. CASE l \notin edges[x]
    <3>1. Before(l) \ Placed' = Before(l) \ Placed
      BY <1>7, <1>8, <2>3
    <3> QED
      BY <1>1, <2>3, <3>1
  <2> QED
    BY <2>2, <2>3
<1>11. ASSUME NEW l \in LinkInputs
       PROVE  l \in ready' <=> l \notin Placed' /\ Before(l) \subseteq Placed'
  <2>1. IsFiniteSet(Before(l) \ Placed)
    BY <1>3, <1>9, FS_Subset
  <2>2. CASE l \in edges[x]
    <3>1. x \in Before(l) \ Placed
      BY <1>4, <1>8, <2>2
    <3>2. l \notin Placed /\ l # x /\ l \notin ready
      BY <1>4, <1>5, <3>1
    <3>3. indegree[l] = 1 <=> Before(l) \ Placed = {x}
      <4>1. indegree[l] = 1 <=> \E y : Before(l) \ Placed = {y}
        BY <2>1, FS_Singleton
      <4> QED
        BY <3>1, <4>1
    <3> QED
      BY <1>1, <1>7, <2>2, <3>1, <3>2, <3>3
  <2>3. CASE l \notin edges[x]
    <3>1. x \notin Before(l)
      BY <1>8, <2>3
    <3>2. l \in ready' <=> l \in ready /\ l # x
      BY <1>1, <2>3
    <3> QED
      BY <1>7, <3>1, <3>2
  <2> QED
    BY <2>2, <2>3
<1>12. ready' \subseteq LinkInputs
  BY <1>1, <1>8
<1>13. indegree' = [l \in LinkInputs |-> Cardinality(Before(l) \ Placed')]
  BY <1>1, <1>10
<1>14. ready' = {l \in LinkInputs \ Placed' : Before(l) \subseteq Placed'}
  BY <1>11, <1>12
<1>15. OrderedFits'
  <2>1. \A i, j \in 1..(n + 1) : i # j => ordered'[i] # ordered'[j]
    <3>1. \A i, j \in 1..n : i # j => ordered[i] # ordered[j]
      BY <1>5 DEF OrderedFits
    <3>2. \A i \in 1..n : ordered[i] # x
      BY <1>4, <1>5
    <3>3. \A i \in 1..(n + 1) : i \in 1..n \/ i = n + 1
      BY <1>5
    <3> QED
      BY <1>6, <3>1, <3>2, <3>3
  <2>2. ASSUME NEW i \in 1..(n + 1)
        PROVE  /\ 1..(i - 1) \subseteq 1..n
               /\ \A j \in 1..(i - 1) : ordered'[j] = ordered[j]
    BY <1>5, <1>6
  <2>3. ASSUME NEW i \in 1..(n + 1), NEW k \in Before(ordered'[i])
        PROVE  \E j \in 1..(i - 1) : k = ordered'[j]
    <3>1. CASE i = n + 1
      <4>1. k \in Placed /\ i - 1 = n
        BY <1>4, <1>5, <1>6, <3>1
      <4> QED
        BY <1>5, <2>2, <4>1
    <3>2. CASE i # n + 1
      <4>1. i \in 1..n /\ ordered'[i] = ordered[i]
        BY <1>5, <1>6, <3>2
      <4>2. \E j \in 1..(i - 1) : k = ordered[j]
        BY <1>5, <4>1 DEF OrderedFits
      <4> QED
        BY <2>2, <4>2
    <3> QED
      BY <3>1, <3>2
  <2>4. ASSUME NEW i \in 1..(n + 1), NEW l \in LinkInputs,
               \A j \in 1..(i - 1) : l # ordered'[j],
               \A k \in Before(l) : \E j \in 1..(i - 1) : k = ordered'[j]
        PROVE  ordered'[i] <= l
    <3>1. /\ \A j \in 1..(i - 1) : l # ordered[j]
          /\ \A k \in Before(l) : \E j \in 1..(i - 1) : k = ordered[j]
      BY <2>2, <2>4
    <3>2. CASE i = n + 1
      <4>1. i - 1 = n
        BY <1>5, <3>2
      <4>2. l \in ready
        BY <1>5, <3>1, <4>1
      <4> QED
        BY <1>4, <1>6, <3>2, <4>2
    <3>3. CASE i # n + 1
      <4>1. i \in 1..n /\ ordered'[i] = ordered[i]
        BY <1>5, <1>6, <3>3
      <4> QED
        BY <1>5, <3>1, <4>1 DEF OrderedFits
    <3> QED
      BY <3>2, <3>3
  <2> QED
    BY <1>2, <1>6, <2>1, <2>3, <2>4 DEF OrderedFits
<1> QED
  BY <1>2, <1>13, <1>14, <1>15
LEMMA CountUpTo ==
  ASSUME NEW k \in Nat
  PROVE  Cardinality(1..k) = k
<1>1. 1 \in Int /\ k \in Int
  OBVIOUS
<1>2. Cardinality(1..k) = IF 1 > k THEN 0 ELSE k - 1 + 1
  BY ONLY <1>1, FS_Interval
<1> QED
  BY <1>2

(* No link input is left out exactly when the constraints can be met.      *)
LEMMA AllPlaced ==
  ASSUME ProgramsFit, Merged, merged = Len(programs), OrderedFits,
         ready = {}, ready = {l \in LinkInputs \ Placed : Before(l) \subseteq Placed}
  PROVE  /\ Len(ordered) = Cardinality(LinkInputs) <=> Placed = LinkInputs
         /\ Placed = LinkInputs <=> ~ Contradictory(LinkConstraints)
<1> DEFINE n == Len(ordered)
<1>1. /\ n \in Nat /\ DOMAIN ordered = 1..n /\ Placed = {ordered[j] : j \in 1..n}
      /\ Placed \subseteq LinkInputs
  BY PlacedSoFar
<1>2. IsFiniteSet(LinkInputs) /\ LinkConstraints.node = LinkInputs
  BY NodesAreLinks
<1>3. \A l \in LinkInputs : \A k : k \in Before(l) <=> k \in LinkInputs /\ <<k, l>> \in LinkConstraints.edge
  BY EdgesAreConstraints DEF Before
<1>4. n = Cardinality(LinkInputs) <=> Placed = LinkInputs
  <2>1. ordered \in Injection(1..n, LinkInputs)
    BY <1>1 DEF OrderedFits, Injection, IsInjective
  <2>2. Cardinality(1..n) = n
    BY <1>1, CountUpTo
  <2>3. n = Cardinality(LinkInputs) <=> ordered \in Surjection(1..n, LinkInputs)
    BY <1>2, <2>1, <2>2, FS_Injection
  <2>4. ordered \in Surjection(1..n, LinkInputs) <=> \A l \in LinkInputs : \E j \in 1..n : ordered[j] = l
    BY <1>1 DEF Surjection, OrderedFits
  <2> QED
    BY <1>1, <2>3, <2>4
<1>5. ASSUME Placed = LinkInputs, Contradictory(LinkConstraints) PROVE FALSE
  <2>1. PICK S \in SUBSET LinkInputs :
               S # {} /\ \A l \in S : \E k \in S : <<k, l>> \in LinkConstraints.edge
    BY <1>2, <1>5 DEF Contradictory
  <2> DEFINE T == {j \in 1..n : ordered[j] \in S}
  <2>2. T \subseteq Nat /\ T # {}
    BY <1>1, <1>5, <2>1
  <2>3. PICK i \in T : \A j \in T : i <= j
    BY <2>2, LeastMember
  <2>4. ordered[i] \in S /\ i \in 1..n
    BY <2>3
  <2>5. PICK k \in S : <<k, ordered[i]>> \in LinkConstraints.edge
    BY <2>1, <2>4
  <2>6. k \in Before(ordered[i])
    BY <1>3, <2>1, <2>4, <2>5
  <2>7. PICK j \in 1..(i - 1) : k = ordered[j]
    BY <1>1, <2>4, <2>6 DEF OrderedFits
  <2>8. j \in T /\ ~ (i <= j)
    BY <1>1, <2>4, <2>5, <2>7
  <2> QED
    BY <2>3, <2>8
<1>6. ASSUME Placed # LinkInputs PROVE Contradictory(LinkConstraints)
  <2> DEFINE S == LinkInputs \ Placed
  <2>1. S # {} /\ S \in SUBSET LinkInputs
    BY <1>1, <1>6
  <2>2. ASSUME NEW l \in S PROVE \E k \in S : <<k, l>> \in LinkConstraints.edge
    <3>1. ~ (Before(l) \subseteq Placed)
      OBVIOUS
    <3>2. PICK k \in Before(l) : k \notin Placed
      BY <3>1
    <3> QED
      BY <1>3, <3>2
  <2> QED
    BY <1>2, <2>1, <2>2 DEF Contradictory
<1> QED
  BY <1>4, <1>5, <1>6

(* The order in hand is the least that the programs' constraints allow.    *)
LEMMA OrderIsLeast ==
  ASSUME ProgramsFit, Merged, merged = Len(programs), OrderedFits
  PROVE  LeastOrder(ordered)
<1> DEFINE n == Len(ordered)
<1>1. /\ n \in Nat /\ DOMAIN ordered = 1..n /\ Placed = {ordered[j] : j \in 1..n}
      /\ Placed \subseteq LinkInputs
  BY PlacedSoFar
<1>2. LinkConstraints.node = LinkInputs
  BY NodesAreLinks
<1>3. \A l \in LinkInputs : \A k : k \in Before(l) <=> k \in LinkInputs /\ <<k, l>> \in LinkConstraints.edge
  BY EdgesAreConstraints DEF Before
<1>4. \A e \in LinkConstraints.edge : e = <<e[1], e[2]>> /\ e[1] \in LinkInputs /\ e[2] \in LinkInputs
  BY <1>2 DEF LinkConstraints
<1>5. ASSUME NEW i \in 1..n
      PROVE  LET placed == {ordered[j] : j \in 1..(i - 1)}
                 free == {l \in LinkConstraints.node \ placed :
                            \A e \in LinkConstraints.edge : e[2] = l => e[1] \in placed}
             IN ordered[i] \in free /\ \A l \in free : ordered[i] <= l
  <2> DEFINE placed == {ordered[j] : j \in 1..(i - 1)}
             free == {l \in LinkInputs \ placed :
                        \A e \in LinkConstraints.edge : e[2] = l => e[1] \in placed}
  <2>1. 1..(i - 1) \subseteq 1..n /\ i \notin 1..(i - 1)
    BY <1>1
  <2>2. ordered[i] \in LinkInputs /\ ordered[i] \notin placed
    <3>1. \A j \in 1..(i - 1) : ordered[i] # ordered[j]
      BY <1>1, <2>1 DEF OrderedFits
    <3> QED
      BY <1>1, <3>1
  <2>3. ASSUME NEW e \in LinkConstraints.edge, e[2] = ordered[i] PROVE e[1] \in placed
    <3>1. e[1] \in Before(ordered[i])
      BY <1>3, <1>4, <2>2, <2>3
    <3> QED
      BY <1>1, <3>1 DEF OrderedFits
  <2>4. ASSUME NEW l \in free PROVE ordered[i] <= l
    <3>1. \A j \in 1..(i - 1) : l # ordered[j]
      OBVIOUS
    <3>2. ASSUME NEW k \in Before(l) PROVE \E j \in 1..(i - 1) : k = ordered[j]
      <4>1. <<k, l>> \in LinkConstraints.edge
        BY <1>3
      <4>2. k \in placed
        BY <4>1
      <4> QED
        BY <4>2
    <3> QED
      BY <1>1, <3>1, <3>2 DEF OrderedFits
  <2>5. ordered[i] \in free
    BY <2>2, <2>3
  <2> QED
    BY <1>2, <2>4, <2>5
<1> QED
  BY <1>1, <1>5 DEF LeastOrder
-----------------------------------------------------------------------------
(* Each action in turn.  Nothing is merged while packages are translated.  *)
LEMMA NothingMerged ==
  ASSUME NEW f, NEW fs
  PROVE  /\ Collects(f, fs, 0) <=> DOMAIN f = {}
         /\ AllCompatible(0)
<1>1. 1..0 = {}
  OBVIOUS
<1> QED
  BY <1>1 DEF Collects, AllCompatible

LEMMA NothingMergedYet ==
  Merged /\ merged = 0 <=>
    /\ merged = 0 /\ DOMAIN types = {} /\ DOMAIN bindings = {} /\ DOMAIN names = {}
    /\ DOMAIN adapters = {} /\ DOMAIN edges = {}
<1>1. ASSUME merged = 0
      PROVE  /\ Collects(types, TypesOf, merged) <=> DOMAIN types = {}
             /\ Collects(bindings, BindingsOf, merged) <=> DOMAIN bindings = {}
             /\ Collects(names, NamesOf, merged) <=> DOMAIN names = {}
             /\ Collects(adapters, AdaptersOf, merged) <=> DOMAIN adapters = {}
  BY <1>1, NothingMerged
<1>2. DOMAIN names = {} /\ DOMAIN edges = {} => EdgesFit
  BY DEF EdgesFit
<1>3. EdgesFit => DOMAIN edges = DOMAIN names
  BY DEF EdgesFit
<1> QED
  BY <1>1, <1>2, <1>3 DEF Merged

LEMMA InitFits == Init => IInv
<1> SUFFICES ASSUME Init PROVE IInv
  OBVIOUS
<1>1. BuildFits
  BY BuildsAssumption DEF Init, BuildFits
<1>2. /\ phase = "validate" /\ refused = FALSE /\ programs = <<>> /\ merged = 0 /\ ordered = <<>>
      /\ DOMAIN types = {} /\ DOMAIN bindings = {} /\ DOMAIN names = {} /\ DOMAIN adapters = {}
      /\ DOMAIN edges = {}
  BY DEF Init, EmptyFunction
<1>3. Len(build) > 0
  BY <1>1 DEF BuildFits
<1>4. PhaseFits
  BY <1>2, <1>3 DEF PhaseFits, Translating, Composing
<1>5. TranslationFits /\ KahnFits
  BY <1>2 DEF TranslationFits, KahnFits
<1>6. ProgramsFit
  BY <1>2 DEF ProgramsFit
<1>7. MergedFits
  BY <1>2, NothingMergedYet DEF MergedFits
<1>8. DoneFits
  BY <1>2 DEF DoneFits, CompositionIgnoresOrder, CyclesAreTraced, Accepted, Translated
<1> QED
  BY <1>1, <1>4, <1>5, <1>6, <1>7, <1>8 DEF IInv

LEMMA SamePrograms ==
  ASSUME UNCHANGED <<build, programs>>
  PROVE  /\ BuildFits => BuildFits'
         /\ ProgramsFit => ProgramsFit'
         /\ M' = M /\ Selection' = Selection
BY DEF BuildFits, ProgramsFit, M, Selection, Current

LEMMA SameComposition ==
  ASSUME UNCHANGED <<programs, merged, composed>>
  PROVE  Merged' <=> Merged
BY DEF Merged, EdgesFit, TypesOf, BindingsOf, NamesOf, AdaptersOf, composed

(* A step of a translation, which goes on or is refused.                   *)
LEMMA TranslatingKeeps ==
  ASSUME IInv, phase \in Translating,
         UNCHANGED <<build, programs, merged, composed, kahn, traceable>>,
         \/ phase' \in Translating /\ refused' = refused
         \/ phase' = "done" /\ refused' = TRUE,
         TranslationFits'
  PROVE  IInv'
<1>1. /\ Len(programs) < Len(build) /\ merged = 0 /\ ~ refused /\ Merged /\ ordered = <<>>
  BY DEF IInv, PhaseFits, MergedFits, KahnFits
<1>2. BuildFits' /\ ProgramsFit'
  BY SamePrograms DEF IInv
<1>3. PhaseFits'
  <2>1. refused \in BOOLEAN /\ TRUE \in BOOLEAN /\ merged' = 0
    BY <1>1 DEF IInv, PhaseFits
  <2>2. CASE phase' \in Translating /\ refused' = refused
    BY <1>1, <2>1, <2>2 DEF PhaseFits, Translating, Composing
  <2>3. CASE phase' = "done" /\ refused' = TRUE
    BY <2>1, <2>3 DEF PhaseFits, Translating, Composing
  <2> QED
    BY <2>2, <2>3
<1>4. Merged'
  BY <1>1, SameComposition
<1>5. MergedFits' /\ KahnFits'
  BY <1>1, <1>4 DEF MergedFits, KahnFits, Translating, Composing, kahn
<1>6. ~ Translated' /\ ~ Accepted'
  <2>1. phase' # "done" \/ refused'
    BY DEF Translating
  <2>2. Len(programs) # Len(build)
    <3>1. Len(programs) \in Nat /\ Len(build) \in Nat
      BY DEF IInv, ProgramsFit, BuildFits
    <3> QED
      BY <1>1, <3>1
  <2> QED
    BY <2>1, <2>2 DEF Translated, Accepted
<1>7. DoneFits'
  BY <1>6 DEF DoneFits, CompositionIgnoresOrder, CyclesAreTraced
<1> QED
  BY <1>2, <1>3, <1>5, <1>7 DEF IInv

LEMMA ValidateKeeps == IInv /\ Validate => IInv'
<1> SUFFICES ASSUME IInv, Validate PROVE IInv'
  OBVIOUS
<1>1. /\ phase = "validate" /\ UNCHANGED <<build, programs, merged, composed, kahn, traceable>>
      /\ \/ ManifestValid(M) /\ phase' = "reach" /\ UNCHANGED refused
         \/ phase' = "done" /\ refused' = TRUE
  BY DEF Validate
<1>2. TranslationFits'
  BY <1>1, SamePrograms DEF TranslationFits
<1> QED
  BY <1>1, <1>2, TranslatingKeeps DEF Translating

LEMMA ReachKeeps == IInv /\ (Reach \/ ReachTypes) => IInv'
<1> SUFFICES ASSUME IInv, Reach \/ ReachTypes PROVE IInv'
  OBVIOUS
<1>1. phase = "reach" /\ UNCHANGED <<build, phase, programs, merged, composed, kahn, traceable, refused>>
  BY DEF Reach, ReachTypes
<1>2. TranslationFits'
  BY <1>1, SamePrograms DEF IInv, TranslationFits
<1> QED
  BY <1>1, <1>2, TranslatingKeeps DEF Translating

LEMMA MarkCyclesKeeps == IInv /\ MarkCycles => IInv'
<1> SUFFICES ASSUME IInv, MarkCycles PROVE IInv'
  OBVIOUS
<1>1. /\ phase = "reach" /\ phase' = "spread" /\ marked' = TraceableSeeds(M, reached)
      /\ UNCHANGED <<build, reached, programs, merged, composed, kahn, traceable, refused>>
  BY DEF MarkCycles
<1>2. TraceableSeeds(M, reached)' = TraceableSeeds(M, reached)
  <2>1. M' = M /\ reached' = reached
    BY <1>1, SamePrograms
  <2> QED
    BY <2>1
<1>3. TranslationFits'
  <2>1. ManifestValid(M)'
    BY <1>1, SamePrograms DEF IInv, TranslationFits
  <2> QED
    BY <1>1, <1>2, <2>1 DEF TranslationFits
<1> QED
  BY <1>1, <1>3, TranslatingKeeps DEF Translating

LEMMA SpreadMarkKeeps == IInv /\ SpreadMark => IInv'
<1> SUFFICES ASSUME IInv, SpreadMark PROVE IInv'
  OBVIOUS
<1>1. /\ phase = "spread" /\ marked \subseteq marked'
      /\ UNCHANGED <<build, phase, reached, programs, merged, composed, kahn, traceable, refused>>
  BY DEF SpreadMark
<1>2. M' = M /\ reached' = reached
  BY <1>1, SamePrograms
<1>3. TranslationFits'
  BY <1>1, <1>2 DEF IInv, TranslationFits
<1> QED
  BY <1>1, <1>3, TranslatingKeeps DEF Translating

LEMMA FunctionIsSequence ==
  ASSUME NEW S, NEW k \in Nat, NEW f \in [1..k -> S]
  PROVE  f \in Seq(S)
OBVIOUS

LEMMA SequenceIsFunction ==
  ASSUME NEW S, NEW s \in Seq(S)
  PROVE  s \in [1..Len(s) -> S] /\ Len(s) \in Nat
OBVIOUS

(* One program more, and what it hands over fits.                          *)
LEMMA AppendFits ==
  ASSUME ProgramsFit, NEW p, PackageFits(p), programs' = Append(programs, p)
  PROVE  ProgramsFit' /\ Len(programs') = Len(programs) + 1
<1> DEFINE n == Len(programs)
<1>1. n \in Nat /\ DOMAIN programs = 1..n /\ programs \in Seq(Range(programs))
  BY DEF ProgramsFit
<1>2. programs \in Seq(Range(programs) \cup {p})
  BY <1>1
<1>3. /\ programs' \in Seq(Range(programs) \cup {p}) /\ Len(programs') = n + 1
      /\ DOMAIN programs' = 1..(n + 1)
      /\ \A i \in 1..n : programs'[i] = programs[i]
      /\ programs'[n + 1] = p
  BY <1>1, <1>2
<1>4. 1..(n + 1) = (1..n) \cup {n + 1}
  BY <1>1
<1>5. programs' \in Seq(Range(programs'))
  <2>1. programs' \in [1..(n + 1) -> Range(programs) \cup {p}] /\ n + 1 \in Nat
    BY <1>1, <1>3, SequenceIsFunction
  <2>2. \A i \in 1..(n + 1) : programs'[i] \in Range(programs')
    BY <1>3 DEF Range
  <2>3. programs' \in [1..(n + 1) -> Range(programs')]
    BY <2>1, <2>2
  <2> QED
    BY <2>1, <2>3, FunctionIsSequence
<1>6. \A i \in DOMAIN programs' : PackageFits(programs'[i])
  BY <1>1, <1>3, <1>4 DEF ProgramsFit
<1> QED
  BY <1>3, <1>5, <1>6 DEF ProgramsFit

LEMMA EmitKeeps == IInv /\ Emit => IInv'
<1> SUFFICES ASSUME IInv, Emit PROVE IInv'
  OBVIOUS
<1>1. /\ phase = "spread"
      /\ UNCHANGED <<build, reached, marked, merged, composed, kahn, traceable>>
  BY DEF Emit, translation
<1>2. CASE Refuses(M, Selection, reached)
  <2>1. phase' = "done" /\ refused' = TRUE /\ UNCHANGED programs
    BY <1>2 DEF Emit
  <2>2. TranslationFits'
    BY <2>1 DEF TranslationFits
  <2> QED
    BY <1>1, <2>1, <2>2, TranslatingKeeps DEF Translating
<1>3. CASE ~ Refuses(M, Selection, reached)
  <2> DEFINE p == LoweredPackage(M, Selection, reached, marked)
             n == Len(programs)
  <2>1. /\ programs' = Append(programs, p) /\ UNCHANGED refused
        /\ phase' = IF n + 1 = Len(build) THEN "merge" ELSE "validate"
    BY <1>3 DEF Emit
  <2>2. n \in Nat /\ n < Len(build) /\ merged = 0 /\ ~ refused /\ Merged /\ ordered = <<>>
    BY <1>1 DEF IInv, PhaseFits, MergedFits, KahnFits, ProgramsFit, Translating
  <2>3. IsManifest(M) /\ Len(build) \in Nat
    BY <2>2 DEF IInv, BuildFits, M, Current
  <2>4. PackageFits(p)
    BY <1>1, <1>3, <2>3, LoweredFits DEF IInv, TranslationFits
  <2> HIDE DEF p
  <2>5. ProgramsFit' /\ Len(programs') = n + 1
    BY <2>1, <2>4, AppendFits DEF IInv
  <2>6. BuildFits'
    BY <1>1 DEF IInv, BuildFits
  <2>7. PhaseFits'
    <3>1. refused' \in BOOLEAN /\ ~ refused' /\ merged' = 0
      BY <1>1, <2>1, <2>2 DEF IInv, PhaseFits
    <3>2. CASE n + 1 = Len(build)
      BY <1>1, <2>1, <2>2, <2>5, <3>1, <3>2 DEF PhaseFits, Translating, Composing
    <3>3. CASE n + 1 # Len(build)
      BY <1>1, <2>1, <2>2, <2>3, <2>5, <3>1, <3>3 DEF PhaseFits, Translating, Composing
    <3> QED
      BY <3>2, <3>3
  <2>8. TranslationFits' /\ DoneFits'
    BY <2>1 DEF TranslationFits, DoneFits, CompositionIgnoresOrder, CyclesAreTraced, Translated, Accepted
  <2>9. Merged'
    <3>1. /\ merged' = 0 /\ DOMAIN types' = {} /\ DOMAIN bindings' = {} /\ DOMAIN names' = {}
          /\ DOMAIN adapters' = {} /\ DOMAIN edges' = {}
      BY <1>1, <2>2, NothingMergedYet DEF composed
    <3>2. /\ Collects(types', TypesOf', 0) /\ Collects(bindings', BindingsOf', 0)
          /\ Collects(names', NamesOf', 0) /\ Collects(adapters', AdaptersOf', 0)
      BY <3>1, NothingMerged
    <3>3. EdgesFit'
      BY <3>1 DEF EdgesFit
    <3> QED
      BY <3>1, <3>2, <3>3 DEF Merged
  <2>10. MergedFits' /\ KahnFits'
    <3>1. AllCompatible(merged)'
      <4>1. merged' = 0 /\ 1..0 = {}
        BY <1>1, <2>2
      <4> QED
        BY <4>1 DEF AllCompatible
    <3> QED
      BY <1>1, <2>1, <2>2, <2>9, <3>1 DEF MergedFits, KahnFits, Translating, Composing, kahn
  <2> QED
    BY <2>5, <2>6, <2>7, <2>8, <2>10 DEF IInv
<1> QED
  BY <1>2, <1>3
-----------------------------------------------------------------------------
(* The steps of the composition, from programs that stay.                  *)
LEMMA MergeKeeps == IInv /\ Merge => IInv'
<1> SUFFICES ASSUME IInv, Merge PROVE IInv'
  OBVIOUS
<1>1. /\ phase = "merge" /\ phase' = "merge" /\ merged < Len(programs) /\ merged' = merged + 1
      /\ UNCHANGED <<build, programs, kahn>>
      /\ \E b \in BOOLEAN : refused' = (refused \/ b)
  <2>1. \E b \in BOOLEAN : refused' = (refused \/ b)
    <3>1. Conflicts(programs[merged + 1]) \in BOOLEAN
      BY Zenon DEF Conflicts, Conflict
    <3>2. refused' = (refused \/ Conflicts(programs[merged + 1]))
      BY DEF Merge
    <3> QED
      BY <3>1, <3>2
  <2> QED
    BY <2>1 DEF Merge
<1>2. /\ refused \in BOOLEAN /\ merged \in Nat /\ Len(programs) = Len(build) /\ ordered = <<>> /\ Merged
      /\ refused <=> ~ AllCompatible(merged)
  BY <1>1 DEF IInv, PhaseFits, MergedFits, KahnFits, Composing
<1>3. BuildFits' /\ ProgramsFit' /\ Len(programs) \in Nat
  BY <1>1, SamePrograms, ProgramsIndexed DEF IInv
<1>4. PhaseFits'
  <2>1. refused' \in BOOLEAN
    BY <1>1, <1>2
  <2> QED
    BY <1>1, <1>2, <1>3, <2>1 DEF PhaseFits, Translating, Composing
<1>5. Merged' /\ (refused' <=> ~ AllCompatible(merged + 1))
  BY <1>2, MergeCollects, MergeRefuses DEF IInv
<1>6. AllCompatible(merged)' <=> AllCompatible(merged + 1)
  BY <1>1 DEF AllCompatible
<1>7. MergedFits' /\ KahnFits' /\ TranslationFits' /\ DoneFits'
  BY <1>1, <1>2, <1>5, <1>6
     DEF MergedFits, KahnFits, TranslationFits, DoneFits, CompositionIgnoresOrder, CyclesAreTraced,
         Translated, Accepted, Translating, Composing, kahn
<1> QED
  BY <1>3, <1>4, <1>7 DEF IInv

(* What a step that merges nothing leaves as it is.                        *)
LEMMA ComposingKeeps ==
  ASSUME IInv, phase \in Composing, UNCHANGED <<build, programs, merged, composed>>,
         phase' \in {"order", "reconcile"}, merged = Len(programs), refused' \in BOOLEAN
  PROVE  /\ BuildFits' /\ ProgramsFit' /\ PhaseFits' /\ TranslationFits' /\ DoneFits' /\ Merged'
         /\ AllCompatible(merged)' = AllCompatible(merged) /\ AllProvided' = AllProvided
         /\ LinkInputs' = LinkInputs /\ \A l : Before(l)' = Before(l)
<1>1. Merged
  BY DEF IInv, MergedFits
<1>2. BuildFits' /\ ProgramsFit' /\ Merged'
  BY <1>1, SamePrograms, SameComposition DEF IInv
<1>3. /\ Len(programs) = Len(build) /\ Len(programs) \in Nat
  BY ProgramsIndexed DEF IInv, PhaseFits
<1>4. PhaseFits'
  BY <1>3 DEF PhaseFits, Translating, Composing
<1>5. TranslationFits' /\ DoneFits'
  BY DEF TranslationFits, DoneFits, CompositionIgnoresOrder, CyclesAreTraced, Translated, Accepted
<1>6. AllCompatible(merged)' = AllCompatible(merged)
  BY DEF AllCompatible
<1>7. AllProvided' = AllProvided
  BY DEF AllProvided, Packages, Provided
<1>8. LinkInputs' = LinkInputs /\ \A l : Before(l)' = Before(l)
  BY DEF LinkInputs, Before, composed
<1> QED
  BY <1>2, <1>4, <1>5, <1>6, <1>7, <1>8

LEMMA CountEdgesInv == IInv /\ CountEdges => IInv'
<1> SUFFICES ASSUME IInv, CountEdges PROVE IInv'
  OBVIOUS
<1>1. /\ phase = "merge" /\ phase' = "order" /\ merged = Len(programs)
      /\ UNCHANGED <<build, programs, merged, composed, ordered, traceable, refused>>
  BY DEF CountEdges
<1>2. /\ refused \in BOOLEAN /\ ordered = <<>> /\ Merged /\ ProgramsFit
      /\ refused <=> ~ AllCompatible(merged)
  BY <1>1 DEF IInv, PhaseFits, MergedFits, KahnFits, Composing
<1>3. refused' \in BOOLEAN /\ phase \in Composing /\ phase' \in {"order", "reconcile"}
  BY <1>1, <1>2 DEF Composing
<1>4. /\ BuildFits' /\ ProgramsFit' /\ PhaseFits' /\ TranslationFits' /\ DoneFits' /\ Merged'
      /\ AllCompatible(merged)' = AllCompatible(merged)
  BY <1>1, <1>3, ComposingKeeps
<1>5. /\ OrderedFits'
      /\ (ready = {l \in LinkInputs \ Placed : Before(l) \subseteq Placed})'
      /\ (indegree = [l \in LinkInputs |-> Cardinality(Before(l) \ Placed)])'
  BY <1>2, CountEdgesKeeps
<1>6. KahnFits'
  BY <1>1, <1>5 DEF KahnFits, Translating
<1>7. MergedFits'
  BY <1>1, <1>2, <1>4 DEF MergedFits
<1> QED
  BY <1>4, <1>6, <1>7 DEF IInv

LEMMA OrderLinkInv == IInv /\ OrderLink => IInv'
<1> SUFFICES ASSUME IInv, OrderLink PROVE IInv'
  OBVIOUS
<1>1. /\ phase = "order" /\ phase' = "order"
      /\ UNCHANGED <<build, programs, merged, composed, traceable, refused>>
  BY DEF OrderLink
<1>2. /\ refused \in BOOLEAN /\ merged = Len(programs) /\ Merged /\ ProgramsFit
      /\ refused <=> ~ AllCompatible(merged)
      /\ OrderedFits /\ ready = {l \in LinkInputs \ Placed : Before(l) \subseteq Placed}
      /\ indegree = [l \in LinkInputs |-> Cardinality(Before(l) \ Placed)]
  BY <1>1 DEF IInv, PhaseFits, MergedFits, KahnFits, Composing
<1>3. refused' \in BOOLEAN /\ phase \in Composing /\ phase' \in {"order", "reconcile"}
  BY <1>1, <1>2 DEF Composing
<1>4. /\ BuildFits' /\ ProgramsFit' /\ PhaseFits' /\ TranslationFits' /\ DoneFits' /\ Merged'
      /\ AllCompatible(merged)' = AllCompatible(merged)
  BY <1>1, <1>2, <1>3, ComposingKeeps
<1>5. /\ OrderedFits'
      /\ (ready = {l \in LinkInputs \ Placed : Before(l) \subseteq Placed})'
      /\ (indegree = [l \in LinkInputs |-> Cardinality(Before(l) \ Placed)])'
  BY <1>2, OrderLinkKeeps
<1>6. KahnFits'
  BY <1>1, <1>5 DEF KahnFits, Translating
<1>7. MergedFits'
  BY <1>1, <1>2, <1>4 DEF MergedFits
<1> QED
  BY <1>4, <1>6, <1>7 DEF IInv
-----------------------------------------------------------------------------
(* Upcasts and destructors.                                                *)
LEMMA CompositionIsUnion ==
  ASSUME ProgramsFit, Merged, merged = Len(programs)
  PROVE  /\ Packages = {programs[i] : i \in 1..merged} /\ merged \in Nat
         /\ \A t \in DOMAIN types : \E i \in 1..merged :
              t \in DOMAIN programs[i].types /\ types[t] = programs[i].types[t]
         /\ \A b \in DOMAIN bindings : \E i \in 1..merged :
              b \in DOMAIN programs[i].bindings /\ bindings[b] = programs[i].bindings[b]
         /\ AllCompatible(merged) =>
              \A i \in 1..merged :
                /\ \A t \in DOMAIN programs[i].types : t \in DOMAIN types /\ types[t] = programs[i].types[t]
                /\ \A b \in DOMAIN programs[i].bindings :
                     b \in DOMAIN bindings /\ bindings[b] = programs[i].bindings[b]
<1>1. /\ merged \in Nat /\ DOMAIN programs = 1..merged
      /\ Collects(types, TypesOf, merged) /\ Collects(bindings, BindingsOf, merged)
  BY ProgramsIndexed DEF Merged
<1>2. \A i \in 1..merged : TypesOf[i] = programs[i].types /\ BindingsOf[i] = programs[i].bindings
  BY <1>1 DEF TypesOf, BindingsOf
<1>3. Packages = {programs[i] : i \in 1..merged}
  BY <1>1 DEF Packages, Range
<1>4. \A t \in DOMAIN types : \E i \in 1..merged :
        t \in DOMAIN programs[i].types /\ types[t] = programs[i].types[t]
  BY <1>1, <1>2 DEF Collects
<1>5. \A b \in DOMAIN bindings : \E i \in 1..merged :
        b \in DOMAIN programs[i].bindings /\ bindings[b] = programs[i].bindings[b]
  BY <1>1, <1>2 DEF Collects
<1>6. ASSUME AllCompatible(merged), NEW i \in 1..merged
      PROVE  /\ \A t \in DOMAIN programs[i].types : t \in DOMAIN types /\ types[t] = programs[i].types[t]
             /\ \A b \in DOMAIN programs[i].bindings :
                  b \in DOMAIN bindings /\ bindings[b] = programs[i].bindings[b]
  <2>1. AllAgree(TypesOf, merged) /\ AllAgree(BindingsOf, merged)
    BY <1>1, <1>6, CompatibleColumns DEF Columns
  <2>2. \A t \in DOMAIN TypesOf[i] : t \in DOMAIN types /\ types[t] = TypesOf[i][t]
    BY <1>1, <2>1, CollectedAgrees
  <2>3. \A b \in DOMAIN BindingsOf[i] : b \in DOMAIN bindings /\ bindings[b] = BindingsOf[i][b]
    BY <1>1, <2>1, CollectedAgrees
  <2> QED
    BY <1>2, <2>2, <2>3
<1> QED
  BY <1>1, <1>3, <1>4, <1>5, <1>6

(* What the programs name has an owner among them exactly when it has one  *)
(* in the composition.                                                     *)
Resolved ==
  /\ \A t \in DOMAIN types : UpcastResolves(t)
  /\ \A b \in DOMAIN bindings : DestructorsResolve(b)

LEMMA ResolvedIsProvided ==
  ASSUME ProgramsFit, Merged, merged = Len(programs), AllCompatible(merged)
  PROVE  AllProvided <=> Resolved
<1>1. /\ Packages = {programs[i] : i \in 1..merged}
      /\ \A t \in DOMAIN types : \E i \in 1..merged :
           t \in DOMAIN programs[i].types /\ types[t] = programs[i].types[t]
      /\ \A b \in DOMAIN bindings : \E i \in 1..merged :
           b \in DOMAIN programs[i].bindings /\ bindings[b] = programs[i].bindings[b]
  BY CompositionIsUnion
<1>2. \A i \in 1..merged :
        /\ \A t \in DOMAIN programs[i].types : t \in DOMAIN types /\ types[t] = programs[i].types[t]
        /\ \A b \in DOMAIN programs[i].bindings :
             b \in DOMAIN bindings /\ bindings[b] = programs[i].bindings[b]
  BY CompositionIsUnion
<1>3. ASSUME AllProvided PROVE Resolved
  <2>1. ASSUME NEW t \in DOMAIN types PROVE UpcastResolves(t)
    <3>1. PICK i \in 1..merged : t \in DOMAIN programs[i].types /\ types[t] = programs[i].types[t]
      BY <1>1
    <3>2. Provided(programs[i])
      BY <1>1, <1>3 DEF AllProvided
    <3>3. ASSUME NEW u \in types[t].upcasts
          PROVE  u \in DOMAIN types /\ types[u].contract = types[t].contract
      <4>1. PICK q \in Packages : u \in DOMAIN q.types /\ q.types[u].contract = programs[i].types[t].contract
        BY <3>1, <3>2 DEF Provided
      <4>2. PICK j \in 1..merged : q = programs[j]
        BY <1>1
      <4> QED
        BY <1>2, <3>1, <4>1, <4>2
    <3> QED
      BY <3>3 DEF UpcastResolves
  <2>2. ASSUME NEW b \in DOMAIN bindings PROVE DestructorsResolve(b)
    <3>1. PICK i \in 1..merged : b \in DOMAIN programs[i].bindings /\ bindings[b] = programs[i].bindings[b]
      BY <1>1
    <3>2. Provided(programs[i])
      BY <1>1, <1>3 DEF AllProvided
    <3>3. ASSUME NEW d \in bindings[b].destroys PROVE d \in DOMAIN bindings
      <4>1. PICK q \in Packages : d \in DOMAIN q.bindings
        BY <3>1, <3>2 DEF Provided
      <4> QED
        BY <1>1, <1>2, <4>1
    <3> QED
      BY <3>3 DEF DestructorsResolve
  <2> QED
    BY <2>1, <2>2 DEF Resolved
<1>4. ASSUME Resolved PROVE AllProvided
  <2> SUFFICES ASSUME NEW i \in 1..merged PROVE Provided(programs[i])
    BY <1>1 DEF AllProvided
  <2>1. ASSUME NEW t \in DOMAIN programs[i].types, NEW u \in programs[i].types[t].upcasts
        PROVE  \E q \in Packages : u \in DOMAIN q.types /\ q.types[u].contract = programs[i].types[t].contract
    <3>1. t \in DOMAIN types /\ types[t] = programs[i].types[t]
      BY <1>2
    <3>2. u \in DOMAIN types /\ types[u].contract = types[t].contract
      BY <1>4, <3>1 DEF Resolved, UpcastResolves
    <3>3. PICK j \in 1..merged : u \in DOMAIN programs[j].types /\ types[u] = programs[j].types[u]
      BY <1>1, <3>2
    <3> QED
      BY <1>1, <3>1, <3>2, <3>3
  <2>2. ASSUME NEW b \in DOMAIN programs[i].bindings, NEW d \in programs[i].bindings[b].destroys
        PROVE  \E q \in Packages : d \in DOMAIN q.bindings
    <3>1. b \in DOMAIN bindings /\ bindings[b] = programs[i].bindings[b]
      BY <1>2
    <3>2. d \in DOMAIN bindings
      BY <1>4, <3>1 DEF Resolved, DestructorsResolve
    <3> QED
      BY <1>1, <3>2
  <2> QED
    BY <2>1, <2>2 DEF Provided
<1> QED
  BY <1>3, <1>4

LEMMA ResolveKeeps == IInv /\ Resolve => IInv'
<1> SUFFICES ASSUME IInv, Resolve PROVE IInv'
  OBVIOUS
<1>1. /\ phase = "order" /\ phase' = "reconcile" /\ ready = {}
      /\ UNCHANGED <<build, programs, merged, composed, kahn>>
      /\ traceable' = {t \in DOMAIN types : types[t].traceable}
  BY DEF Resolve, translation
<1>2. /\ refused \in BOOLEAN /\ merged = Len(programs) /\ Merged /\ ProgramsFit
      /\ refused <=> ~ AllCompatible(merged)
      /\ OrderedFits /\ ready = {l \in LinkInputs \ Placed : Before(l) \subseteq Placed}
  BY <1>1 DEF IInv, PhaseFits, MergedFits, KahnFits, Composing
<1>3. refused' <=> refused \/ ~ Resolved
  BY DEF Resolve, Resolved
<1>4. refused' \in BOOLEAN
  BY DEF Resolve
<1>5. phase \in Composing /\ phase' \in {"order", "reconcile"}
  BY <1>1 DEF Composing
<1>6. /\ BuildFits' /\ ProgramsFit' /\ PhaseFits' /\ TranslationFits' /\ DoneFits' /\ Merged'
      /\ AllCompatible(merged)' = AllCompatible(merged) /\ AllProvided' = AllProvided
      /\ LinkInputs' = LinkInputs /\ \A l : Before(l)' = Before(l)
  BY <1>1, <1>2, <1>4, <1>5, ComposingKeeps
<1>7. refused' <=> ~ (AllCompatible(merged) /\ AllProvided)
  BY <1>2, <1>3, ResolvedIsProvided
<1>8. types' = types /\ ordered' = ordered /\ ready' = ready /\ edges' = edges /\ names' = names
  BY <1>1 DEF composed, kahn
<1>9. MergedFits'
  BY <1>1, <1>6, <1>7, <1>8 DEF MergedFits
<1>10. OrderedFits' /\ Placed' = Placed
  BY <1>2, <1>6, <1>8 DEF OrderedFits, Placed
<1>11. KahnFits'
  BY <1>1, <1>2, <1>6, <1>8, <1>10 DEF KahnFits, Translating
<1> QED
  BY <1>6, <1>9, <1>11 DEF IInv

LEMMA ReconcileKeeps == IInv /\ Reconcile => IInv'
<1> SUFFICES ASSUME IInv, Reconcile PROVE IInv'
  OBVIOUS
<1>1. /\ phase = "reconcile" /\ phase' = "reconcile" /\ traceable \subseteq traceable'
      /\ UNCHANGED <<build, programs, merged, composed, kahn, refused>>
  BY DEF Reconcile, translation
<1>2. /\ refused \in BOOLEAN /\ merged = Len(programs) /\ Merged
      /\ refused <=> ~ (AllCompatible(merged) /\ AllProvided)
      /\ {t \in DOMAIN types : types[t].traceable} \subseteq traceable
      /\ OrderedFits /\ ready = {l \in LinkInputs \ Placed : Before(l) \subseteq Placed} /\ ready = {}
  BY <1>1 DEF IInv, PhaseFits, MergedFits, KahnFits, Composing
<1>3. refused' \in BOOLEAN /\ phase \in Composing /\ phase' \in {"order", "reconcile"}
  BY <1>1, <1>2 DEF Composing
<1>4. /\ BuildFits' /\ ProgramsFit' /\ PhaseFits' /\ TranslationFits' /\ DoneFits' /\ Merged'
      /\ AllCompatible(merged)' = AllCompatible(merged) /\ AllProvided' = AllProvided
      /\ LinkInputs' = LinkInputs /\ \A l : Before(l)' = Before(l)
  BY <1>1, <1>2, <1>3, ComposingKeeps
<1>5. types' = types /\ ordered' = ordered /\ ready' = ready
  BY <1>1 DEF composed, kahn
<1>6. MergedFits'
  BY <1>1, <1>2, <1>4, <1>5 DEF MergedFits
<1>7. OrderedFits' /\ Placed' = Placed
  BY <1>2, <1>4, <1>5 DEF OrderedFits, Placed
<1>8. KahnFits'
  BY <1>1, <1>2, <1>4, <1>5, <1>7 DEF KahnFits, Translating
<1> QED
  BY <1>4, <1>6, <1>8 DEF IInv
-----------------------------------------------------------------------------
(* The last step: both properties.                                         *)
LEMMA SameVerdict ==
  ASSUME UNCHANGED <<programs, ordered>>
  PROVE  Composable' = Composable /\ InLeastOrder' = InLeastOrder
<1>1. Packages' = Packages
  BY DEF Packages
<1>2. LinkConstraints' = LinkConstraints
  BY <1>1 DEF LinkConstraints
<1>3. Composable' = Composable
  BY <1>1, <1>2 DEF Composable, Compatible, Agree, Provided, Contradictory
<1>4. InLeastOrder' = InLeastOrder
  BY <1>2 DEF InLeastOrder, LeastOrder
<1> QED
  BY <1>3, <1>4

LEMMA FinishIgnoresOrder ==
  ASSUME IInv, Finish
  PROVE  CompositionIgnoresOrder'
<1>1. /\ phase = "reconcile" /\ phase' = "done"
      /\ refused' <=> refused \/ Len(ordered) # Cardinality(LinkInputs)
      /\ UNCHANGED <<build, programs, ordered>>
  BY DEF Finish, kahn
<1>2. /\ merged = Len(programs) /\ Merged /\ ProgramsFit /\ Len(programs) = Len(build)
      /\ refused <=> ~ (AllCompatible(merged) /\ AllProvided)
      /\ OrderedFits /\ ready = {l \in LinkInputs \ Placed : Before(l) \subseteq Placed} /\ ready = {}
  BY <1>1 DEF IInv, PhaseFits, MergedFits, KahnFits, Composing
<1>3. AllCompatible(merged) <=> \A p, q \in Packages : Compatible(p, q)
  <2>1. Packages = {programs[i] : i \in 1..merged}
    BY <1>2, CompositionIsUnion
  <2> QED
    BY <2>1 DEF AllCompatible
<1>4. /\ Len(ordered) = Cardinality(LinkInputs) <=> Placed = LinkInputs
      /\ Placed = LinkInputs <=> ~ Contradictory(LinkConstraints)
      /\ LinkConstraints.node = LinkInputs
  BY <1>2, AllPlaced, NodesAreLinks
<1>5. ~ refused' <=> Composable
  BY <1>1, <1>2, <1>3, <1>4 DEF AllProvided, Composable
<1>6. ~ refused' => InLeastOrder
  <2>1. LeastOrder(ordered)
    BY <1>2, OrderIsLeast
  <2> QED
    BY <1>1, <1>4, <2>1 DEF Placed, InLeastOrder
<1>7. Composable' = Composable /\ InLeastOrder' = InLeastOrder
  BY <1>1, SameVerdict
<1>8. Accepted' <=> ~ refused'
  BY <1>1 DEF Accepted
<1> QED
  BY <1>5, <1>6, <1>7, <1>8 DEF CompositionIgnoresOrder

LEMMA FinishTraces ==
  ASSUME IInv, Finish
  PROVE  CyclesAreTraced'
<1>1. /\ phase = "reconcile" /\ phase' = "done" /\ Uneven(ComposedUpcasts, traceable) = {}
      /\ types' = [t \in DOMAIN types |-> [types[t] EXCEPT !.traceable = t \in traceable]]
      /\ ~ refused' => ~ refused
      /\ UNCHANGED bindings
  BY DEF Finish
<1>2. /\ merged = Len(programs) /\ Merged /\ ProgramsFit
      /\ refused <=> ~ (AllCompatible(merged) /\ AllProvided)
      /\ {t \in DOMAIN types : types[t].traceable} \subseteq traceable
  BY <1>1 DEF IInv, PhaseFits, MergedFits, Composing
<1> SUFFICES ASSUME ~ refused'
             PROVE  /\ \A b \in DOMAIN bindings' : Registration(bindings'[b].contract) =>
                         \A t \in Owners(b)' : <<b[1], t>> \in DOMAIN types' /\ types'[<<b[1], t>>].traceable
                    /\ \A t \in DOMAIN types' : \A u \in types'[t].upcasts :
                         types'[t].traceable = types'[u].traceable
  BY DEF CyclesAreTraced, Accepted, Registration
<1>3. AllCompatible(merged) /\ Resolved
  BY <1>1, <1>2, ResolvedIsProvided
<1>4. DOMAIN programs = 1..merged
  BY <1>2, ProgramsIndexed
<1>5. ASSUME NEW t \in DOMAIN types
      PROVE  /\ t \in DOMAIN types' /\ types'[t].upcasts = types[t].upcasts
             /\ types'[t].traceable = (t \in traceable)
  <2>1. PICK i \in 1..merged : t \in DOMAIN programs[i].types /\ types[t] = programs[i].types[t]
    BY <1>2, CompositionIsUnion
  <2>2. TypeFits(types[t])
    BY <1>2, <1>4, <2>1 DEF ProgramsFit, PackageFits
  <2>3. types'[t] = [types[t] EXCEPT !.traceable = t \in traceable]
    BY <1>1
  <2> QED
    BY <1>1, <2>2, <2>3 DEF TypeFits
<1>6. ASSUME NEW b \in DOMAIN bindings, Registration(bindings[b].contract), NEW t \in Owners(b)
      PROVE  <<b[1], t>> \in DOMAIN types' /\ types'[<<b[1], t>>].traceable
  <2>1. PICK i \in 1..merged : b \in DOMAIN programs[i].bindings /\ bindings[b] = programs[i].bindings[b]
    BY <1>2, CompositionIsUnion
  <2>2. RegistrationTraced(programs[i], b)
    BY <1>2, <1>4, <1>6, <2>1 DEF ProgramsFit, PackageFits
  <2>3. <<b[1], t>> \in DOMAIN programs[i].types /\ programs[i].types[<<b[1], t>>].traceable
    BY <1>6, <2>1, <2>2 DEF RegistrationTraced, Owners
  <2>4. <<b[1], t>> \in DOMAIN types /\ types[<<b[1], t>>] = programs[i].types[<<b[1], t>>]
    BY <1>2, <1>3, <2>3, CompositionIsUnion
  <2>5. <<b[1], t>> \in traceable
    BY <1>2, <2>3, <2>4
  <2> QED
    BY <1>5, <2>4, <2>5
<1>7. ASSUME NEW t \in DOMAIN types, NEW u \in types[t].upcasts
      PROVE  types'[t].traceable = types'[u].traceable
  <2>1. u \in DOMAIN types
    BY <1>3 DEF Resolved, UpcastResolves
  <2>2. <<t, u>> \in ComposedUpcasts
    BY <2>1 DEF ComposedUpcasts
  <2>3. (t \in traceable) = (u \in traceable)
    BY <1>1, <2>2 DEF Uneven
  <2> QED
    BY <1>5, <2>1, <2>3
<1>8. /\ DOMAIN types' = DOMAIN types /\ bindings' = bindings /\ \A b : Owners(b)' = Owners(b)
  BY <1>1 DEF Owners
<1> QED
  BY <1>5, <1>6, <1>7, <1>8

LEMMA FinishKeeps == IInv /\ Finish => IInv'
<1> SUFFICES ASSUME IInv, Finish PROVE IInv'
  OBVIOUS
<1>1. /\ phase = "reconcile" /\ phase' = "done" /\ UNCHANGED <<build, programs, merged>>
      /\ refused' = (refused \/ Len(ordered) # Cardinality(LinkInputs))
  BY DEF Finish
<1>2. BuildFits' /\ ProgramsFit'
  BY <1>1, SamePrograms DEF IInv
<1>3. PhaseFits'
  <2>1. merged \in Nat /\ Len(programs) = Len(build)
    BY <1>1 DEF IInv, PhaseFits, Composing
  <2>2. refused' \in BOOLEAN
    BY <1>1
  <2> QED
    BY <1>1, <2>1, <2>2 DEF PhaseFits, Translating, Composing
<1>4. TranslationFits' /\ MergedFits' /\ KahnFits'
  BY <1>1 DEF TranslationFits, MergedFits, KahnFits, Translating, Composing
<1>5. DoneFits'
  BY FinishIgnoresOrder, FinishTraces DEF DoneFits
<1> QED
  BY <1>2, <1>3, <1>4, <1>5 DEF IInv

LEMMA StutterKeeps == IInv /\ UNCHANGED vars => IInv'
<1> SUFFICES ASSUME IInv, UNCHANGED vars PROVE IInv'
  OBVIOUS
<1>1. /\ UNCHANGED <<build, phase, translation, programs, merged, composed, kahn, traceable, refused>>
      /\ UNCHANGED <<types, bindings, names, adapters, edges>> /\ UNCHANGED <<indegree, ready, ordered>>
      /\ UNCHANGED <<reached, expanded, marked>>
  BY DEF vars, translation, composed, kahn
<1>2. BuildFits' /\ ProgramsFit' /\ PhaseFits'
  BY <1>1 DEF IInv, BuildFits, ProgramsFit, PhaseFits
<1>3. TranslationFits'
  BY <1>1 DEF IInv, TranslationFits, M, Current
<1>4. Merged' <=> Merged
  BY <1>1, SameComposition
<1>5. MergedFits'
  BY <1>1, <1>4 DEF IInv, MergedFits, AllCompatible, AllProvided, Packages, Provided
<1>6. KahnFits'
  BY <1>1 DEF IInv, KahnFits, OrderedFits, Placed, LinkInputs, Before
<1>7. CompositionIgnoresOrder'
  <2>1. Composable' = Composable /\ InLeastOrder' = InLeastOrder
    BY <1>1, SameVerdict
  <2> QED
    BY <1>1, <2>1 DEF IInv, DoneFits, CompositionIgnoresOrder, Translated, Accepted
<1>8. CyclesAreTraced'
  BY <1>1 DEF IInv, DoneFits, CyclesAreTraced, Accepted, Owners
<1> QED
  BY <1>2, <1>3, <1>5, <1>6, <1>7, <1>8 DEF IInv, DoneFits

LEMMA NextKeeps == IInv /\ [Next]_vars => IInv'
<1> SUFFICES ASSUME IInv, [Next]_vars PROVE IInv'
  OBVIOUS
<1>1. CASE Validate
  BY <1>1, ValidateKeeps
<1>2. CASE ReachTypes \/ Reach
  BY <1>2, ReachKeeps
<1>3. CASE MarkCycles
  BY <1>3, MarkCyclesKeeps
<1>4. CASE SpreadMark
  BY <1>4, SpreadMarkKeeps
<1>5. CASE Emit
  BY <1>5, EmitKeeps
<1>6. CASE Merge
  BY <1>6, MergeKeeps
<1>7. CASE CountEdges
  BY <1>7, CountEdgesInv
<1>8. CASE OrderLink
  BY <1>8, OrderLinkInv
<1>9. CASE Resolve
  BY <1>9, ResolveKeeps
<1>10. CASE Reconcile
  BY <1>10, ReconcileKeeps
<1>11. CASE Finish
  BY <1>11, FinishKeeps
<1>12. CASE UNCHANGED vars
  BY <1>12, StutterKeeps
<1> QED
  BY <1>1, <1>2, <1>3, <1>4, <1>5, <1>6, <1>7, <1>8, <1>9, <1>10, <1>11, <1>12 DEF Next

(* The inductive invariant: what a translation hands over fits, what was   *)
(* merged is the union of the programs merged, and what was ordered is the *)
(* least order so far.                                                     *)
THEOREM ProgramsInductive == Spec => []IInv
<1>1. Init => IInv
  BY InitFits
<1>2. IInv /\ [Next]_vars => IInv'
  BY NextKeeps
<1> QED
  BY <1>1, <1>2, PTL DEF Spec

(* composeScriptCNativePrograms gives the same verdict in every order of   *)
(* the packages, refuses exactly what disagrees, lacks an owner or orders  *)
(* its link inputs in a circle, and puts them in the least order allowed:  *)
(* for every set of manifests, selections and orders.                      *)
THEOREM OrderIgnored == Spec => []CompositionIgnoresOrder
<1>1. IInv => CompositionIgnoresOrder
  BY DEF IInv, DoneFits
<1> QED
  BY <1>1, ProgramsInductive, PTL

(* traceableHandleTypeIds and the reconciliation after it mark every       *)
(* handle of a retained callback's cycle, and with it every handle of any  *)
(* package that upcasts relate to it.                                      *)
THEOREM CyclesTraced == Spec => []CyclesAreTraced
<1>1. IInv => CyclesAreTraced
  BY DEF IInv, DoneFits
<1> QED
  BY <1>1, ProgramsInductive, PTL
-----------------------------------------------------------------------------
(* The physical slots of one supported signature.  A parameter that fills  *)
(* a slot for another one is plain and has a type of its own.              *)
LEMMA SpanSiblings ==
  ASSUME NEW s, NEW owner, NEW cancels, Physical!SignatureSupported(s, owner, cancels),
         NEW i \in Physical!Spans(s), NEW x \in {s.parameters[i].length, s.parameters[i].identity} \ {0}
  PROVE  /\ x \in DOMAIN s.parameters /\ s.parameters[x].type = "extent"
         /\ s.parameters[x].marshal = "none" /\ s.parameters[x].callback = {}
<1>1. i \in Physical!Data(s) /\ s.parameters[i].marshal \in {"utf8", "bytes"}
  BY DEF Physical!Spans
<1>2. Physical!DataFits(s, i)
  BY <1>1 DEF Physical!SignatureSupported
<1>3. Physical!SpanFits(s, i)
  BY <1>1, <1>2 DEF Physical!DataFits
<1>4. Physical!Extent(s, x)
  BY <1>3 DEF Physical!SpanFits
<1> QED
  BY <1>4 DEF Physical!Extent, Physical!Value, Physical!Unmarshalled, Physical!Indices

LEMMA SpanIsData ==
  ASSUME NEW s, NEW owner, NEW cancels, Physical!SignatureSupported(s, owner, cancels),
         DOMAIN s.parameters \subseteq Nat \ {0}, NEW i \in Physical!Data(s)
  PROVE  /\ i \in DOMAIN s.parameters /\ s.parameters[i].callback = {}
         /\ i \in Physical!Spans(s) => s.parameters[i].length # 0 /\ Physical!SpanFits(s, i)
<1>1. i \in DOMAIN s.parameters /\ s.parameters[i].marshal # "none" /\ Physical!DataFits(s, i)
  BY DEF Physical!SignatureSupported, Physical!Data, Physical!Indices
<1>2. CASE s.parameters[i].marshal = "strings"
  BY <1>1, <1>2 DEF Physical!DataFits, Physical!StringsFit, Physical!Spans
<1>3. CASE s.parameters[i].marshal = "c-string"
  BY <1>1, <1>3 DEF Physical!DataFits, Physical!BorrowedBytes, Physical!Spans
<1>4. CASE s.parameters[i].marshal \notin {"strings", "c-string"}
  <2>1. Physical!SpanFits(s, i)
    BY <1>1, <1>4 DEF Physical!DataFits
  <2>2. s.parameters[i].callback = {} /\ s.parameters[i].length \in DOMAIN s.parameters
    BY <2>1 DEF Physical!SpanFits, Physical!BorrowedBytes, Physical!Extent, Physical!Indices
  <2> QED
    BY <1>1, <2>1, <2>2
<1> QED
  BY <1>2, <1>3, <1>4

LEMMA CallbackSiblings ==
  ASSUME NEW s, NEW owner, NEW cancels, Physical!SignatureSupported(s, owner, cancels),
         NEW i \in Physical!Callbacks(s)
  PROVE  LET x == Physical!Context(s, i) IN
         /\ i \in DOMAIN s.parameters /\ s.parameters[i].marshal = "none"
         /\ x \in DOMAIN s.parameters \ {i} /\ s.parameters[x].type = "context"
         /\ s.parameters[x].marshal = "none" /\ s.parameters[x].callback = {}
         /\ \A r \in Physical!Releases(s, i, owner) :
              /\ r \in DOMAIN s.parameters \ {i} /\ s.parameters[r].type = "hook"
              /\ s.parameters[r].marshal = "none" /\ s.parameters[r].callback = {}
<1>1. i \in DOMAIN s.parameters /\ Physical!CallbackFits(s, i, owner, cancels)
  BY DEF Physical!SignatureSupported, Physical!Callbacks, Physical!Indices
<1>2. CASE owner = NativeCall
  BY <1>1, <1>2 DEF Physical!CallbackFits, Physical!CallScopedFits, Physical!FunctionFits,
     Physical!ContextFits, Physical!Unmarshalled, Physical!Indices, Physical!Context, Physical!Releases
<1>3. CASE owner # NativeCall
  <2>1. Physical!RetainedFits(s, i, owner, cancels)
    BY <1>1, <1>3 DEF Physical!CallbackFits
  <2>2. /\ Physical!FunctionFits(s.parameters[i], "registration")
        /\ Physical!ContextFits(s, i, "registration")
        /\ Physical!Contract(s, i).release # 0 => Physical!ReleaseFits(s, i, owner)
    BY <2>1 DEF Physical!RetainedFits
  <2> QED
    BY <1>1, <1>3, <2>2 DEF Physical!FunctionFits, Physical!ContextFits, Physical!ReleaseFits,
       Physical!Unmarshalled, Physical!Indices, Physical!Context, Physical!Releases
<1> QED
  BY <1>2, <1>3

(* What has a sibling is a source argument itself.                         *)
LEMMA FilledIsPlain ==
  ASSUME NEW s, NEW owner, NEW cancels, Physical!SignatureSupported(s, owner, cancels),
         NEW j, NEW x \in Physical!Siblings(s, j, owner)
  PROVE  x \in DOMAIN s.parameters /\ x \notin Physical!Data(s) \cup Physical!Callbacks(s)
<1>1. CASE j \in Physical!Spans(s) /\ x \in {s.parameters[j].length, s.parameters[j].identity} \ {0}
  BY <1>1, SpanSiblings DEF Physical!Data, Physical!Callbacks
<1>2. CASE j \in Physical!Callbacks(s) /\ x \in {Physical!Context(s, j)} \cup Physical!Releases(s, j, owner)
  BY <1>2, CallbackSiblings DEF Physical!Data, Physical!Callbacks
<1> QED
  BY <1>1, <1>2 DEF Physical!Siblings

LEMMA FillerIsArgument ==
  ASSUME NEW s, NEW owner, NEW cancels, Physical!SignatureSupported(s, owner, cancels),
         NEW i \in Physical!Data(s) \cup Physical!Callbacks(s)
  PROVE  i \in Physical!Arguments(s, owner)
<1>1. i \in Physical!Indices(s)
  BY DEF Physical!Data, Physical!Callbacks
<1> QED
  BY <1>1, FilledIsPlain DEF Physical!Arguments

(* A slot whose only other filler comes before i is i's.                   *)
LEMMA FilledBy ==
  ASSUME NEW s, NEW owner, NEW slot, NEW i \in Nat, i \in Physical!Filling(s, slot, owner),
         \A j \in Physical!Filling(s, slot, owner) : j \in Nat /\ j <= i
  PROVE  Physical!ParameterSlot(s, slot, owner) = [role |-> Physical!Role(s, slot, owner), argument |-> i]
<1> DEFINE filling == Physical!Filling(s, slot, owner)
           last == CHOOSE k \in filling : \A j \in filling : j <= k
<1>1. i \in filling /\ \A j \in filling : j \in Nat /\ j <= i
  OBVIOUS
<1> HIDE DEF filling
<1>2. \A k \in filling : (\A j \in filling : j <= k) <=> k = i
  BY <1>1
<1>3. last = i
  BY <1>1, <1>2
<1> HIDE DEF last, filling
<1> QED
  BY <1>3 DEF Physical!ParameterSlot, last, filling

(* The place of a source argument that has siblings.                       *)
LEMMA OwnSlotFilled ==
  ASSUME NEW s, NEW owner, NEW cancels, Physical!SignatureSupported(s, owner, cancels),
         DOMAIN s.parameters \subseteq Nat \ {0},
         NEW i \in Physical!Data(s) \cup Physical!Callbacks(s)
  PROVE  Physical!ParameterSlot(s, i, owner) = [role |-> Physical!Role(s, i, owner), argument |-> i]
<1>1. i \in Physical!Arguments(s, owner) /\ i \in Nat
  BY FillerIsArgument DEF Physical!Arguments, Physical!Indices
<1>2. i \in Physical!Filling(s, i, owner)
  BY <1>1 DEF Physical!Filling
<1>3. \A j \in Physical!Filling(s, i, owner) : j = i
  BY FilledIsPlain DEF Physical!Filling
<1> QED
  BY <1>1, <1>2, <1>3, FilledBy

(* A span's length goes to the parameter it names, although an earlier     *)
(* span may name that one as its static identity.                          *)
LEMMA LengthFilled ==
  ASSUME NEW s, NEW owner, NEW cancels, Physical!SignatureSupported(s, owner, cancels),
         DOMAIN s.parameters \subseteq Nat \ {0}, NEW i \in Physical!Spans(s)
  PROVE  LET slot == s.parameters[i].length IN
         /\ slot \in DOMAIN s.parameters
         /\ Physical!ParameterSlot(s, slot, owner) = [role |-> "length", argument |-> i]
<1> DEFINE slot == s.parameters[i].length
<1>1. /\ i \in Physical!Data(s) /\ i \in Physical!Arguments(s, owner) /\ i \in Nat
      /\ slot \in Physical!Siblings(s, i, owner)
  <2>1. i \in Physical!Data(s)
    BY DEF Physical!Spans
  <2>2. slot # 0
    BY <2>1, SpanIsData
  <2>3. i \in Physical!Arguments(s, owner) /\ i \in Nat
    BY <2>1, FillerIsArgument DEF Physical!Arguments, Physical!Indices
  <2> QED
    BY <2>1, <2>2, <2>3 DEF Physical!Siblings
<1>2. slot \in DOMAIN s.parameters /\ slot \notin Physical!Data(s) \cup Physical!Callbacks(s)
  BY <1>1, FilledIsPlain
<1>3. slot \in Physical!Lengths(s, Physical!Spans(s)) /\ slot \in Physical!Claimed(s)
  BY DEF Physical!Lengths, Physical!Claimed
<1>4. \A j \in Physical!Callbacks(s) :
        slot # Physical!Context(s, j) /\ slot \notin Physical!Releases(s, j, owner)
  BY <1>3 DEF Physical!SignatureSupported, Physical!CallbackCollide
<1>5. Physical!Role(s, slot, owner) = "length"
  BY <1>2, <1>3, <1>4 DEF Physical!Role
<1>6. ASSUME NEW j \in Physical!Spans(s), slot \in {s.parameters[j].length, s.parameters[j].identity}
      PROVE  j <= i
  <2> SUFFICES ASSUME ~ (j <= i) PROVE FALSE
    OBVIOUS
  <2>1. j \in Nat
    BY DEF Physical!Spans, Physical!Data, Physical!Indices
  <2>2. i \in Physical!Earlier(Physical!Spans(s), j)
    BY <1>1, <2>1 DEF Physical!Earlier
  <2>3. slot \in Physical!Lengths(s, Physical!Earlier(Physical!Spans(s), j))
    BY <2>2 DEF Physical!Lengths
  <2>4. Physical!DataCollide(s)
    BY <1>6, <2>3 DEF Physical!DataCollide
  <2> QED
    BY <2>4 DEF Physical!SignatureSupported
<1>7. slot \notin Physical!Arguments(s, owner)
  <2>1. i \in Physical!Indices(s)
    BY <1>1 DEF Physical!Arguments
  <2> QED
    BY <1>1, <2>1 DEF Physical!Arguments
<1>8. \A j \in Physical!Filling(s, slot, owner) : j \in Nat /\ j <= i
  <2> SUFFICES ASSUME NEW j \in Physical!Filling(s, slot, owner) PROVE j \in Nat /\ j <= i
    OBVIOUS
  <2>1. j \in Physical!Arguments(s, owner) /\ slot \in {j} \cup Physical!Siblings(s, j, owner)
    BY DEF Physical!Filling
  <2>2. j # slot /\ j \in Nat
    BY <1>7, <2>1 DEF Physical!Arguments, Physical!Indices
  <2>3. j \in Physical!Spans(s) /\ slot \in {s.parameters[j].length, s.parameters[j].identity}
    BY <1>4, <2>1, <2>2 DEF Physical!Siblings
  <2> QED
    BY <1>6, <2>2, <2>3
<1>9. i \in Physical!Filling(s, slot, owner)
  BY <1>1 DEF Physical!Filling
<1>10. Physical!ParameterSlot(s, slot, owner) = [role |-> Physical!Role(s, slot, owner), argument |-> i]
  BY <1>1, <1>8, <1>9, FilledBy
<1> QED
  BY <1>2, <1>5, <1>10

(* The context and the release of a callback are its own.                  *)
LEMMA CallbackFilled ==
  ASSUME NEW s, NEW owner, NEW cancels, Physical!SignatureSupported(s, owner, cancels),
         DOMAIN s.parameters \subseteq Nat \ {0}, NEW i \in Physical!Callbacks(s),
         NEW slot \in {Physical!Context(s, i)} \cup Physical!Releases(s, i, owner)
  PROVE  /\ slot \in DOMAIN s.parameters
         /\ Physical!ParameterSlot(s, slot, owner) =
              [role |-> IF slot = Physical!Context(s, i) THEN "context" ELSE "context-release", argument |-> i]
<1>1. /\ i \in Physical!Arguments(s, owner) /\ i \in Nat /\ slot \in Physical!Siblings(s, i, owner)
  BY FillerIsArgument DEF Physical!Siblings, Physical!Arguments, Physical!Indices
<1>2. slot \in DOMAIN s.parameters /\ slot \notin Physical!Data(s) \cup Physical!Callbacks(s)
  BY <1>1, FilledIsPlain
<1>3. ASSUME NEW j \in Physical!Callbacks(s),
             slot \in {Physical!Context(s, j)} \cup Physical!Releases(s, j, owner)
      PROVE  j = i /\ (slot = Physical!Context(s, j) <=> slot = Physical!Context(s, i))
  <2>1. i \in Nat /\ j \in Nat
    BY <1>1, CallbackSiblings
  <2>2. slot = Physical!Context(s, i) <=> slot = Physical!Context(s, j)
    BY <1>3, CallbackSiblings
  <2>3. \A x, y \in Physical!Callbacks(s) : x < y =>
          /\ Physical!Context(s, x) # Physical!Context(s, y)
          /\ Physical!Releases(s, x, owner) \cap Physical!Releases(s, y, owner) = {}
    <3> SUFFICES ASSUME NEW x \in Physical!Callbacks(s), NEW y \in Physical!Callbacks(s), x < y
                 PROVE  /\ Physical!Context(s, x) # Physical!Context(s, y)
                        /\ Physical!Releases(s, x, owner) \cap Physical!Releases(s, y, owner) = {}
      OBVIOUS
    <3>1. x \in Physical!Earlier(Physical!Callbacks(s), y)
      BY DEF Physical!Earlier
    <3>2. ~ Physical!CallbackCollide(s, owner)
      BY DEF Physical!SignatureSupported
    <3> QED
      BY <3>1, <3>2 DEF Physical!CallbackCollide
  <2>4. ~ (i < j) /\ ~ (j < i)
    BY <1>3, <2>2, <2>3
  <2> QED
    BY <2>1, <2>2, <2>4
<1>4. Physical!Role(s, slot, owner) = IF slot = Physical!Context(s, i) THEN "context" ELSE "context-release"
  <2>1. \A j \in Physical!Callbacks(s) : slot \in Physical!Releases(s, j, owner) => slot # Physical!Context(s, j)
    BY CallbackSiblings
  <2>2. slot \notin Physical!Lengths(s, Physical!Spans(s)) \cup Physical!Identities(s, Physical!Spans(s))
    BY DEF Physical!SignatureSupported, Physical!CallbackCollide, Physical!Claimed
  <2>3. CASE slot = Physical!Context(s, i)
    <3>1. \A j \in Physical!Callbacks(s) : slot \notin Physical!Releases(s, j, owner)
      BY <1>3, <2>1, <2>3
    <3> QED
      BY <1>2, <2>2, <2>3, <3>1 DEF Physical!Role
  <2>4. CASE slot # Physical!Context(s, i)
    <3>1. /\ slot \in Physical!Releases(s, i, owner)
          /\ \A j \in Physical!Callbacks(s) : slot # Physical!Context(s, j)
      BY <1>3, <2>4
    <3> QED
      BY <1>2, <2>2, <2>4, <3>1 DEF Physical!Role
  <2> QED
    BY <2>3, <2>4
<1>5. slot \notin Physical!Arguments(s, owner)
  BY <1>1 DEF Physical!Arguments
<1>6. \A j \in Physical!Filling(s, slot, owner) : j = i
  <2> SUFFICES ASSUME NEW j \in Physical!Filling(s, slot, owner) PROVE j = i
    OBVIOUS
  <2>1. j \in Physical!Arguments(s, owner) /\ slot \in Physical!Siblings(s, j, owner)
    BY <1>5 DEF Physical!Filling
  <2>2. \A k \in Physical!Spans(s) : slot \notin {s.parameters[k].length, s.parameters[k].identity} \ {0}
    BY DEF Physical!SignatureSupported, Physical!CallbackCollide, Physical!Claimed,
       Physical!Lengths, Physical!Identities
  <2> QED
    BY <1>3, <2>1, <2>2 DEF Physical!Siblings
<1>7. i \in Physical!Filling(s, slot, owner)
  BY <1>1 DEF Physical!Filling
<1>8. Physical!ParameterSlot(s, slot, owner) = [role |-> Physical!Role(s, slot, owner), argument |-> i]
  BY <1>1, <1>6, <1>7, FilledBy
<1> QED
  BY <1>2, <1>4, <1>8

(* Every part of a source argument is in its slot.                         *)
LEMMA PartsFilled ==
  ASSUME NEW s, NEW owner, NEW cancels, Physical!SignatureSupported(s, owner, cancels),
         DOMAIN s.parameters \subseteq Nat \ {0},
         NEW i \in DOMAIN s.parameters, \A c, d \in s.parameters[i].callback : c = d,
         NEW part \in Parts(s.parameters, i, owner)
  PROVE  /\ part[2] \in DOMAIN s.parameters
         /\ Physical!ParameterSlot(s, part[2], owner) = [role |-> part[1], argument |-> i]
<1>1. CASE s.parameters[i].marshal \in {"utf8", "bytes"} /\ part = <<"length", s.parameters[i].length>>
  <2>1. i \in Physical!Spans(s)
    BY <1>1 DEF Physical!Spans, Physical!Data, Physical!Indices
  <2> QED
    BY <1>1, <2>1, LengthFilled
<1>2. CASE s.parameters[i].marshal \in {"utf8", "bytes"} /\ part = <<s.parameters[i].marshal, i>>
  <2>1. i \in Physical!Data(s)
    BY <1>2 DEF Physical!Data, Physical!Indices
  <2>2. Physical!ParameterSlot(s, i, owner) = [role |-> Physical!Role(s, i, owner), argument |-> i]
    BY <2>1, OwnSlotFilled
  <2>3. i \notin Physical!Callbacks(s)
    BY <2>1, SpanIsData DEF Physical!Callbacks
  <2>4. \A j \in Physical!Callbacks(s) :
          i # Physical!Context(s, j) /\ i \notin Physical!Releases(s, j, owner)
    BY <1>2, CallbackSiblings
  <2>5. Physical!Role(s, i, owner) = s.parameters[i].marshal
    <3>1. i \notin Physical!Lengths(s, Physical!Spans(s)) \cup Physical!Identities(s, Physical!Spans(s))
      BY <1>2, SpanSiblings DEF Physical!Lengths, Physical!Identities
    <3> QED
      BY <2>1, <2>3, <2>4, <3>1 DEF Physical!Role
  <2> QED
    BY <1>2, <2>2, <2>5
<1>3. CASE \E c \in s.parameters[i].callback :
             \/ part = <<"function", i>> \/ part = <<"context", c.context>>
             \/ c.release # 0 /\ owner # NativeCall /\ part = <<"context-release", c.release>>
  <2>1. PICK c \in s.parameters[i].callback :
          \/ part = <<"function", i>> \/ part = <<"context", c.context>>
          \/ c.release # 0 /\ owner # NativeCall /\ part = <<"context-release", c.release>>
    BY <1>3
  <2>2. i \in Physical!Callbacks(s) /\ c = Physical!Contract(s, i)
    BY DEF Physical!Callbacks, Physical!Indices, Physical!Contract
  <2>3. CASE part = <<"function", i>>
    <3>1. Physical!ParameterSlot(s, i, owner) = [role |-> Physical!Role(s, i, owner), argument |-> i]
      BY <2>2, OwnSlotFilled
    <3>2. i \notin Physical!Data(s)
      BY <2>2, CallbackSiblings DEF Physical!Data
    <3>3. \A j \in Physical!Callbacks(s) :
            i # Physical!Context(s, j) /\ i \notin Physical!Releases(s, j, owner)
      BY <2>2, CallbackSiblings DEF Physical!Callbacks
    <3>4. i \notin Physical!Lengths(s, Physical!Spans(s)) \cup Physical!Identities(s, Physical!Spans(s))
      BY <2>2, SpanSiblings DEF Physical!Lengths, Physical!Identities, Physical!Callbacks
    <3>5. Physical!Role(s, i, owner) = "function"
      BY <2>2, <3>2, <3>3, <3>4 DEF Physical!Role
    <3> QED
      BY <2>3, <3>1, <3>5
  <2>4. CASE part = <<"context", c.context>>
    <3>1. part[2] = Physical!Context(s, i)
      BY <2>2, <2>4 DEF Physical!Context
    <3> QED
      BY <2>2, <2>4, <3>1, CallbackFilled
  <2>5. CASE c.release # 0 /\ owner # NativeCall /\ part = <<"context-release", c.release>>
    <3>1. part[2] \in Physical!Releases(s, i, owner)
      BY <2>2, <2>5 DEF Physical!Releases
    <3>2. part[2] # Physical!Context(s, i)
      BY <2>2, <3>1, CallbackSiblings
    <3> QED
      BY <2>2, <2>5, <3>1, <3>2, CallbackFilled
  <2> QED
    BY <2>1, <2>3, <2>4, <2>5
<1> QED
  BY <1>1, <1>2, <1>3 DEF Parts

(* What stands after the first n of a sequence.                            *)
LEMMA TrailTwo ==
  ASSUME NEW slots, NEW n \in Nat, NEW a, NEW b, Len(slots) = n + 2,
         slots[n + 1].role = a, slots[n + 2].role = b
  PROVE  [k \in 1..(Len(slots) - n) |-> slots[n + k].role] = <<a>> \o <<b>>
<1> DEFINE trail == [k \in 1..(Len(slots) - n) |-> slots[n + k].role]
<1>1. Len(slots) - n = 2
  OBVIOUS
<1>2. 1..2 = {1, 2}
  OBVIOUS
<1>3. trail = [k \in {1, 2} |-> slots[n + k].role]
  BY <1>1, <1>2
<1>4. trail = [k \in {1, 2} |-> IF k = 1 THEN a ELSE b]
  BY <1>3
<1>5. <<a>> \o <<b>> = <<a, b>>
  <2> DEFINE both == <<a>> \o <<b>>
  <2>1. <<a>> \in Seq({a, b}) /\ <<b>> \in Seq({a, b})
    OBVIOUS
  <2>2. both \in Seq({a, b}) /\ Len(both) = 2 /\ both[1] = a /\ both[2] = b
    BY <2>1
  <2>3. <<a, b>> \in Seq({a, b}) /\ Len(<<a, b>>) = 2
    OBVIOUS
  <2> HIDE DEF both
  <2>4. \A k \in 1..2 : both[k] = <<a, b>>[k]
    BY <2>2
  <2>5. both = <<a, b>>
    BY <2>2, <2>3, <2>4, SeqEqual
  <2> QED
    BY <2>5 DEF both
<1>6. <<a, b>> = [k \in {1, 2} |-> IF k = 1 THEN a ELSE b]
  BY <1>2
<1> QED
  BY <1>4, <1>5, <1>6

LEMMA TrailOne ==
  ASSUME NEW slots, NEW n \in Nat, NEW a, Len(slots) = n + 1, slots[n + 1].role = a
  PROVE  [k \in 1..(Len(slots) - n) |-> slots[n + k].role] = <<a>>
<1> DEFINE trail == [k \in 1..(Len(slots) - n) |-> slots[n + k].role]
<1>1. Len(slots) - n = 1
  OBVIOUS
<1>2. 1..1 = {1}
  OBVIOUS
<1>3. trail = [k \in {1} |-> slots[n + k].role]
  BY <1>1, <1>2
<1>4. trail = [k \in {1} |-> a]
  BY <1>3
<1>5. <<a>> = [k \in {1} |-> a]
  BY <1>2
<1> QED
  BY <1>4, <1>5

(* The compiler's own slots come after those of the parameters.            *)
LEMMA SlotsTrail ==
  ASSUME NEW s, NEW owner, s.parameters \in Seq(Range(s.parameters))
  PROVE  LET slots == Physical!Slots(s, owner)  n == Len(s.parameters) IN
         /\ \A k \in DOMAIN s.parameters : slots[k] = Physical!ParameterSlot(s, k, owner)
         /\ [k \in 1..(Len(slots) - n) |-> slots[n + k].role] =
              (IF s.result.marshal \in {"utf8", "bytes"} THEN <<"length-out">> ELSE <<>>)
              \o (IF s.error = "error-out" THEN <<"error-out">> ELSE <<>>)
         /\ s.error = "error-out" => slots[Physical!FailureSlot(s, owner)].role = "error-out"
<1> DEFINE n == Len(s.parameters)
           own == [k \in 1..n |-> Physical!ParameterSlot(s, k, owner)]
           roles == {Physical!ParameterSlot(s, k, owner) : k \in 1..n}
           length == [role |-> "length-out", argument |-> 0]
           error == [role |-> "error-out", argument |-> 0]
<1>1. n \in Nat /\ DOMAIN s.parameters = 1..n
  OBVIOUS
<1>2. own \in Seq(roles) /\ Len(own) = n /\ \A k \in 1..n : own[k] = Physical!ParameterSlot(s, k, owner)
  BY <1>1
<1>3. Physical!Slots(s, owner) = (own \o Physical!LengthOut(s)) \o Physical!ErrorOut(s)
  BY <1>1 DEF Physical!Slots, Physical!Indices
<1>8. \A a : <<>> \o <<a>> = <<a>> /\ <<a>> \o <<>> = <<a>>
  OBVIOUS
<1> DEFINE slots == Physical!Slots(s, owner)
<1> HIDE DEF n, own, roles, slots
<1>4. CASE s.result.marshal \in {"utf8", "bytes"} /\ s.error = "error-out"
  <2>1. Physical!Slots(s, owner) = (own \o <<length>>) \o <<error>>
    BY <1>3, <1>4 DEF Physical!LengthOut, Physical!ErrorOut, Physical!OwnSlot
  <2>2. /\ Len((own \o <<length>>) \o <<error>>) = n + 2
        /\ \A k \in 1..n : ((own \o <<length>>) \o <<error>>)[k] = own[k]
        /\ ((own \o <<length>>) \o <<error>>)[n + 1] = length
        /\ ((own \o <<length>>) \o <<error>>)[n + 2] = error
    BY <1>1, <1>2
  <2> QED
    <3>1. /\ Len(slots) = n + 2 /\ slots[n + 1] = length /\ slots[n + 2] = error
          /\ \A k \in 1..n : slots[k] = own[k]
      BY <2>1, <2>2, Zenon DEF slots
    <3>2. [k \in 1..(Len(slots) - n) |-> slots[n + k].role] = <<"length-out">> \o <<"error-out">>
      BY <1>1, <3>1, TrailTwo
    <3> QED
      BY <1>1, <1>2, <1>4, <3>1, <3>2 DEF n, slots, Physical!FailureSlot
<1>5. CASE s.result.marshal \in {"utf8", "bytes"} /\ s.error # "error-out"
  <2>1. Physical!Slots(s, owner) = (own \o <<length>>) \o <<>>
    BY <1>3, <1>5 DEF Physical!LengthOut, Physical!ErrorOut, Physical!OwnSlot
  <2>2. /\ Len((own \o <<length>>) \o <<>>) = n + 1
        /\ \A k \in 1..n : ((own \o <<length>>) \o <<>>)[k] = own[k]
        /\ ((own \o <<length>>) \o <<>>)[n + 1] = length
    BY <1>1, <1>2
  <2> QED
    <3>1. /\ Len(slots) = n + 1 /\ slots[n + 1] = length
          /\ \A k \in 1..n : slots[k] = own[k]
      BY <2>1, <2>2, Zenon DEF slots
    <3>2. [k \in 1..(Len(slots) - n) |-> slots[n + k].role] = <<"length-out">>
      BY <1>1, <3>1, TrailOne
    <3> QED
      BY <1>1, <1>2, <1>5, <1>8, <3>1, <3>2 DEF n, slots
<1>6. CASE s.result.marshal \notin {"utf8", "bytes"} /\ s.error = "error-out"
  <2>1. Physical!Slots(s, owner) = (own \o <<>>) \o <<error>>
    BY <1>3, <1>6 DEF Physical!LengthOut, Physical!ErrorOut, Physical!OwnSlot
  <2>2. /\ Len((own \o <<>>) \o <<error>>) = n + 1
        /\ \A k \in 1..n : ((own \o <<>>) \o <<error>>)[k] = own[k]
        /\ ((own \o <<>>) \o <<error>>)[n + 1] = error
    BY <1>1, <1>2
  <2> QED
    <3>1. /\ Len(slots) = n + 1 /\ slots[n + 1] = error
          /\ \A k \in 1..n : slots[k] = own[k]
      BY <2>1, <2>2, Zenon DEF slots
    <3>2. [k \in 1..(Len(slots) - n) |-> slots[n + k].role] = <<"error-out">>
      BY <1>1, <3>1, TrailOne
    <3> QED
      BY <1>1, <1>2, <1>6, <1>8, <3>1, <3>2 DEF n, slots, Physical!FailureSlot
<1>7. CASE s.result.marshal \notin {"utf8", "bytes"} /\ s.error # "error-out"
  <2>1. Physical!Slots(s, owner) = (own \o <<>>) \o <<>>
    BY <1>3, <1>7 DEF Physical!LengthOut, Physical!ErrorOut
  <2>2. Len((own \o <<>>) \o <<>>) = n /\ \A k \in 1..n : ((own \o <<>>) \o <<>>)[k] = own[k]
    BY <1>1, <1>2
  <2> QED
    BY <1>1, <1>2, <1>7, <2>1, <2>2 DEF n
<1> QED
  BY <1>4, <1>5, <1>6, <1>7

(* What a handler sees of a payload is what its contract's transport       *)
(* allows.                                                                 *)
LEMMA ViewsFit ==
  ASSUME NEW s, NEW owner, NEW cancels, Physical!SignatureSupported(s, owner, cancels),
         NEW i \in Physical!Callbacks(s)
  PROVE  LET c == Physical!Contract(s, i)
             delivery == Physical!LoweredCallback(c, owner)
             queued == c.transport = "copy"
         IN /\ "handle or null" \in Range(delivery.views) => ~ queued
            /\ "string" \in Range(delivery.views) => queued
            /\ delivery.answer.view # "void" => ~ queued
<1> DEFINE c == Physical!Contract(s, i)
           views == Physical!DeliveryViews(c)
<1>1. Physical!CallbackFits(s, i, owner, cancels)
  BY DEF Physical!SignatureSupported
<1>2. Physical!SourcesFit(c, owner) /\ (Physical!QueuedFits(c) \/ c.transport = "borrow")
  <2>1. CASE owner = NativeCall
    BY <1>1, <2>1 DEF Physical!CallbackFits, Physical!CallScopedFits
  <2>2. CASE owner # NativeCall
    BY <1>1, <2>2 DEF Physical!CallbackFits, Physical!RetainedFits, Physical!SynchronousFits
  <2> QED
    BY <2>1, <2>2
<1>3. ASSUME NEW k \in DOMAIN c.payload, c.transport = "borrow"
      PROVE  Physical!ScalarValue(c.payload[k]) \/ Physical!OwnedHandle(c.payload[k])
  <2>1. ~ Physical!QueuedFits(c)
    BY <1>3 DEF Physical!QueuedFits
  <2>2. CASE owner = NativeCall
    BY <1>1, <2>2 DEF Physical!CallbackFits, Physical!CallScopedFits
  <2>3. CASE owner # NativeCall
    BY <1>1, <2>1, <2>3 DEF Physical!CallbackFits, Physical!RetainedFits, Physical!SynchronousFits
  <2> QED
    BY <2>2, <2>3
<1> HIDE DEF c
<1>4. ASSUME NEW p, Physical!ScalarValue(p)
      PROVE  Physical!PayloadView(p) \notin {"handle or null", "string"}
  <2>1. p.marshal = "none" /\ p.type \in {"integer", "extent", "float"}
    BY <1>4 DEF Physical!ScalarValue, Physical!Value, Physical!Unmarshalled, Physical!Scalars, Physical!Integers
  <2> QED
    BY <2>1 DEF Physical!PayloadView, Physical!CString
<1>5. ASSUME NEW p, Physical!OwnedHandle(p)
      PROVE  /\ Physical!PayloadView(p) # "string"
             /\ ~ p.nullable => Physical!PayloadView(p) # "handle or null"
  <2>1. p.marshal = "none" /\ p.type = "handle"
    BY <1>5 DEF Physical!OwnedHandle, Physical!Unmarshalled
  <2> QED
    BY <2>1 DEF Physical!PayloadView, Physical!CString
<1>6. ASSUME NEW p, Physical!CString(p)
      PROVE  Physical!PayloadView(p) = "string"
  BY <1>6 DEF Physical!PayloadView
<1>7. ASSUME NEW view \in Range(views)
      PROVE  view = "owner" \/ \E k \in DOMAIN c.payload : view = Physical!PayloadView(c.payload[k])
  <2>1. PICK k \in DOMAIN c.sources : view = views[k]
    BY DEF Range, Physical!DeliveryViews
  <2>2. c.sources[k] = 0 \/ c.sources[k] \in DOMAIN c.payload
    BY <1>2 DEF Physical!SourcesFit, Physical!Range
  <2> QED
    BY <2>1, <2>2 DEF Physical!DeliveryViews
<1>8. "handle or null" \in Range(views) => c.transport # "copy"
  <2> SUFFICES ASSUME "handle or null" \in Range(views), c.transport = "copy" PROVE FALSE
    OBVIOUS
  <2>1. PICK k \in DOMAIN c.payload : "handle or null" = Physical!PayloadView(c.payload[k])
    BY <1>7
  <2>2. \/ Physical!ScalarValue(c.payload[k])
        \/ ~ c.payload[k].nullable /\ (Physical!OwnedHandle(c.payload[k]) \/ Physical!CString(c.payload[k]))
    BY <1>2 DEF Physical!QueuedFits
  <2> QED
    BY <1>4, <1>5, <1>6, <2>1, <2>2
<1>9. "string" \in Range(views) => c.transport = "copy"
  <2> SUFFICES ASSUME "string" \in Range(views), c.transport # "copy" PROVE FALSE
    OBVIOUS
  <2>1. PICK k \in DOMAIN c.payload : "string" = Physical!PayloadView(c.payload[k])
    BY <1>7
  <2>2. c.transport = "borrow"
    BY <1>2 DEF Physical!QueuedFits
  <2> QED
    BY <1>3, <1>4, <1>5, <2>1, <2>2
<1>10. c.answer # "void" => c.transport # "copy"
  BY <1>2 DEF Physical!QueuedFits
<1> QED
  BY <1>8, <1>9, <1>10 DEF c, Physical!LoweredCallback, Physical!DeliveryAnswer

(* Where a copied result comes from.                                       *)
LEMMA ResultsFit ==
  ASSUME NEW s, NEW owner, NEW cancels, Physical!SignatureSupported(s, owner, cancels)
  PROVE  LET result == Physical!LoweredResult(s.result) IN
         /\ result.anchored /\ s.result.marshal = "c-string" => Head(s.parameters).held = "call"
         /\ result.released => s.result.held = "value"
<1> DEFINE r == s.result  result == Physical!LoweredResult(r)
<1>1. Physical!ResultFits(s)
  BY DEF Physical!SignatureSupported
<1>2. CASE r.marshal = "none"
  BY <1>2 DEF Physical!LoweredResult
<1>3. CASE r.marshal \in {"bytes", "utf8"}
  <2>1. Physical!SpanResultFits(r)
    BY <1>1, <1>3 DEF Physical!ResultFits
  <2> QED
    BY <1>3, <2>1 DEF Physical!SpanResultFits
<1>4. CASE r.marshal = "strings"
  <2>1. Physical!StringsFit(r, FALSE)
    BY <1>1, <1>4 DEF Physical!ResultFits
  <2> QED
    BY <1>4, <2>1 DEF Physical!StringsFit, Physical!LoweredResult
<1>5. CASE r.marshal = "c-string"
  <2>1. Physical!StringResultFits(s)
    BY <1>1, <1>5 DEF Physical!ResultFits
  <2> QED
    BY <2>1 DEF Physical!StringResultFits, Physical!BorrowedReceiver, Physical!LoweredResult
<1>6. CASE r.marshal \notin {"none", "bytes", "utf8", "strings", "c-string"}
  <2>1. Physical!PlainResultFits(s)
    BY <1>1, <1>6 DEF Physical!ResultFits
  <2> QED
    BY <1>6, <2>1 DEF Physical!PlainResultFits, Physical!OwnedHandle, Physical!PositionSupported,
       Physical!Unmarshalled
<1> QED
  BY <1>2, <1>3, <1>4, <1>5, <1>6
-----------------------------------------------------------------------------
(* Every call in the program has a supported signature, lowered; and the   *)
(* composition keeps it as its own package's translation has it.           *)
SignatureFits(m, p) ==
  \A b \in DOMAIN m.signatures \ Accessors(m) :
    LET s == m.signatures[b]  owner == m.bindings[b].owner IN
    Scoped(m, b) \in DOMAIN p.bindings =>
      /\ Physical!SignatureSupported(s, owner, m.bindings[b].cancel # None)
      /\ p.bindings[Scoped(m, b)].signature = {Physical!LoweredSignature(s, owner)}

SignaturesFit ==
  \A i \in DOMAIN programs :
    /\ i \in DOMAIN build /\ IsManifest(build[i].manifest)
    /\ SignatureFits(build[i].manifest, programs[i])

ComposedIsTranslated ==
  Accepted => \A i \in DOMAIN programs : \A b \in DOMAIN programs[i].bindings :
                b \in DOMAIN bindings /\ bindings[b] = programs[i].bindings[b]

CallsFit == SignaturesFit /\ ComposedIsTranslated

LEMMA LoweredSignatureFits ==
  ASSUME NEW m, NEW selection, NEW R, NEW K, ~ Refuses(m, selection, R)
  PROVE  SignatureFits(m, LoweredPackage(m, selection, R, K))
<1> DEFINE p == LoweredPackage(m, selection, R, K)
           calls == EmittedCalls(m, R)
<1>1. p.bindings = [i \in {Scoped(m, b) : b \in calls} |-> LoweredBinding(m, i[2])]
  BY DEF LoweredPackage
<1>2. \A b : Scoped(m, b)[2] = b
  BY DEF Scoped
<1> HIDE DEF p, calls
<1> SUFFICES ASSUME NEW b \in DOMAIN m.signatures \ Accessors(m), Scoped(m, b) \in DOMAIN p.bindings
             PROVE  /\ Physical!SignatureSupported(m.signatures[b], m.bindings[b].owner,
                                                   m.bindings[b].cancel # None)
                    /\ p.bindings[Scoped(m, b)].signature =
                         {Physical!LoweredSignature(m.signatures[b], m.bindings[b].owner)}
  BY DEF SignatureFits, p
<1>3. b \in calls
  BY <1>1, <1>2
<1>4. BindingSupported(m, b, R)
  BY <1>3 DEF Refuses, calls
<1>5. Physical!SignatureSupported(m.signatures[b], m.bindings[b].owner, m.bindings[b].cancel # None)
  BY <1>4 DEF BindingSupported, PhysicallySupported
<1>6. p.bindings[Scoped(m, b)] = LoweredBinding(m, b)
  BY <1>1, <1>2, <1>3
<1>7. LoweredBinding(m, b).signature = {Physical!LoweredSignature(m.signatures[b], m.bindings[b].owner)}
  BY DEF LoweredBinding
<1> QED
  BY <1>5, <1>6, <1>7

LEMMA CallsInit == Init => CallsFit
BY DEF Init, CallsFit, SignaturesFit, ComposedIsTranslated, Accepted

LEMMA CallsNext == IInv /\ CallsFit /\ [Next]_vars => CallsFit'
<1> SUFFICES ASSUME IInv, CallsFit, [Next]_vars PROVE CallsFit'
  OBVIOUS
<1>1. CASE Emit
  <2>1. /\ phase = "spread" /\ ~ refused /\ UNCHANGED build
        /\ Len(programs) \in Nat /\ Len(programs) < Len(build) /\ Len(build) \in Nat
        /\ programs \in Seq(Range(programs)) /\ build \in Seq(Range(build))
    BY <1>1 DEF Emit, IInv, PhaseFits, ProgramsFit, BuildFits, Translating
  <2>2. CASE Refuses(M, Selection, reached)
    BY <1>1, <2>1, <2>2 DEF Emit, CallsFit, SignaturesFit, ComposedIsTranslated, Accepted
  <2>3. CASE ~ Refuses(M, Selection, reached)
    <3> DEFINE p == LoweredPackage(M, Selection, reached, marked)
               n == Len(programs)
    <3>1. programs' = Append(programs, p) /\ phase' # "done"
      BY <1>1, <2>3 DEF Emit
    <3>2. SignatureFits(M, p)
      BY <2>3, LoweredSignatureFits
    <3> HIDE DEF p
    <3>3. M = build[n + 1].manifest /\ n + 1 \in DOMAIN build /\ IsManifest(M)
      BY <2>1 DEF M, Current, IInv, BuildFits
    <3>4. /\ DOMAIN programs = 1..n /\ DOMAIN programs' = (1..n) \cup {n + 1}
          /\ \A i \in 1..n : programs'[i] = programs[i]
          /\ programs'[n + 1] = p
      BY <2>1, <3>1
    <3>5. SignaturesFit'
      BY <2>1, <3>2, <3>3, <3>4 DEF CallsFit, SignaturesFit
    <3> QED
      BY <3>1, <3>5 DEF CallsFit, ComposedIsTranslated, Accepted
  <2> QED
    BY <2>2, <2>3
<1>2. CASE Finish
  <2>1. phase = "reconcile" /\ UNCHANGED <<build, programs, bindings>> /\ (refused => refused')
    BY <1>2 DEF Finish
  <2>2. /\ merged = Len(programs) /\ Merged /\ ProgramsFit
        /\ refused <=> ~ (AllCompatible(merged) /\ AllProvided)
    BY <2>1 DEF IInv, PhaseFits, MergedFits, Composing
  <2>3. DOMAIN programs = 1..merged
    BY <2>2, ProgramsIndexed
  <2>4. AllCompatible(merged) =>
          \A i \in 1..merged : \A b \in DOMAIN programs[i].bindings :
            b \in DOMAIN bindings /\ bindings[b] = programs[i].bindings[b]
    BY <2>2, CompositionIsUnion
  <2>5. ComposedIsTranslated'
    BY <2>1, <2>2, <2>3, <2>4 DEF ComposedIsTranslated, Accepted
  <2> QED
    BY <2>1, <2>5 DEF CallsFit, SignaturesFit
<1>3. CASE Validate
  <2>1. UNCHANGED <<build, programs>> /\ (phase' = "done" => refused')
    BY <1>3 DEF Validate
  <2> QED
    BY <2>1 DEF CallsFit, SignaturesFit, ComposedIsTranslated, Accepted
<1>4. CASE ReachTypes \/ Reach \/ MarkCycles \/ SpreadMark \/ Merge \/ CountEdges \/ OrderLink \/ Resolve \/ Reconcile
  <2>1. UNCHANGED <<build, programs>> /\ phase' # "done"
    BY <1>4 DEF ReachTypes, Reach, MarkCycles, SpreadMark, Merge, CountEdges, OrderLink, Resolve,
       Reconcile, translation
  <2> QED
    BY <2>1 DEF CallsFit, SignaturesFit, ComposedIsTranslated, Accepted
<1>5. CASE UNCHANGED vars
  <2>1. UNCHANGED <<build, programs, phase, refused, bindings>>
    BY <1>5 DEF vars, composed
  <2> QED
    BY <2>1 DEF CallsFit, SignaturesFit, ComposedIsTranslated, Accepted
<1> QED
  BY <1>1, <1>2, <1>3, <1>4, <1>5 DEF Next

(* What the compiler is told of one call.                                  *)
LEMMA CallLowered ==
  ASSUME CallsFit, Accepted, NEW call \in Calls
  PROVE  /\ call.declared.parameters \in Seq(Range(call.declared.parameters))
         /\ \A i \in DOMAIN call.declared.parameters :
              \A c, d \in call.declared.parameters[i].callback : c = d
         /\ \E cancels \in BOOLEAN : Physical!SignatureSupported(call.declared, call.owner, cancels)
         /\ call.lowered = Physical!LoweredSignature(call.declared, call.owner)
<1>0. PICK i \in DOMAIN programs :
        call \in {LET m == build[i].manifest IN
                  [declared |-> m.signatures[b], owner |-> m.bindings[b].owner,
                   lowered |-> CHOOSE s \in bindings[Scoped(m, b)].signature : TRUE] :
                    b \in SignedCalls(i)}
  BY DEF Calls
<1>1. PICK b \in SignedCalls(i) :
        LET m == build[i].manifest IN
        call = [declared |-> m.signatures[b], owner |-> m.bindings[b].owner,
                lowered |-> CHOOSE s \in bindings[Scoped(m, b)].signature : TRUE]
  BY <1>0
<1> DEFINE m == build[i].manifest
<1>2. b \in DOMAIN m.signatures \ Accessors(m) /\ Scoped(m, b) \in DOMAIN programs[i].bindings
  BY DEF SignedCalls, CallsOf
<1>3. /\ IsManifest(m) /\ SignatureFits(m, programs[i])
      /\ bindings[Scoped(m, b)] = programs[i].bindings[Scoped(m, b)]
  BY <1>2 DEF CallsFit, SignaturesFit, ComposedIsTranslated
<1>4. /\ Physical!SignatureSupported(m.signatures[b], m.bindings[b].owner, m.bindings[b].cancel # None)
      /\ bindings[Scoped(m, b)].signature =
           {Physical!LoweredSignature(m.signatures[b], m.bindings[b].owner)}
  BY <1>2, <1>3 DEF SignatureFits
<1>5. call.declared = m.signatures[b] /\ call.owner = m.bindings[b].owner
      /\ call.lowered = CHOOSE s \in bindings[Scoped(m, b)].signature : TRUE
  BY <1>1
<1>6. call.lowered = Physical!LoweredSignature(m.signatures[b], m.bindings[b].owner)
  BY <1>4, <1>5
<1>7. /\ m.signatures[b].parameters \in Seq(Range(m.signatures[b].parameters))
      /\ \A k \in DOMAIN m.signatures[b].parameters :
           \A c, d \in m.signatures[b].parameters[k].callback : c = d
  BY <1>2, <1>3 DEF IsManifest
<1>8. (m.bindings[b].cancel # None) \in BOOLEAN
  OBVIOUS
<1> HIDE DEF m
<1> QED
  BY <1>4, <1>5, <1>6, <1>7, <1>8

LEMMA CallsFitArrive == CallsFit => CallsArrive
<1> SUFFICES ASSUME CallsFit, Accepted PROVE ArgumentsArrive /\ PayloadsArrive /\ ResultsArrive
  BY DEF CallsArrive
<1>1. ArgumentsArrive
  <2> SUFFICES ASSUME NEW call \in Calls
               PROVE  LET s == call.declared  slots == call.lowered.slots  n == Len(s.parameters)
                          own == (IF s.result.marshal \in {"utf8", "bytes"} THEN <<"length-out">> ELSE <<>>)
                                 \o (IF s.error = "error-out" THEN <<"error-out">> ELSE <<>>)
                      IN /\ \A i \in DOMAIN s.parameters : \A part \in Parts(s.parameters, i, call.owner) :
                              slots[part[2]] = [role |-> part[1], argument |-> i]
                         /\ [k \in 1..(Len(slots) - n) |-> slots[n + k].role] = own
                         /\ s.error = "error-out" => slots[call.lowered.failure].role = "error-out"
    BY DEF ArgumentsArrive
  <2> DEFINE s == call.declared
  <2>1. /\ s.parameters \in Seq(Range(s.parameters))
        /\ \A i \in DOMAIN s.parameters : \A c, d \in s.parameters[i].callback : c = d
        /\ call.lowered = Physical!LoweredSignature(s, call.owner)
    BY CallLowered
  <2>2. PICK cancels \in BOOLEAN : Physical!SignatureSupported(s, call.owner, cancels)
    BY CallLowered
  <2>3. /\ call.lowered.slots = Physical!Slots(s, call.owner)
        /\ call.lowered.failure = Physical!FailureSlot(s, call.owner)
    BY <2>1 DEF Physical!LoweredSignature
  <2>4. DOMAIN s.parameters \subseteq Nat \ {0}
    BY <2>1
  <2> HIDE DEF s
  <2>5. ASSUME NEW i \in DOMAIN s.parameters, NEW part \in Parts(s.parameters, i, call.owner)
        PROVE  call.lowered.slots[part[2]] = [role |-> part[1], argument |-> i]
    <3>1. /\ part[2] \in DOMAIN s.parameters
          /\ Physical!ParameterSlot(s, part[2], call.owner) = [role |-> part[1], argument |-> i]
      BY <2>1, <2>2, <2>4, PartsFilled
    <3>2. \A k \in DOMAIN s.parameters :
            Physical!Slots(s, call.owner)[k] = Physical!ParameterSlot(s, k, call.owner)
      BY <2>1, SlotsTrail
    <3> QED
      BY <2>3, <3>1, <3>2
  <2> DEFINE slots == call.lowered.slots
             n == Len(s.parameters)
  <2>6. LET physical == Physical!Slots(s, call.owner)  own == Len(s.parameters) IN
        /\ [k \in 1..(Len(physical) - own) |-> physical[own + k].role] =
             (IF s.result.marshal \in {"utf8", "bytes"} THEN <<"length-out">> ELSE <<>>)
             \o (IF s.error = "error-out" THEN <<"error-out">> ELSE <<>>)
        /\ s.error = "error-out" => physical[Physical!FailureSlot(s, call.owner)].role = "error-out"
    BY <2>1, SlotsTrail, Zenon
  <2>7. /\ [k \in 1..(Len(slots) - n) |-> slots[n + k].role] =
             (IF s.result.marshal \in {"utf8", "bytes"} THEN <<"length-out">> ELSE <<>>)
             \o (IF s.error = "error-out" THEN <<"error-out">> ELSE <<>>)
        /\ s.error = "error-out" => slots[call.lowered.failure].role = "error-out"
    BY <2>3, <2>6, Zenon
  <2> HIDE DEF n, slots
  <2>8. \A i \in DOMAIN s.parameters : \A part \in Parts(s.parameters, i, call.owner) :
          slots[part[2]] = [role |-> part[1], argument |-> i]
    BY <2>5 DEF slots
  <2> QED
    BY <2>7, <2>8, Zenon DEF s, slots, n
<1>2. PayloadsArrive
  <2> SUFFICES ASSUME NEW call \in Calls, NEW i \in DOMAIN call.lowered.callbacks,
                      NEW c \in call.declared.parameters[i].callback
               PROVE  LET delivery == call.lowered.callbacks[i]  queued == c.transport = "copy" IN
                      /\ "handle or null" \in Range(delivery.views) => ~ queued
                      /\ "string" \in Range(delivery.views) => queued
                      /\ delivery.answer.view # "void" => ~ queued
    BY DEF PayloadsArrive
  <2>1. /\ \A k \in DOMAIN call.declared.parameters :
             \A d, e \in call.declared.parameters[k].callback : d = e
        /\ call.lowered = Physical!LoweredSignature(call.declared, call.owner)
    BY CallLowered
  <2>2. PICK cancels \in BOOLEAN : Physical!SignatureSupported(call.declared, call.owner, cancels)
    BY CallLowered
  <2>3. /\ i \in Physical!Callbacks(call.declared)
        /\ call.lowered.callbacks[i] =
             Physical!LoweredCallback(Physical!Contract(call.declared, i), call.owner)
    BY <2>1 DEF Physical!LoweredSignature
  <2>4. c = Physical!Contract(call.declared, i)
    BY <2>1, <2>3 DEF Physical!Contract, Physical!Callbacks, Physical!Indices
  <2> QED
    BY <2>2, <2>3, <2>4, ViewsFit
<1>3. ResultsArrive
  <2> SUFFICES ASSUME NEW call \in Calls
               PROVE  /\ call.lowered.result.anchored /\ call.declared.result.marshal = "c-string" =>
                           Head(call.declared.parameters).held = "call"
                      /\ call.lowered.result.released => call.declared.result.held = "value"
    BY DEF ResultsArrive
  <2>1. call.lowered = Physical!LoweredSignature(call.declared, call.owner)
    BY CallLowered
  <2>2. PICK cancels \in BOOLEAN : Physical!SignatureSupported(call.declared, call.owner, cancels)
    BY CallLowered
  <2>3. call.lowered.result = Physical!LoweredResult(call.declared.result)
    BY <2>1 DEF Physical!LoweredSignature
  <2> QED
    BY <2>2, <2>3, ResultsFit
<1> QED
  BY <1>1, <1>2, <1>3

LEMMA CallsInductive == Spec => []CallsFit
<1>1. IInv /\ CallsFit /\ [Next]_vars => CallsFit'
  BY CallsNext
<1> QED
  BY <1>1, CallsInit, ProgramsInductive, PTL DEF Spec

(* translateScabiNativeProgram gives the compiler, for every call of an    *)
(* accepted program, slots that hold each source argument whole and its    *)
(* own slots last, deliveries a handler can read and results that are      *)
(* still there when they are copied: for every signature a manifest can    *)
(* declare.                                                                *)
THEOREM CallsDelivered == Spec => []CallsArrive
BY CallsInductive, CallsFitArrive, PTL

-----------------------------------------------------------------------------
(* What a manifest names as a cancellation, a base or an accessor is a     *)
(* call, and none of the error entries that the emission leaves out; and   *)
(* an accessor is expanded like any call.  Validation only asks that the   *)
(* names exist; the generators name nothing else.                          *)
Callee(m, d) == IsCall(m, d) /\ \A e \in BindingIds(m) : d \notin m.bindings[e].errors

CalleesFit(m) ==
  /\ \A b \in BindingIds(m) : IsCall(m, b) =>
       \A d \in NamedCalls(m, b) \cap m.bindings[b].deps : Callee(m, d)
  /\ \A d \in Accessors(m) : Callee(m, d) /\ DirectCall(m, d)

(* A call is translated together with what it names.                       *)
PackageNames(m, p) ==
  \A b \in BindingIds(m) : Scoped(m, b) \in DOMAIN p.bindings =>
    /\ \A d \in NamedCalls(m, b) : Scoped(m, d) \in DOMAIN p.bindings
    /\ \A t \in SignatureTypes(m, b) \cap LocalTypes(m) :
         Scoped(m, t) \in DOMAIN p.types /\ p.types[Scoped(m, t)].peer \subseteq DOMAIN p.bindings

Closed(m, R) == \A b \in R : Brings(m, b) \subseteq R

NamesFit ==
  /\ \A i \in DOMAIN build : CalleesFit(build[i].manifest)
  /\ phase = "reach" => \A b \in expanded : Brings(M, b) \subseteq reached
  /\ phase = "spread" => Closed(M, reached)
  /\ \A i \in DOMAIN programs : i \in DOMAIN build /\ PackageNames(build[i].manifest, programs[i])
  /\ Accepted =>
       /\ \A b \in DOMAIN bindings : DestructorsResolve(b)
       /\ \A i \in DOMAIN programs : \A t \in DOMAIN programs[i].types :
            t \in DOMAIN types /\ types[t].peer = programs[i].types[t].peer

LEMMA LoweredNames ==
  ASSUME NEW m, NEW selection, NEW R, NEW K, ManifestValid(m), CalleesFit(m),
         ~ Refuses(m, selection, R), Closed(m, R)
  PROVE  PackageNames(m, LoweredPackage(m, selection, R, K))
<1> DEFINE p == LoweredPackage(m, selection, R, K)
           lowered == LoweredTypes(m, LoweringRoots(m, selection, R))
           calls == EmittedCalls(m, R)
<1>1. /\ DOMAIN p.bindings = {Scoped(m, b) : b \in calls}
      /\ p.types = [i \in {Scoped(m, t) : t \in lowered} |-> LoweredType(m, i[2], K)]
  BY DEF LoweredPackage
<1>2. \A b : Scoped(m, b)[2] = b
  BY DEF Scoped
<1>3. ASSUME NEW d \in R, Callee(m, d)
      PROVE  Scoped(m, d) \in DOMAIN p.bindings
  <2>1. d \in calls
    BY <1>3 DEF EmittedCalls, Emitted, ErrorEntries, Callee, IsCall
  <2> QED
    BY <1>1, <2>1
<1> SUFFICES ASSUME NEW b \in BindingIds(m), Scoped(m, b) \in DOMAIN p.bindings
             PROVE  /\ \A d \in NamedCalls(m, b) : Scoped(m, d) \in DOMAIN p.bindings
                    /\ \A t \in SignatureTypes(m, b) \cap LocalTypes(m) :
                         /\ Scoped(m, t) \in DOMAIN p.types
                         /\ p.types[Scoped(m, t)].peer \subseteq DOMAIN p.bindings
  BY DEF PackageNames
<1>4. b \in calls
  <2>1. PICK d \in calls : Scoped(m, b) = Scoped(m, d)
    BY <1>1
  <2>2. b = d
    BY <1>2, <2>1
  <2> QED
    BY <2>2
<1>5. b \in R /\ IsCall(m, b)
  BY <1>4 DEF EmittedCalls, Emitted
<1>6. b \notin Accessors(m) => BindingSupported(m, b, R)
  BY <1>4 DEF Refuses
<1>7. b \in Accessors(m) => AccessorSupported(m, b)
  BY <1>4 DEF Refuses
<1>8. DirectCall(m, b)
  BY <1>6 DEF CalleesFit, BindingSupported
<1>9. m.bindings[b].deps \subseteq R /\ PeerAccessors(m, SignatureTypes(m, b)) \subseteq R
  BY <1>5, <1>8 DEF Closed, Brings
<1>10. ASSUME NEW d \in NamedCalls(m, b) PROVE Scoped(m, d) \in DOMAIN p.bindings
  <2>1. d \in m.bindings[b].deps
    <3>1. CASE Registers(m, b) /\ d = m.bindings[b].cancel
      <4>1. b \notin Accessors(m)
        BY <1>7, <3>1 DEF AccessorSupported, Registers
      <4>2. RetainedCallbackSupported(m, b)
        BY <1>6, <3>1, <4>1 DEF BindingSupported
      <4> QED
        BY <3>1, <4>2 DEF RetainedCallbackSupported
    <3>2. CASE d = m.bindings[b].base /\ d # None
      <4>1. d \in References(m, b)
        BY <3>2 DEF References
      <4>2. References(m, b) \subseteq m.bindings[b].deps
        BY DEF ManifestValid, CallableBindingsValid
      <4> QED
        BY <4>1, <4>2
    <3> QED
      BY <3>1, <3>2 DEF NamedCalls
  <2>2. Callee(m, d)
    BY <1>5, <2>1 DEF CalleesFit
  <2> QED
    BY <1>3, <1>9, <2>1, <2>2
<1>11. ASSUME NEW t \in SignatureTypes(m, b) \cap LocalTypes(m)
       PROVE  /\ Scoped(m, t) \in DOMAIN p.types
              /\ p.types[Scoped(m, t)].peer \subseteq DOMAIN p.bindings
  <2>1. t \in LoweringRoots(m, selection, R)
    BY <1>4 DEF LoweringRoots
  <2>2. t \in lowered
    BY <2>1 DEF LoweredTypes
  <2>3. /\ Scoped(m, t) \in DOMAIN p.types
        /\ p.types[Scoped(m, t)].peer = {Scoped(m, d) : d \in m.types[t].peer}
    BY <1>1, <1>2, <2>2 DEF LoweredType
  <2>4. ASSUME NEW d \in m.types[t].peer PROVE Scoped(m, d) \in DOMAIN p.bindings
    <3>1. d \in R /\ d \in Accessors(m)
      BY <1>9 DEF PeerAccessors, Accessors, LocalTypes
    <3>2. Callee(m, d)
      BY <3>1 DEF CalleesFit
    <3> QED
      BY <1>3, <3>1, <3>2
  <2> QED
    BY <2>3, <2>4
<1> QED
  BY <1>10, <1>11

LEMMA NamesInit ==
  ASSUME \A builds \in Families : \A b \in builds : \A i \in DOMAIN b : CalleesFit(b[i].manifest),
         Init
  PROVE  NamesFit
BY DEF Init, NamesFit, Accepted

(* A step of a translation or of the composition changes no translation    *)
(* that is done.                                                           *)
LEMMA NamesStep ==
  ASSUME NamesFit, UNCHANGED <<build, programs>>, ~ Accepted',
         phase' = "reach" => (\A b \in expanded : Brings(M, b) \subseteq reached)',
         phase' = "spread" => Closed(M, reached)'
  PROVE  NamesFit'
<1>1. /\ \A i \in DOMAIN build' : CalleesFit(build'[i].manifest)
      /\ \A i \in DOMAIN programs' :
           i \in DOMAIN build' /\ PackageNames(build'[i].manifest, programs'[i])
  BY DEF NamesFit
<1> QED
  BY <1>1 DEF NamesFit

LEMMA NamesTranslating ==
  ASSUME IInv, NamesFit, Validate \/ ReachTypes \/ Reach \/ MarkCycles \/ SpreadMark
  PROVE  NamesFit'
<1>1. /\ UNCHANGED <<build, programs>> /\ M' = M
      /\ ~ Accepted'
  BY SamePrograms DEF Validate, ReachTypes, Reach, MarkCycles, SpreadMark, Accepted
<1>2. phase' = "reach" => (\A b \in expanded : Brings(M, b) \subseteq reached)'
  <2>1. CASE Validate \/ ReachTypes
    <3>1. expanded' = {}
      BY <2>1 DEF Validate, ReachTypes
    <3> QED
      BY <3>1
  <2>2. CASE Reach
    <3>1. PICK b \in reached \ expanded : /\ reached' = reached \cup Brings(M, b)
                                          /\ expanded' = expanded \cup {b}
      BY <2>2 DEF Reach
    <3>2. \A d \in expanded : Brings(M, d) \subseteq reached
      BY <2>2 DEF Reach, NamesFit
    <3>3. \A d \in expanded' : Brings(M', d) \subseteq reached'
      BY <1>1, <3>1, <3>2
    <3> QED
      BY <3>3
  <2> QED
    BY <2>1, <2>2 DEF MarkCycles, SpreadMark, IInv
<1>3. phase' = "spread" => Closed(M, reached)'
  <2>1. CASE MarkCycles
    <3>1. reached = expanded /\ reached' = reached /\ \A b \in expanded : Brings(M, b) \subseteq reached
      BY <2>1 DEF MarkCycles, NamesFit
    <3>2. \A b \in reached' : Brings(M', b) \subseteq reached'
      BY <1>1, <3>1
    <3> QED
      BY <3>2 DEF Closed
  <2>2. CASE SpreadMark
    <3>1. reached' = reached /\ \A b \in reached : Brings(M, b) \subseteq reached
      BY <2>2 DEF SpreadMark, NamesFit, Closed
    <3>2. \A b \in reached' : Brings(M', b) \subseteq reached'
      BY <1>1, <3>1
    <3> QED
      BY <3>2 DEF Closed
  <2> QED
    BY <2>1, <2>2 DEF Validate, ReachTypes, Reach
<1> QED
  BY <1>1, <1>2, <1>3, NamesStep

LEMMA NamesEmit ==
  ASSUME IInv, NamesFit, Emit
  PROVE  NamesFit'
<1>1. /\ phase = "spread" /\ ~ refused /\ UNCHANGED <<build, reached>>
      /\ Len(programs) \in Nat /\ Len(programs) < Len(build) /\ Len(build) \in Nat
      /\ programs \in Seq(Range(programs)) /\ build \in Seq(Range(build))
      /\ ManifestValid(M) /\ Closed(M, reached)
  BY DEF Emit, translation, IInv, PhaseFits, ProgramsFit, BuildFits, TranslationFits, Translating, NamesFit
<1>2. CASE Refuses(M, Selection, reached)
  <2>1. UNCHANGED <<build, programs>> /\ phase' = "done" /\ ~ Accepted'
    BY <1>1, <1>2 DEF Emit, Accepted
  <2> QED
    BY <2>1, NamesStep
<1>3. CASE ~ Refuses(M, Selection, reached)
  <2> DEFINE p == LoweredPackage(M, Selection, reached, marked)
             n == Len(programs)
  <2>1. programs' = Append(programs, p) /\ phase' \in {"merge", "validate"}
    BY <1>3 DEF Emit
  <2>2. M = build[n + 1].manifest /\ n + 1 \in DOMAIN build
    BY <1>1 DEF M, Current
  <2>3. PackageNames(M, p)
    BY <1>1, <1>3, <2>2, LoweredNames DEF NamesFit
  <2> HIDE DEF p
  <2>4. /\ DOMAIN programs = 1..n /\ DOMAIN programs' = (1..n) \cup {n + 1}
        /\ \A i \in 1..n : programs'[i] = programs[i]
        /\ programs'[n + 1] = p
    BY <1>1, <2>1
  <2>5. \A i \in DOMAIN programs' :
          i \in DOMAIN build' /\ PackageNames(build'[i].manifest, programs'[i])
    BY <1>1, <2>2, <2>3, <2>4 DEF NamesFit
  <2>6. \A i \in DOMAIN build' : CalleesFit(build'[i].manifest)
    BY <1>1 DEF NamesFit
  <2> QED
    BY <2>1, <2>5, <2>6 DEF NamesFit, Accepted
<1> QED
  BY <1>2, <1>3

LEMMA NamesFinish ==
  ASSUME IInv, NamesFit, Finish
  PROVE  NamesFit'
<1>1. /\ phase = "reconcile" /\ phase' = "done"
      /\ types' = [t \in DOMAIN types |-> [types[t] EXCEPT !.traceable = t \in traceable]]
      /\ ~ refused' => ~ refused
      /\ UNCHANGED <<build, programs, bindings>>
  BY DEF Finish
<1>2. /\ merged = Len(programs) /\ Merged /\ ProgramsFit
      /\ refused <=> ~ (AllCompatible(merged) /\ AllProvided)
  BY <1>1 DEF IInv, PhaseFits, MergedFits, Composing
<1>3. DOMAIN programs = 1..merged
  BY <1>2, ProgramsIndexed
<1>4. ASSUME ~ refused'
      PROVE  /\ \A b \in DOMAIN bindings : DestructorsResolve(b)
             /\ \A i \in DOMAIN programs : \A t \in DOMAIN programs[i].types :
                  t \in DOMAIN types' /\ types'[t].peer = programs[i].types[t].peer
  <2>1. AllCompatible(merged) /\ Resolved
    BY <1>1, <1>2, <1>4, ResolvedIsProvided
  <2>2. ASSUME NEW i \in DOMAIN programs, NEW t \in DOMAIN programs[i].types
        PROVE  t \in DOMAIN types' /\ types'[t].peer = programs[i].types[t].peer
    <3>1. t \in DOMAIN types /\ types[t] = programs[i].types[t]
      BY <1>2, <1>3, <2>1, CompositionIsUnion
    <3>2. TypeFits(types[t])
      BY <1>2, <3>1 DEF ProgramsFit, PackageFits
    <3>3. types'[t] = [types[t] EXCEPT !.traceable = t \in traceable] /\ t \in DOMAIN types'
      BY <1>1, <3>1
    <3>4. types'[t].peer = types[t].peer
      BY <3>2, <3>3 DEF TypeFits
    <3> QED
      BY <3>1, <3>3, <3>4
  <2> QED
    BY <2>1, <2>2 DEF Resolved
<1>5. \A b : DestructorsResolve(b)' <=> DestructorsResolve(b)
  BY <1>1 DEF DestructorsResolve
<1>6. Accepted' => /\ \A b \in DOMAIN bindings' : DestructorsResolve(b)'
                   /\ \A i \in DOMAIN programs' : \A t \in DOMAIN programs'[i].types :
                        t \in DOMAIN types' /\ types'[t].peer = programs'[i].types[t].peer
  BY <1>1, <1>4, <1>5 DEF Accepted
<1>7. /\ \A i \in DOMAIN build' : CalleesFit(build'[i].manifest)
      /\ \A i \in DOMAIN programs' :
           i \in DOMAIN build' /\ PackageNames(build'[i].manifest, programs'[i])
  BY <1>1 DEF NamesFit
<1> QED
  BY <1>1, <1>6, <1>7 DEF NamesFit

LEMMA NamesNext == IInv /\ NamesFit /\ [Next]_vars => NamesFit'
<1> SUFFICES ASSUME IInv, NamesFit, [Next]_vars PROVE NamesFit'
  OBVIOUS
<1>1. CASE Merge \/ CountEdges \/ OrderLink \/ Resolve \/ Reconcile
  <2>1. UNCHANGED <<build, programs>> /\ phase' \notin {"reach", "spread", "done"}
    BY <1>1 DEF Merge, CountEdges, OrderLink, Resolve, Reconcile
  <2> QED
    BY <2>1, NamesStep DEF Accepted
<1>2. CASE UNCHANGED vars
  <2>1. /\ UNCHANGED <<build, programs, phase, refused, bindings, types, expanded, reached>>
        /\ M' = M
    BY <1>2, SamePrograms DEF vars, composed, translation
  <2>2. \A b : DestructorsResolve(b)' <=> DestructorsResolve(b)
    BY <2>1 DEF DestructorsResolve
  <2> QED
    BY <2>1, <2>2 DEF NamesFit, Accepted, Closed
<1> QED
  BY <1>1, <1>2, NamesTranslating, NamesEmit, NamesFinish DEF Next

LEMMA NamesFitResolve == NamesFit /\ CallsFit => (Accepted => NamesResolve)
<1> SUFFICES ASSUME NamesFit, CallsFit, Accepted, NEW i \in DOMAIN programs, NEW b \in CallsOf(i)
             PROVE  LET m == build[i].manifest IN
                    /\ {Scoped(m, d) : d \in NamedCalls(m, b)} \cup bindings[Scoped(m, b)].destroys
                         \subseteq DOMAIN bindings
                    /\ \A t \in SignatureTypes(m, b) \cap LocalTypes(m) :
                         Scoped(m, t) \in DOMAIN types /\ types[Scoped(m, t)].peer \subseteq DOMAIN bindings
  BY DEF NamesResolve
<1> DEFINE m == build[i].manifest
           p == programs[i]
<1>1. DOMAIN p.bindings \subseteq DOMAIN bindings
  BY DEF CallsFit, ComposedIsTranslated
<1>2. b \in BindingIds(m) /\ Scoped(m, b) \in DOMAIN p.bindings
  BY DEF CallsOf
<1>3. PackageNames(m, p)
  BY DEF NamesFit
<1>4. bindings[Scoped(m, b)].destroys \subseteq DOMAIN bindings
  BY <1>1, <1>2 DEF NamesFit, DestructorsResolve
<1>5. \A t \in DOMAIN p.types : t \in DOMAIN types /\ types[t].peer = p.types[t].peer
  BY DEF NamesFit
<1> HIDE DEF m, p
<1>6. /\ \A d \in NamedCalls(m, b) : Scoped(m, d) \in DOMAIN p.bindings
      /\ \A t \in SignatureTypes(m, b) \cap LocalTypes(m) :
           Scoped(m, t) \in DOMAIN p.types /\ p.types[Scoped(m, t)].peer \subseteq DOMAIN p.bindings
  BY <1>2, <1>3 DEF PackageNames
<1>7. {Scoped(m, d) : d \in NamedCalls(m, b)} \subseteq DOMAIN bindings
  BY <1>1, <1>6
<1>8. \A t \in SignatureTypes(m, b) \cap LocalTypes(m) :
        Scoped(m, t) \in DOMAIN types /\ types[Scoped(m, t)].peer \subseteq DOMAIN bindings
  BY <1>1, <1>5, <1>6
<1> QED
  BY <1>4, <1>7, <1>8 DEF m

(* The compiler finds in an accepted program whatever a call of it names:  *)
(* its cancellation, its base, what releases its handles, those handles    *)
(* and their peer accessors; and all of its arguments where it reads them. *)
(* For every set of manifests whose cancellations, bases and accessors are *)
(* calls that are emitted.                                                 *)
THEOREM NothingDangling ==
  ASSUME \A builds \in Families : \A b \in builds : \A i \in DOMAIN b : CalleesFit(b[i].manifest)
  PROVE  Spec => []NothingDangles
<1>1. Init => NamesFit
  BY NamesInit
<1>2. IInv /\ NamesFit /\ [Next]_vars => NamesFit'
  BY NamesNext
<1>3. NamesFit /\ CallsFit => NothingDangles
  BY NamesFitResolve, CallsFitArrive DEF NothingDangles
<1> QED
  BY <1>1, <1>2, <1>3, ProgramsInductive, CallsInductive, PTL DEF Spec
=============================================================================
