------------------------- MODULE HandleTableProofs -------------------------
(***************************************************************************)
(* Proofs about HandleTable for every number of tokens, types and slots,   *)
(* and every width of the generation and of the reference count.           *)
(***************************************************************************)
EXTENDS HandleTable, FiniteSetTheorems, TLAPS

(* Every generation nts_next_generation returns is a legal, nonzero one,   *)
(* and it only decreases when it wraps.                                    *)
LEMMA NextGenerationFacts ==
  ASSUME NEW g \in 0..MaxGeneration
  PROVE  /\ NextGeneration(g) \in 1..MaxGeneration
         /\ g # MaxGeneration => NextGeneration(g) = g + 1
BY LimitsAssumption DEF NextGeneration

(* The initial contents of the slots and of the table are well typed.      *)
LEMMA ZeroFacts ==
  /\ 0 \in 0..MaxGeneration /\ 0 \in 0..MaxReferences /\ 0 \in 0..SlotLimit
  /\ 0 \in Slots /\ NoSlot \notin Slots
BY LimitsAssumption DEF Slots, NoSlot

(* What a successful status says of the handle and its slot.               *)
LEMMA OkFacts ==
  ASSUME NEW h \in Handles, slotCount \in 0..SlotLimit,
         ReleaseStatus(h) = "ok"
  PROVE  /\ ~invalidated
         /\ h.slot \in Allocated
         /\ h.slot \in Slots
         /\ occupied[h.slot]
         /\ generation[h.slot] = h.generation
         /\ h.generation # 0
         /\ h.realm = "own"
BY LimitsAssumption DEF ReleaseStatus, SlotStatus, Handles, Slots, Allocated

LEMMA RetainIsRelease ==
  ASSUME NEW h \in Handles, RetainStatus(h) = "ok"
  PROVE  ReleaseStatus(h) = "ok" /\ references[h.slot] # MaxReferences
BY DEF RetainStatus, ReleaseStatus, SlotStatus

-----------------------------------------------------------------------------
(* The slot arrays, the free list head and the history keep their types.   *)
THEOREM TypeCorrect == Spec => []TypeOK
<1>1. Init => TypeOK
  <2> SUFFICES ASSUME Init PROVE TypeOK
    OBVIOUS
  <2>1. /\ generation \in [Slots -> 0..MaxGeneration]
        /\ references \in [Slots -> 0..MaxReferences]
        /\ typeId \in [Slots -> Types \cup {0}]
        /\ token \in [Slots -> Tokens \cup {NoToken}]
        /\ nextFree \in [Slots -> Slots \cup {NoSlot}]
        /\ occupied \in [Slots -> BOOLEAN]
    BY ZeroFacts DEF Init
  <2>2. /\ issued \in [Tokens -> Handles \cup {NoHandle}]
        /\ hooked \in [Tokens -> Nat]
    BY DEF Init
  <2>3. slotCount \in 0..SlotLimit /\ freeHead \in Slots \cup {NoSlot}
    BY ZeroFacts DEF Init
  <2> QED
    BY <2>1, <2>2, <2>3 DEF Init, TypeOK
<1>2. TypeOK /\ [Next]_vars => TypeOK'
  <2> SUFFICES ASSUME TypeOK, [Next]_vars PROVE TypeOK'
    OBVIOUS
  <2> USE LimitsAssumption
  <2>1. ASSUME NEW t \in Tokens, NEW ty \in Types, InsertReused(t, ty) PROVE TypeOK'
    <3>1. freeHead \in Slots
      BY <2>1 DEF InsertReused, TypeOK
    <3> QED
      BY <2>1, <3>1 DEF InsertReused, PopFree, Fill, TypeOK, Handles, Realms
  <2>2. ASSUME NEW t \in Tokens, NEW ty \in Types, InsertAppended(t, ty) PROVE TypeOK'
    <3>1. slotCount \in Slots /\ slotCount + 1 \in 0..SlotLimit /\ 1 \in 0..MaxGeneration
      BY <2>2 DEF InsertAppended, TypeOK, Slots
    <3> QED
      BY <2>2, <3>1 DEF InsertAppended, Fill, TypeOK, Handles, Realms
  <2>3. ASSUME NEW h \in Handles, Retain(h) PROVE TypeOK'
    <3>1. references[h.slot] + 1 \in 0..MaxReferences
      <4>1. h.slot \in Slots /\ references[h.slot] # MaxReferences
        BY <2>3, RetainIsRelease DEF Retain, Handles
      <4> QED
        BY <4>1 DEF TypeOK
    <3> QED
      BY <2>3, <3>1 DEF Retain, TypeOK
  <2>4. ASSUME NEW h \in Handles, ReleaseShared(h) PROVE TypeOK'
    <3>1. references[h.slot] - 1 \in 0..MaxReferences
      BY <2>4 DEF ReleaseShared, TypeOK, Handles
    <3> QED
      BY <2>4, <3>1 DEF ReleaseShared, TypeOK
  <2>5. ASSUME NEW h \in Handles, ReleaseLast(h) PROVE TypeOK'
    <3>1. h.slot \in Slots /\ NextGeneration(generation[h.slot]) \in 0..MaxGeneration
      BY <2>5, NextGenerationFacts DEF Handles, TypeOK
    <3>2. generation' \in [Slots -> 0..MaxGeneration] /\ wrapped' \subseteq Slots
      BY <2>5, <3>1 DEF ReleaseLast, TypeOK
    <3>3. hooked' \in [Tokens -> Nat]
      BY <2>5 DEF ReleaseLast, DestroyTokens, TypeOK
    <3> QED
      BY <2>5, <3>1, <3>2, <3>3 DEF ReleaseLast, TypeOK
  <2>6. CASE Invalidate
    <3>1. generation' \in [Slots -> 0..MaxGeneration]
      BY <2>6, NextGenerationFacts DEF Invalidate, TypeOK
    <3>2. nextFree' \in [Slots -> Slots \cup {NoSlot}] /\ freeHead' \in Slots \cup {NoSlot}
      BY <2>6 DEF Invalidate, TypeOK, Allocated, Slots
    <3>3. hooked' \in [Tokens -> Nat]
      BY <2>6 DEF Invalidate, DestroyTokens, TypeOK
    <3>4. wrapped' \subseteq Slots
      BY <2>6 DEF Invalidate, TypeOK
    <3>5. /\ references' \in [Slots -> 0..MaxReferences]
          /\ typeId' \in [Slots -> Types \cup {0}]
          /\ token' \in [Slots -> Tokens \cup {NoToken}]
          /\ occupied' \in [Slots -> BOOLEAN]
      BY <2>6, ZeroFacts DEF Invalidate, TypeOK
    <3> QED
      BY <2>6, <3>1, <3>2, <3>3, <3>4, <3>5 DEF Invalidate, TypeOK
  <2>7. CASE Destroy
    <3>1. hooked' \in [Tokens -> Nat]
      BY <2>7 DEF Destroy, DestroyTokens, TypeOK
    <3> QED
      BY <2>7, <3>1, ZeroFacts DEF Destroy, TypeOK
  <2>8. CASE UNCHANGED vars
    BY <2>8 DEF vars, slotVars, TypeOK
  <2> QED
    BY <2>1, <2>2, <2>3, <2>4, <2>5, <2>6, <2>7, <2>8 DEF Next
<1> QED
  BY <1>1, <1>2, PTL DEF Spec

-----------------------------------------------------------------------------
(* The consistency of slots and tokens, without the free list.             *)
Consistent == SlotsConsistent /\ TokensConsistent /\ GenerationsAdvance

(* A live handle identifies the token in its slot.                         *)
LEMMA HandleOfToken ==
  ASSUME TypeOK, NEW t \in Tokens, issued[t] # NoHandle
  PROVE  issued[t] \in Handles /\ issued[t].slot \in Slots
BY DEF TypeOK, Handles

(* The handle of the token in an occupied slot names that slot.            *)
LEMMA OccupiedFacts ==
  ASSUME SlotsConsistent, NEW s \in Slots, occupied[s]
  PROVE  /\ token[s] \in Tokens
         /\ hooked[token[s]] = 0
         /\ issued[token[s]] # NoHandle
         /\ issued[token[s]].slot = s
         /\ issued[token[s]].generation = generation[s]
<1> DEFINE h == [slot |-> s, generation |-> generation[s], realm |-> "own"]
<1>1. h.slot = s /\ h.generation = generation[s]
  OBVIOUS
<1>2. h # NoHandle
  <2>1. NoHandle.slot = NoSlot
    BY DEF NoHandle
  <2> QED
    BY <1>1, <2>1, ZeroFacts
<1>3. token[s] \in Tokens /\ hooked[token[s]] = 0 /\ issued[token[s]] = h
  BY DEF SlotsConsistent
<1> QED
  BY <1>1, <1>2, <1>3

(* The tokens the end of the realm destroys are those not destroyed yet.   *)
LEMMA HeldTokensFacts ==
  ASSUME TypeOK, SlotsConsistent, TokensConsistent
  PROVE  \A t \in Tokens : t \in HeldTokens <=> issued[t] # NoHandle /\ hooked[t] = 0
<1>1. ASSUME NEW t \in Tokens, t \in HeldTokens
      PROVE  issued[t] # NoHandle /\ hooked[t] = 0
  <2>1. PICK s \in Allocated : occupied[s] /\ token[s] = t
    BY <1>1 DEF HeldTokens
  <2>2. s \in Slots
    BY LimitsAssumption DEF Allocated, Slots, TypeOK
  <2> QED
    BY <2>1, <2>2, OccupiedFacts
<1>2. ASSUME NEW t \in Tokens, issued[t] # NoHandle, hooked[t] = 0
      PROVE  t \in HeldTokens
  <2>1. issued[t].slot \in Slots /\ occupied[issued[t].slot] /\ token[issued[t].slot] = t
    BY <1>2, HandleOfToken DEF TokensConsistent
  <2> QED
    BY <2>1 DEF HeldTokens, SlotsConsistent
<1> QED
  BY <1>1, <1>2

LEMMA InitConsistent == Init => Consistent
BY ZeroFacts DEF Init, Consistent, SlotsConsistent, TokensConsistent,
   GenerationsAdvance, Allocated

(* The head of the free list is an allocated slot that is not occupied.    *)
LEMMA FreeHeadFacts ==
  ASSUME TypeOK, FreeListComplete, freeHead # NoSlot
  PROVE  freeHead \in Allocated /\ ~occupied[freeHead]
<1>1. PICK n \in 0..SlotLimit : \E fl \in [1..n -> Slots] : IsFreeList(fl, n)
  BY DEF FreeListComplete
<1>2. PICK fl \in [1..n -> Slots] : IsFreeList(fl, n)
  BY <1>1
<1>3. n # 0 /\ freeHead = fl[1] /\ 1 \in 1..n
  BY <1>2 DEF IsFreeList
<1> QED
  BY <1>2, <1>3 DEF IsFreeList

(* Putting a new token in a slot that is not occupied.                     *)
LEMMA FillConsistent ==
  ASSUME TypeOK, Consistent,
         NEW t \in Tokens, NEW ty \in Types, NEW s \in Slots, NEW g \in 1..MaxGeneration,
         issued[t] = NoHandle, ~occupied[s], Fill(s, g, ty, t),
         s \in Allocated => g = generation[s],
         Allocated' = Allocated \cup {s}, ~destroyed
  PROVE  Consistent'
<1> DEFINE h == [slot |-> s, generation |-> g, realm |-> "own"]
<1>1. h # NoHandle /\ h.slot = s /\ h.generation = g
  BY DEF NoHandle
<1>2. /\ issued' = [issued EXCEPT ![t] = h]
      /\ token' = [token EXCEPT ![s] = t]
      /\ occupied' = [occupied EXCEPT ![s] = TRUE]
      /\ references' = [references EXCEPT ![s] = 1]
      /\ generation' = [generation EXCEPT ![s] = g]
      /\ UNCHANGED <<hooked, wrapped, destroyed>>
  BY DEF Fill
<1>3. SlotsConsistent'
  <2>1. \A r \in Allocated' : generation'[r] # 0
    BY <1>2, LimitsAssumption DEF SlotsConsistent, Consistent, TypeOK, Allocated
  <2>2. ASSUME NEW r \in Slots, occupied'[r], r # s
        PROVE  /\ r \in Allocated'
               /\ references'[r] > 0
               /\ token'[r] \in Tokens
               /\ hooked'[token'[r]] = 0
               /\ issued'[token'[r]] = [slot |-> r, generation |-> generation'[r], realm |-> "own"]
    <3>1. token[r] # t
      <4>1. occupied[r]
        BY <2>2, <1>2 DEF TypeOK
      <4> QED
        BY <4>1, OccupiedFacts DEF Consistent
    <3> QED
      BY <2>2, <1>2, <3>1 DEF SlotsConsistent, Consistent, TypeOK
  <2>3. /\ s \in Allocated'
        /\ references'[s] > 0
        /\ token'[s] = t
        /\ hooked'[t] = 0
        /\ issued'[t] = [slot |-> s, generation |-> generation'[s], realm |-> "own"]
    BY <1>2 DEF TokensConsistent, Consistent, TypeOK
  <2> QED
    BY <2>1, <2>2, <2>3 DEF SlotsConsistent
<1>4. TokensConsistent'
  BY <1>1, <1>2, HandleOfToken DEF TokensConsistent, Consistent, TypeOK
<1>5. GenerationsAdvance'
  BY <1>1, <1>2, HandleOfToken DEF TokensConsistent, GenerationsAdvance, Consistent, TypeOK
<1> QED
  BY <1>3, <1>4, <1>5 DEF Consistent

LEMMA InsertReusedConsistent ==
  ASSUME TypeOK, Consistent, FreeListComplete,
         NEW t \in Tokens, NEW ty \in Types, InsertReused(t, ty)
  PROVE  Consistent'
<1>1. freeHead \in Allocated /\ ~occupied[freeHead] /\ freeHead \in Slots
  BY FreeHeadFacts DEF InsertReused, TypeOK
<1>2. generation[freeHead] \in 1..MaxGeneration
  BY <1>1, LimitsAssumption DEF TypeOK, Consistent, SlotsConsistent
<1>3. Allocated' = Allocated \cup {freeHead}
  BY <1>1 DEF InsertReused, Allocated
<1> QED
  BY <1>1, <1>2, <1>3, FillConsistent DEF InsertReused

LEMMA InsertAppendedConsistent ==
  ASSUME TypeOK, Consistent,
         NEW t \in Tokens, NEW ty \in Types, InsertAppended(t, ty)
  PROVE  Consistent'
<1>1. slotCount \in Slots /\ slotCount \notin Allocated /\ 1 \in 1..MaxGeneration
  BY LimitsAssumption DEF InsertAppended, TypeOK, Slots, Allocated
<1>2. ~occupied[slotCount]
  BY <1>1 DEF Consistent, SlotsConsistent
<1>3. Allocated' = Allocated \cup {slotCount}
  BY DEF InsertAppended, Allocated, TypeOK
<1> QED
  BY <1>1, <1>2, <1>3, FillConsistent DEF InsertAppended

(* A call that only changes a reference count that stays positive.         *)
LEMMA CountConsistent ==
  ASSUME TypeOK, Consistent, NEW h \in Handles, NEW n \in Nat, n > 0,
         references' = [references EXCEPT ![h.slot] = n],
         UNCHANGED <<generation, token, occupied, slotCount, destroyed, issued, hooked, wrapped>>
  PROVE  Consistent'
<1>1. SlotsConsistent'
  BY DEF Consistent, SlotsConsistent, TypeOK, Allocated
<1>2. TokensConsistent' /\ GenerationsAdvance'
  BY DEF Consistent, TokensConsistent, GenerationsAdvance, Allocated
<1> QED
  BY <1>1, <1>2 DEF Consistent

LEMMA ReleaseLastConsistent ==
  ASSUME TypeOK, Consistent, NEW h \in Handles, ReleaseLast(h)
  PROVE  Consistent'
<1> DEFINE s == h.slot
           d == token[s]
<1>1. /\ s \in Slots /\ s \in Allocated /\ occupied[s]
      /\ generation[s] = h.generation /\ generation[s] \in 0..MaxGeneration
  BY OkFacts DEF ReleaseLast, TypeOK
<1>2. d \in Tokens /\ hooked[d] = 0 /\ issued[d] # NoHandle /\ issued[d].slot = s
      /\ issued[d].generation = generation[s]
  BY <1>1, OccupiedFacts DEF Consistent
<1>3. /\ references' = [references EXCEPT ![s] = 0]
      /\ token' = [token EXCEPT ![s] = NoToken]
      /\ occupied' = [occupied EXCEPT ![s] = FALSE]
      /\ generation' = [generation EXCEPT ![s] = NextGeneration(generation[s])]
      /\ wrapped' = IF generation[s] = MaxGeneration THEN wrapped \cup {s} ELSE wrapped
      /\ hooked' = [t \in Tokens |-> IF t = d THEN hooked[t] + 1 ELSE hooked[t]]
      /\ UNCHANGED <<slotCount, destroyed, issued>>
      /\ ~destroyed
  BY DEF ReleaseLast, DestroyTokens
<1>4. /\ generation'[s] \in 1..MaxGeneration
      /\ s \notin wrapped' => generation'[s] = generation[s] + 1
  BY <1>1, <1>3, NextGenerationFacts DEF TypeOK
<1>5. SlotsConsistent'
  <2>1. \A r \in Allocated' : generation'[r] # 0
    BY <1>3, <1>4 DEF Consistent, SlotsConsistent, TypeOK, Allocated, Slots
  <2>2. ASSUME NEW r \in Slots, occupied'[r]
        PROVE  /\ r \in Allocated'
               /\ references'[r] > 0
               /\ token'[r] \in Tokens
               /\ hooked'[token'[r]] = 0
               /\ issued'[token'[r]] = [slot |-> r, generation |-> generation'[r], realm |-> "own"]
    <3>1. r # s
      BY <2>2, <1>3 DEF TypeOK
    <3>2. occupied[r] /\ issued[token[r]].slot = r /\ token[r] # d
      <4>1. occupied[r]
        BY <2>2, <1>3, <3>1 DEF TypeOK
      <4> QED
        BY <4>1, <3>1, <1>2, OccupiedFacts DEF Consistent
    <3> QED
      BY <3>1, <3>2, <1>3 DEF Consistent, SlotsConsistent, TypeOK, Allocated
  <2> QED
    BY <2>1, <2>2 DEF SlotsConsistent
<1>6. TokensConsistent'
  <2> SUFFICES ASSUME NEW t \in Tokens
               PROVE  /\ hooked'[t] \in {0, 1}
                      /\ issued'[t] = NoHandle => hooked'[t] = 0
                      /\ issued'[t] # NoHandle /\ ~destroyed' => issued'[t].slot \in Allocated'
                      /\ issued'[t] # NoHandle /\ hooked'[t] = 0 =>
                           /\ occupied'[issued'[t].slot]
                           /\ token'[issued'[t].slot] = t
    BY DEF TokensConsistent
  <2>1. CASE t = d
    BY <2>1, <1>2, <1>3 DEF Consistent, TokensConsistent, Allocated
  <2>2. CASE t # d
    <3>1. hooked'[t] = hooked[t]
      BY <2>2, <1>3
    <3>2. issued[t] # NoHandle /\ hooked[t] = 0 => issued[t].slot # s
      BY <2>2 DEF Consistent, TokensConsistent
    <3> QED
      BY <3>1, <3>2, <1>3, HandleOfToken DEF Consistent, TokensConsistent, TypeOK, Allocated
  <2> QED
    BY <2>1, <2>2
<1>7. GenerationsAdvance'
  <2> SUFFICES ASSUME NEW t \in Tokens, issued[t] # NoHandle, issued[t].slot \notin wrapped'
               PROVE  /\ issued[t].generation <= generation'[issued[t].slot]
                      /\ hooked'[t] = 1 => issued[t].generation # generation'[issued[t].slot]
    BY <1>3 DEF GenerationsAdvance
  <2>1. /\ issued[t].slot \in Slots /\ issued[t].generation \in Nat
        /\ issued[t].slot \notin wrapped
    BY <1>3, HandleOfToken DEF Handles
  <2>2. issued[t].generation <= generation[issued[t].slot]
    BY <2>1, <1>3 DEF Consistent, GenerationsAdvance
  <2>3. CASE issued[t].slot = s
    BY <2>1, <2>2, <2>3, <1>1, <1>4
  <2>4. CASE issued[t].slot # s
    BY <2>1, <2>2, <2>4, <1>2, <1>3 DEF Consistent, GenerationsAdvance, TypeOK
  <2> QED
    BY <2>3, <2>4
<1> QED
  BY <1>5, <1>6, <1>7 DEF Consistent

LEMMA InvalidateConsistent ==
  ASSUME TypeOK, Consistent, Invalidate
  PROVE  Consistent'
<1>1. \A t \in Tokens : t \in HeldTokens <=> issued[t] # NoHandle /\ hooked[t] = 0
  BY HeldTokensFacts DEF Consistent
<1>2. /\ \A s \in Slots : ~occupied'[s]
      /\ \A t \in Tokens : hooked'[t] = IF t \in HeldTokens THEN 1 ELSE hooked[t]
      /\ UNCHANGED <<slotCount, destroyed, issued>>
      /\ ~destroyed
  <2>1. \A s \in Slots : ~occupied'[s]
    BY DEF Invalidate, Consistent, SlotsConsistent
  <2>2. \A t \in Tokens : hooked'[t] = IF t \in HeldTokens THEN 1 ELSE hooked[t]
    BY <1>1 DEF Invalidate, DestroyTokens
  <2> QED
    BY <2>1, <2>2 DEF Invalidate
<1>3. ASSUME NEW s \in Slots
      PROVE  /\ ~occupied[s] => generation'[s] = generation[s]
             /\ occupied[s] => s \in Allocated /\ generation'[s] \in 1..MaxGeneration
             /\ occupied[s] /\ s \notin wrapped' => generation'[s] = generation[s] + 1
  BY NextGenerationFacts DEF Invalidate, TypeOK, Consistent, SlotsConsistent
<1>4. SlotsConsistent'
  <2>1. \A s \in Allocated : s \in Slots
    BY LimitsAssumption DEF Allocated, Slots, TypeOK
  <2>2. \A s \in Allocated' : generation'[s] # 0
    BY <2>1, <1>2, <1>3 DEF Consistent, SlotsConsistent, Allocated
  <2> QED
    BY <2>2, <1>2 DEF SlotsConsistent
<1>5. TokensConsistent'
  BY <1>1, <1>2 DEF Consistent, TokensConsistent, Allocated
<1>6. GenerationsAdvance'
  <2> SUFFICES ASSUME NEW t \in Tokens, issued[t] # NoHandle, issued[t].slot \notin wrapped'
               PROVE  /\ issued[t].generation <= generation'[issued[t].slot]
                      /\ hooked'[t] = 1 => issued[t].generation # generation'[issued[t].slot]
    BY <1>2 DEF GenerationsAdvance
  <2> DEFINE s == issued[t].slot
  <2>1. s \in Slots /\ issued[t].generation \in Nat /\ s \notin wrapped /\ generation[s] \in Nat
    BY HandleOfToken DEF Handles, Invalidate, TypeOK
  <2>2. /\ issued[t].generation <= generation[s]
        /\ hooked[t] = 1 => issued[t].generation # generation[s]
    BY <2>1, <1>2 DEF Consistent, GenerationsAdvance
  <2>3. CASE occupied[s]
    BY <2>1, <2>2, <2>3, <1>3
  <2>4. CASE ~occupied[s]
    <3>1. t \notin HeldTokens
      BY <2>4, <1>1 DEF Consistent, TokensConsistent
    <3> QED
      BY <2>1, <2>2, <2>4, <3>1, <1>2, <1>3
  <2> QED
    BY <2>3, <2>4
<1> QED
  BY <1>4, <1>5, <1>6 DEF Consistent

LEMMA DestroyConsistent ==
  ASSUME TypeOK, Consistent, Destroy
  PROVE  Consistent'
<1>1. \A t \in Tokens : t \in HeldTokens <=> issued[t] # NoHandle /\ hooked[t] = 0
  BY HeldTokensFacts DEF Consistent
<1>2. \A t \in Tokens : hooked'[t] = IF t \in HeldTokens THEN 1 ELSE hooked[t]
  BY <1>1 DEF Destroy, DestroyTokens
<1>3. SlotsConsistent'
  BY DEF Destroy, SlotsConsistent, Allocated
<1>4. TokensConsistent' /\ GenerationsAdvance'
  BY <1>1, <1>2 DEF Destroy, Consistent, TokensConsistent, GenerationsAdvance
<1> QED
  BY <1>3, <1>4 DEF Consistent

(* One step keeps slots and tokens consistent.                             *)
LEMMA NextConsistent ==
  TypeOK /\ FreeListComplete /\ Consistent /\ [Next]_vars => Consistent'
<1> SUFFICES ASSUME TypeOK, FreeListComplete, Consistent, [Next]_vars
             PROVE  Consistent'
  OBVIOUS
<1>1. ASSUME NEW h \in Handles, Retain(h) PROVE Consistent'
  <2>1. references[h.slot] + 1 \in Nat /\ references[h.slot] + 1 > 0
    BY <1>1 DEF Retain, TypeOK, Handles
  <2> QED
    BY <1>1, <2>1, CountConsistent DEF Retain
<1>2. ASSUME NEW h \in Handles, ReleaseShared(h) PROVE Consistent'
  <2>1. references[h.slot] - 1 \in Nat /\ references[h.slot] - 1 > 0
    BY <1>2 DEF ReleaseShared, TypeOK, Handles
  <2> QED
    BY <1>2, <2>1, CountConsistent DEF ReleaseShared
<1>3. CASE UNCHANGED vars
  BY <1>3 DEF vars, slotVars, Consistent, SlotsConsistent, TokensConsistent,
     GenerationsAdvance, Allocated
<1> QED
  BY <1>1, <1>2, <1>3, InsertReusedConsistent, InsertAppendedConsistent,
     ReleaseLastConsistent, InvalidateConsistent, DestroyConsistent DEF Next

-----------------------------------------------------------------------------
(* A duplicate-free list of slots is no longer than the table, and shorter *)
(* when some slot is not on it.                                            *)
LEMMA FreeListBound ==
  ASSUME NEW n \in Nat, NEW fl \in [1..n -> Slots], NEW s \in Slots,
         \A i, j \in 1..n : fl[i] = fl[j] => i = j,
         \A i \in 1..n : fl[i] # s
  PROVE  n + 1 \in 0..SlotLimit
<1> DEFINE g == [i \in 1..(n + 1) |-> IF i = n + 1 THEN s ELSE fl[i]]
<1>1. g \in [1..(n + 1) -> Slots]
  OBVIOUS
<1>2. \A i, j \in 1..(n + 1) : g[i] = g[j] => i = j
  OBVIOUS
<1> HIDE DEF g
<1>3. IsFiniteSet(1..(n + 1)) /\ Cardinality(1..(n + 1)) = n + 1
  <2>1. 1 \in Int /\ n + 1 \in Int /\ ~(1 > n + 1) /\ (n + 1) - 1 + 1 = n + 1
    OBVIOUS
  <2> QED
    BY <2>1, FS_Interval, Zenon
<1>4. IsFiniteSet(Slots) /\ Cardinality(Slots) = SlotLimit
  <2>1. 0 \in Int /\ SlotLimit - 1 \in Int /\ ~(0 > SlotLimit - 1) /\ (SlotLimit - 1) - 0 + 1 = SlotLimit
    BY LimitsAssumption
  <2> QED
    BY <2>1, FS_Interval, Zenon DEF Slots
<1>5. ~(Cardinality(Slots) < Cardinality(1..(n + 1)))
  <2> SUFFICES ASSUME Cardinality(Slots) < Cardinality(1..(n + 1)) PROVE FALSE
    OBVIOUS
  <2>1. \E x, y \in 1..(n + 1) : x # y /\ g[x] = g[y]
    BY <1>1, <1>3, <1>4, FS_PigeonHole
  <2> QED
    BY <2>1, <1>2
<1> QED
  BY <1>3, <1>4, <1>5, LimitsAssumption

(* A slot popped from the free list leaves the rest of the list.           *)
LEMMA PopFreeList ==
  ASSUME TypeOK, FreeListComplete, NEW t \in Tokens, NEW ty \in Types, InsertReused(t, ty)
  PROVE  FreeListComplete'
<1>1. PICK n \in 0..SlotLimit : \E fl \in [1..n -> Slots] : IsFreeList(fl, n)
  BY DEF FreeListComplete
<1>2. PICK fl \in [1..n -> Slots] : IsFreeList(fl, n)
  BY <1>1
<1>3. n > 0 /\ freeHead = fl[1] /\ n - 1 \in 0..SlotLimit /\ 1 \in 1..n
  <2>1. n # 0 /\ freeHead = fl[1]
    BY <1>2 DEF IsFreeList, InsertReused
  <2> QED
    BY <2>1, LimitsAssumption
<1> DEFINE rest == [i \in 1..(n - 1) |-> fl[i + 1]]
<1>4. rest \in [1..(n - 1) -> Slots] /\ \A i \in 1..(n - 1) : rest[i] = fl[i + 1] /\ i + 1 \in 1..n
  BY <1>3
<1>5. \A i \in 1..(n - 1) : rest[i] # fl[1]
  BY <1>2, <1>3, <1>4 DEF IsFreeList
<1>6. IsFreeList(rest, n - 1)'
  <2> USE <1>3, <1>4
  <2>1. /\ freeHead' = nextFree[fl[1]]
        /\ nextFree' = [nextFree EXCEPT ![fl[1]] = NoSlot]
        /\ occupied' = [occupied EXCEPT ![fl[1]] = TRUE]
        /\ slotCount' = slotCount
    BY DEF InsertReused, PopFree, Fill
  <2>2. freeHead' = IF n - 1 = 0 THEN NoSlot ELSE rest[1]
    BY <1>2, <2>1 DEF IsFreeList
  <2>3. ASSUME NEW i \in 1..(n - 1)
        PROVE  nextFree'[rest[i]] = IF i = n - 1 THEN NoSlot ELSE rest[i + 1]
    <3>1. nextFree'[rest[i]] = nextFree[fl[i + 1]]
      BY <2>1, <1>5 DEF TypeOK
    <3>2. nextFree[fl[i + 1]] = IF i + 1 = n THEN NoSlot ELSE fl[i + 2]
      BY <1>2 DEF IsFreeList
    <3> QED
      BY <3>1, <3>2
  <2>4. \A i, j \in 1..(n - 1) : rest[i] = rest[j] => i = j
    <3> SUFFICES ASSUME NEW i \in 1..(n - 1), NEW j \in 1..(n - 1), rest[i] = rest[j]
                 PROVE  i = j
      OBVIOUS
    <3>1. i + 1 = j + 1
      BY <1>2 DEF IsFreeList
    <3> QED
      BY <3>1
  <2>5. {rest[i] : i \in 1..(n - 1)} = {s \in Allocated' : ~occupied'[s]}
    <3>1. {fl[i] : i \in 1..n} = {s \in Allocated : ~occupied[s]}
      BY <1>2 DEF IsFreeList
    <3>2. ASSUME NEW s \in Allocated', ~occupied'[s] PROVE \E i \in 1..(n - 1) : rest[i] = s
      <4>1. s \in Allocated /\ ~occupied[s] /\ s # fl[1]
        BY <3>2, <2>1, <1>2 DEF Allocated, TypeOK
      <4>2. PICK i \in 1..n : fl[i] = s
        BY <4>1, <3>1
      <4>3. i - 1 \in 1..(n - 1) /\ (i - 1) + 1 = i
        BY <4>1, <4>2
      <4> QED
        BY <4>2, <4>3
    <3>3. ASSUME NEW i \in 1..(n - 1) PROVE rest[i] \in Allocated' /\ ~occupied'[rest[i]]
      <4>1. rest[i] \in Allocated /\ ~occupied[rest[i]]
        BY <3>1
      <4> QED
        BY <4>1, <2>1, <1>5 DEF Allocated, TypeOK
    <3> QED
      BY <3>2, <3>3
  <2> QED
    BY <2>2, <2>3, <2>4, <2>5 DEF IsFreeList
<1> QED
  BY <1>3, <1>4, <1>6 DEF FreeListComplete

(* A reset slot goes in front of the list.                                 *)
LEMMA PushFreeList ==
  ASSUME TypeOK, FreeListComplete, NEW h \in Handles, ReleaseLast(h)
  PROVE  FreeListComplete'
<1>1. PICK n \in 0..SlotLimit : \E fl \in [1..n -> Slots] : IsFreeList(fl, n)
  BY DEF FreeListComplete
<1>2. PICK fl \in [1..n -> Slots] : IsFreeList(fl, n)
  BY <1>1
<1> DEFINE s == h.slot
<1>3. s \in Slots /\ s \in Allocated /\ occupied[s]
  BY OkFacts DEF ReleaseLast, TypeOK
<1>4. \A i \in 1..n : fl[i] # s
  BY <1>2, <1>3 DEF IsFreeList
<1>5. n \in Nat /\ n + 1 \in 0..SlotLimit
  BY <1>2, <1>3, <1>4, FreeListBound DEF IsFreeList
<1> DEFINE longer == [i \in 1..(n + 1) |-> IF i = 1 THEN s ELSE fl[i - 1]]
<1>6. longer \in [1..(n + 1) -> Slots]
  BY <1>3, <1>5
<1>7. /\ longer[1] = s /\ 1 \in 1..(n + 1)
      /\ \A i \in 1..n : longer[i + 1] = fl[i] /\ i + 1 \in 1..(n + 1)
      /\ \A i \in 1..(n + 1) : i = 1 \/ (i - 1 \in 1..n /\ longer[i] = fl[i - 1])
  BY <1>5
<1> HIDE DEF longer
<1>8. IsFreeList(longer, n + 1)'
  <2>1. /\ freeHead' = s
        /\ nextFree' = [nextFree EXCEPT ![s] = freeHead]
        /\ occupied' = [occupied EXCEPT ![s] = FALSE]
        /\ slotCount' = slotCount
    BY DEF ReleaseLast
  <2>2. freeHead' = IF n + 1 = 0 THEN NoSlot ELSE longer[1]
    BY <2>1, <1>5, <1>7
  <2>3. ASSUME NEW i \in 1..(n + 1)
        PROVE  nextFree'[longer[i]] = IF i = n + 1 THEN NoSlot ELSE longer[i + 1]
    <3>1. CASE i = 1
      BY <3>1, <2>1, <1>2, <1>3, <1>5, <1>7 DEF IsFreeList, TypeOK
    <3>2. CASE i # 1
      <4>1. i - 1 \in 1..n /\ longer[i] = fl[i - 1]
        BY <3>2, <1>7
      <4>2. nextFree'[longer[i]] = nextFree[fl[i - 1]]
        BY <4>1, <2>1, <1>4 DEF TypeOK
      <4>3. nextFree[fl[i - 1]] = IF i - 1 = n THEN NoSlot ELSE fl[(i - 1) + 1]
        BY <4>1, <1>2 DEF IsFreeList
      <4> QED
        BY <4>2, <4>3, <3>2, <1>5, <1>7
    <3> QED
      BY <3>1, <3>2
  <2>4. \A i, j \in 1..(n + 1) : longer[i] = longer[j] => i = j
    <3> SUFFICES ASSUME NEW i \in 1..(n + 1), NEW j \in 1..(n + 1), longer[i] = longer[j]
                 PROVE  i = j
      OBVIOUS
    <3>1. CASE i = 1 \/ j = 1
      BY <3>1, <1>4, <1>7
    <3>2. CASE i # 1 /\ j # 1
      <4>1. i - 1 = j - 1
        BY <3>2, <1>2, <1>7 DEF IsFreeList
      <4> QED
        BY <4>1
    <3> QED
      BY <3>1, <3>2
  <2>5. {longer[i] : i \in 1..(n + 1)} = {r \in Allocated' : ~occupied'[r]}
    <3>1. {fl[i] : i \in 1..n} = {r \in Allocated : ~occupied[r]}
      BY <1>2 DEF IsFreeList
    <3>2. ASSUME NEW r \in Allocated', ~occupied'[r] PROVE \E i \in 1..(n + 1) : longer[i] = r
      <4>1. CASE r = s
        BY <4>1, <1>7
      <4>2. CASE r # s
        <5>1. r \in Allocated /\ ~occupied[r]
          BY <3>2, <4>2, <2>1 DEF Allocated, TypeOK, Slots
        <5> QED
          BY <5>1, <3>1, <1>7
      <4> QED
        BY <4>1, <4>2
    <3>3. ASSUME NEW i \in 1..(n + 1) PROVE longer[i] \in Allocated' /\ ~occupied'[longer[i]]
      <4>1. CASE i = 1
        BY <4>1, <1>3, <1>7, <2>1 DEF Allocated, TypeOK
      <4>2. CASE i # 1
        <5>1. longer[i] \in Allocated /\ ~occupied[longer[i]] /\ longer[i] # s
          BY <4>2, <1>4, <1>7, <3>1
        <5> QED
          BY <5>1, <2>1 DEF Allocated, TypeOK, Slots
      <4> QED
        BY <4>1, <4>2
    <3> QED
      BY <3>2, <3>3
  <2> QED
    BY <2>2, <2>3, <2>4, <2>5 DEF IsFreeList
<1> QED
  BY <1>5, <1>6, <1>8 DEF FreeListComplete

(* Invalidation leaves every allocated slot on the list, in order.         *)
LEMMA RebuildFreeList ==
  ASSUME TypeOK, SlotsConsistent, Invalidate
  PROVE  FreeListComplete'
<1> DEFINE all == [i \in 1..slotCount |-> i - 1]
<1>1. slotCount \in 0..SlotLimit /\ all \in [1..slotCount -> Slots]
      /\ \A i \in 1..slotCount : all[i] = i - 1 /\ i - 1 \in Allocated /\ i - 1 \in Slots
  BY LimitsAssumption DEF TypeOK, Slots, Allocated
<1>2. IsFreeList(all, slotCount)'
  <2>1. /\ freeHead' = IF slotCount = 0 THEN NoSlot ELSE 0
        /\ slotCount' = slotCount
        /\ \A s \in Allocated : s \in Slots /\ ~occupied'[s]
              /\ nextFree'[s] = IF s + 1 = slotCount THEN NoSlot ELSE s + 1
    <3>1. \A s \in Allocated : s \in Slots
      BY LimitsAssumption DEF TypeOK, Slots, Allocated
    <3>2. \A s \in Allocated : nextFree'[s] = IF s + 1 = slotCount THEN NoSlot ELSE s + 1
      BY <3>1 DEF Invalidate
    <3>3. \A s \in Allocated : ~occupied'[s]
      BY <3>1 DEF Invalidate
    <3> QED
      BY <3>1, <3>2, <3>3 DEF Invalidate
  <2>2. freeHead' = IF slotCount = 0 THEN NoSlot ELSE all[1]
    BY <1>1, <2>1
  <2>3. \A i \in 1..slotCount : nextFree'[all[i]] = IF i = slotCount THEN NoSlot ELSE all[i + 1]
    BY <1>1, <2>1
  <2>4. \A i, j \in 1..slotCount : all[i] = all[j] => i = j
    BY <1>1
  <2>5. {all[i] : i \in 1..slotCount} = {s \in Allocated' : ~occupied'[s]}
    <3>1. \A s \in Allocated : s + 1 \in 1..slotCount /\ all[s + 1] = s
      BY <1>1 DEF Allocated
    <3> QED
      BY <1>1, <2>1, <3>1 DEF Allocated
  <2> QED
    BY <2>1, <2>2, <2>3, <2>4, <2>5 DEF IsFreeList
<1> QED
  BY <1>1, <1>2 DEF FreeListComplete, Invalidate

(* What the free list depends on.                                          *)
LEMMA FreeListUnchanged ==
  ASSUME FreeListComplete, UNCHANGED <<freeHead, nextFree, occupied, slotCount>>
  PROVE  FreeListComplete'
BY DEF FreeListComplete, IsFreeList, Allocated

LEMMA EmptyFreeList ==
  ASSUME freeHead' = NoSlot, \A s \in Allocated' : occupied'[s]
  PROVE  FreeListComplete'
<1>1. 0 \in 0..SlotLimit /\ 1..0 = {}
  BY LimitsAssumption
<1> DEFINE none == [i \in 1..0 |-> 0]
<1>2. none \in [1..0 -> Slots]
  BY <1>1
<1>3. IsFreeList(none, 0)'
  BY <1>1 DEF IsFreeList
<1> QED
  BY <1>1, <1>2, <1>3 DEF FreeListComplete

(* A slot appended to a table without free slots is occupied at once.      *)
LEMMA AppendFreeList ==
  ASSUME TypeOK, FreeListComplete, NEW t \in Tokens, NEW ty \in Types, InsertAppended(t, ty)
  PROVE  FreeListComplete'
<1>1. PICK n \in 0..SlotLimit : \E fl \in [1..n -> Slots] : IsFreeList(fl, n)
  BY DEF FreeListComplete
<1>2. PICK fl \in [1..n -> Slots] : IsFreeList(fl, n)
  BY <1>1
<1>3. n = 0
  <2> SUFFICES ASSUME n # 0 PROVE FALSE
    OBVIOUS
  <2>1. 1 \in 1..n /\ fl[1] \in Slots /\ freeHead = fl[1]
    BY <1>2 DEF IsFreeList
  <2> QED
    BY <2>1, ZeroFacts DEF InsertAppended
<1>4. \A s \in Allocated : occupied[s]
  BY <1>2, <1>3 DEF IsFreeList
<1>5. \A s \in Allocated' : occupied'[s]
  <2>1. /\ slotCount' = slotCount + 1 /\ occupied' = [occupied EXCEPT ![slotCount] = TRUE]
        /\ slotCount \in Nat /\ slotCount < SlotLimit
    BY DEF InsertAppended, Fill, TypeOK
  <2>2. \A s \in Allocated' : s \in Slots /\ (s \in Allocated \/ s = slotCount)
    BY <2>1, LimitsAssumption DEF Allocated, Slots
  <2> QED
    BY <2>1, <2>2, <1>4 DEF TypeOK
<1> QED
  BY <1>5, EmptyFreeList DEF InsertAppended

LEMMA NextFreeList ==
  TypeOK /\ SlotsConsistent /\ FreeListComplete /\ [Next]_vars => FreeListComplete'
<1> SUFFICES ASSUME TypeOK, SlotsConsistent, FreeListComplete, [Next]_vars
             PROVE  FreeListComplete'
  OBVIOUS
<1>1. ASSUME NEW h \in Handles, Retain(h) \/ ReleaseShared(h) PROVE FreeListComplete'
  BY <1>1, FreeListUnchanged DEF Retain, ReleaseShared
<1>2. CASE Destroy
  <2>1. Allocated' = {}
    BY <1>2 DEF Destroy, Allocated
  <2> QED
    BY <1>2, <2>1, EmptyFreeList DEF Destroy
<1>3. CASE UNCHANGED vars
  BY <1>3, FreeListUnchanged DEF vars, slotVars
<1> QED
  BY <1>1, <1>2, <1>3, PopFreeList, AppendFreeList, PushFreeList, RebuildFreeList DEF Next

-----------------------------------------------------------------------------
(* The inductive invariant: types, slots and tokens that point at each     *)
(* other, generations that only advance, and a complete free list.         *)
IInv == TypeOK /\ Consistent /\ FreeListComplete

THEOREM InductiveInvariant == Spec => []IInv
<1>1. Init => Consistent /\ FreeListComplete
  <2> SUFFICES ASSUME Init PROVE FreeListComplete
    BY InitConsistent
  <2>1. 0 \in 0..SlotLimit /\ 1..0 = {} /\ Allocated = {}
    BY LimitsAssumption DEF Init, Allocated
  <2> DEFINE none == [i \in 1..0 |-> 0]
  <2>2. none \in [1..0 -> Slots]
    BY <2>1
  <2>3. IsFreeList(none, 0)
    BY <2>1 DEF Init, IsFreeList
  <2> QED
    BY <2>1, <2>2, <2>3 DEF FreeListComplete
<1>2. TypeOK /\ Consistent /\ FreeListComplete /\ [Next]_vars => (Consistent /\ FreeListComplete)'
  BY NextConsistent, NextFreeList DEF Consistent
<1> QED
  BY <1>1, <1>2, TypeCorrect, PTL DEF Spec, IInv

(* No reset pushes a slot twice, no reservation loses one and the rebuild  *)
(* at invalidation keeps them all, for tables of every size.               *)
THEOREM FreeListIsComplete == Spec => []FreeListComplete
BY InductiveInvariant, PTL DEF IInv

(* Each token belongs to one slot and its destroy hook runs exactly once.  *)
THEOREM TokensAreOwned == Spec => []TokenOwnership
<1>1. IInv => TokenOwnership
  <2> SUFFICES ASSUME IInv PROVE TokenOwnership
    OBVIOUS
  <2>1. \A s \in Allocated : s \in Slots
    BY LimitsAssumption DEF IInv, Allocated, Slots, TypeOK
  <2>2. ASSUME NEW t \in Tokens
        PROVE  hooked[t] = IF issued[t] = NoHandle \/ Live(t) THEN 0 ELSE 1
    <3>1. CASE issued[t] = NoHandle
      BY <3>1 DEF IInv, Consistent, TokensConsistent
    <3>2. CASE Live(t)
      BY <2>1, <3>2 DEF IInv, Consistent, SlotsConsistent, Live
    <3>3. CASE issued[t] # NoHandle /\ ~Live(t)
      <4>1. hooked[t] # 0
        <5> SUFFICES ASSUME hooked[t] = 0 PROVE FALSE
          OBVIOUS
        <5>1. issued[t].slot \in Slots /\ occupied[issued[t].slot] /\ token[issued[t].slot] = t
          BY <3>3, HandleOfToken DEF IInv, Consistent, TokensConsistent
        <5> QED
          BY <5>1, <3>3 DEF IInv, Consistent, SlotsConsistent, Live
      <4> QED
        BY <4>1, <3>3 DEF IInv, Consistent, TokensConsistent
    <3> QED
      BY <3>1, <3>2, <3>3
  <2> QED
    BY <2>1, <2>2 DEF TokenOwnership, IInv, Consistent, SlotsConsistent
<1> QED
  BY <1>1, InductiveInvariant, PTL

(* A handle whose token is gone is refused until its slot's generation     *)
(* wraps, however many slots, tokens and references there are.             *)
THEOREM StaleHandlesAreRejected == Spec => []StaleHandleRejected
<1>1. IInv => StaleHandleRejected
  <2> SUFFICES ASSUME IInv, NEW t \in Tokens, hooked[t] > 0, ~destroyed,
                      issued[t].slot \notin wrapped
               PROVE  "ok" \notin {RetainStatus(issued[t]), ReleaseStatus(issued[t]),
                                   ResolveStatus(issued[t], 0)}
    BY DEF StaleHandleRejected
  <2> DEFINE h == issued[t]
  <2>1. h # NoHandle /\ hooked[t] = 1
    BY DEF IInv, Consistent, TokensConsistent
  <2>2. h \in Handles /\ h.generation # generation[h.slot]
    BY <2>1, HandleOfToken DEF IInv, Consistent, GenerationsAdvance
  <2>3. ReleaseStatus(h) # "ok"
    BY <2>2, OkFacts DEF IInv, TypeOK
  <2>4. RetainStatus(h) # "ok"
    BY <2>2, <2>3, RetainIsRelease
  <2>5. ResolveStatus(h, 0) # "ok"
    BY <2>3 DEF ReleaseStatus, ResolveStatus
  <2> QED
    BY <2>3, <2>4, <2>5
<1> QED
  BY <1>1, InductiveInvariant, PTL

-----------------------------------------------------------------------------
(* The refinement of the handle space.                                     *)
absState == IF destroyed THEN "destroyed" ELSE IF invalidated THEN "invalidated" ELSE "open"
absPhase == [t \in Tokens |-> IF issued[t] = NoHandle THEN "new"
                              ELSE IF hooked[t] = 0 THEN "live" ELSE "dead"]
absRefs == [t \in Tokens |-> IF issued[t] # NoHandle /\ hooked[t] = 0
                             THEN references[issued[t].slot] ELSE 0]

(* A handle that is accepted stands for the one token now in its slot.     *)
LEMMA AcceptedHandle ==
  ASSUME IInv, NEW h \in Handles, ReleaseStatus(h) = "ok"
  PROVE  LET t == token[h.slot] IN
         /\ t \in Tokens
         /\ issued[t] # NoHandle /\ hooked[t] = 0 /\ issued[t].slot = h.slot
         /\ \A u \in Tokens : issued[u] # NoHandle /\ hooked[u] = 0 /\ u # t
              => issued[u].slot # h.slot
<1>1. h.slot \in Slots /\ occupied[h.slot]
  BY OkFacts DEF IInv, TypeOK
<1> QED
  BY <1>1, OccupiedFacts DEF IInv, Consistent, TokensConsistent

LEMMA InsertRefines ==
  ASSUME IInv, NEW t \in Tokens, NEW s \in Slots, NEW g, NEW ty,
         ~destroyed, ~invalidated, issued[t] = NoHandle, ~occupied[s], Fill(s, g, ty, t)
  PROVE  Space!Insert(t)
<1>1. issued'[t] # NoHandle
  <2>1. issued'[t] = [slot |-> s, generation |-> g, realm |-> "own"]
    BY DEF Fill, IInv, TypeOK
  <2>2. issued'[t].slot = s /\ NoHandle.slot = NoSlot
    BY <2>1 DEF NoHandle
  <2> QED
    BY <2>2, ZeroFacts
<1>2. hooked[t] = 0 /\ hooked' = hooked /\ issued'[t].slot = s
      /\ \A u \in Tokens : u # t => issued'[u] = issued[u]
  BY DEF Fill, IInv, Consistent, TokensConsistent, TypeOK
<1>3. absPhase[t] = "new" /\ absPhase' = [absPhase EXCEPT ![t] = "live"]
  BY <1>1, <1>2 DEF absPhase
<1>4. absRefs' = [absRefs EXCEPT ![t] = 1]
  <2>1. ASSUME NEW u \in Tokens, u # t, issued[u] # NoHandle, hooked[u] = 0
        PROVE  references'[issued[u].slot] = references[issued[u].slot]
    <3>1. issued[u].slot \in Slots /\ issued[u].slot # s
      BY <2>1, HandleOfToken DEF IInv, Consistent, TokensConsistent
    <3> QED
      BY <3>1 DEF Fill, IInv, TypeOK
  <2>2. references'[s] = 1
    BY DEF Fill, IInv, TypeOK
  <2> QED
    BY <1>1, <1>2, <2>1, <2>2 DEF absRefs
<1>5. absState = "open" /\ absState' = "open"
  BY DEF absState, Fill
<1> QED
  BY <1>3, <1>4, <1>5 DEF Space!Insert, absState, absPhase, absRefs

LEMMA CountRefines ==
  ASSUME IInv, NEW h \in Handles, ReleaseStatus(h) = "ok", ~destroyed,
         NEW n, references' = [references EXCEPT ![h.slot] = n],
         UNCHANGED <<issued, hooked, invalidated, destroyed>>
  PROVE  LET t == token[h.slot] IN
         /\ t \in Tokens /\ absState = "open" /\ absState' = "open"
         /\ absPhase[t] = "live" /\ absPhase' = absPhase
         /\ absRefs[t] = references[h.slot] /\ absRefs' = [absRefs EXCEPT ![t] = n]
<1> DEFINE t == token[h.slot]
<1>1. h.slot \in Slots /\ ~invalidated
  BY OkFacts DEF IInv, TypeOK
<1>2. /\ t \in Tokens
      /\ issued[t] # NoHandle /\ hooked[t] = 0 /\ issued[t].slot = h.slot
      /\ \A u \in Tokens : issued[u] # NoHandle /\ hooked[u] = 0 /\ u # t
           => issued[u].slot \in Slots /\ issued[u].slot # h.slot
  BY AcceptedHandle, HandleOfToken DEF IInv
<1>3. absPhase[t] = "live" /\ absPhase' = absPhase
  BY <1>2 DEF absPhase
<1>4. absRefs[t] = references[h.slot] /\ absRefs' = [absRefs EXCEPT ![t] = n]
  BY <1>1, <1>2 DEF absRefs, IInv, TypeOK
<1> QED
  BY <1>1, <1>2, <1>3, <1>4 DEF absState

LEMMA RetainRefines ==
  ASSUME IInv, NEW h \in Handles, Retain(h)
  PROVE  \E t \in Tokens : Space!Retain(t)
<1>1. ReleaseStatus(h) = "ok" /\ h.slot \in Slots /\ references[h.slot] # MaxReferences
  BY RetainIsRelease DEF Retain, Handles
<1>2. references[h.slot] < MaxReferences
  BY <1>1, LimitsAssumption DEF IInv, TypeOK
<1> QED
  BY <1>1, <1>2, CountRefines DEF Retain, Space!Retain, absState, absPhase, absRefs

LEMMA ReleaseSharedRefines ==
  ASSUME IInv, NEW h \in Handles, ReleaseShared(h)
  PROVE  \E t \in Tokens : Space!Release(t)
<1>1. ReleaseStatus(h) = "ok" /\ references[h.slot] # 1
  BY DEF ReleaseShared, IInv, TypeOK, Handles
<1> DEFINE t == token[h.slot]
<1>2. /\ t \in Tokens /\ absState = "open" /\ absState' = "open"
      /\ absPhase[t] = "live" /\ absPhase' = absPhase
      /\ absRefs[t] = references[h.slot] /\ absRefs' = [absRefs EXCEPT ![t] = references[h.slot] - 1]
  BY <1>1, CountRefines DEF ReleaseShared
<1>3. /\ absPhase' = IF absRefs[t] = 1 THEN [absPhase EXCEPT ![t] = "dead"] ELSE absPhase
      /\ absRefs' = [absRefs EXCEPT ![t] = absRefs[t] - 1]
  BY <1>1, <1>2
<1> QED
  BY <1>2, <1>3, Zenon DEF Space!Release, absState, absPhase, absRefs

LEMMA ReleaseLastRefines ==
  ASSUME IInv, NEW h \in Handles, ReleaseLast(h)
  PROVE  \E t \in Tokens : Space!Release(t)
<1> DEFINE t == token[h.slot]
<1>1. ReleaseStatus(h) = "ok" /\ references' = [references EXCEPT ![h.slot] = 0] /\ ~destroyed
      /\ references[h.slot] = 1
      /\ hooked' = [u \in Tokens |-> IF u = t THEN hooked[u] + 1 ELSE hooked[u]]
      /\ UNCHANGED <<issued, invalidated, destroyed>>
  BY DEF ReleaseLast, DestroyTokens
<1>2. h.slot \in Slots /\ ~invalidated
  BY <1>1, OkFacts DEF IInv, TypeOK
<1>3. /\ t \in Tokens
      /\ issued[t] # NoHandle /\ hooked[t] = 0 /\ issued[t].slot = h.slot
      /\ \A u \in Tokens : issued[u] # NoHandle /\ hooked[u] = 0 /\ u # t
           => issued[u].slot \in Slots /\ issued[u].slot # h.slot
  BY <1>1, AcceptedHandle, HandleOfToken DEF IInv
<1>4. absPhase[t] = "live" /\ absPhase' = [absPhase EXCEPT ![t] = "dead"]
  BY <1>1, <1>3 DEF absPhase
<1>5. absRefs[t] = 1 /\ absRefs' = [absRefs EXCEPT ![t] = 0]
  BY <1>1, <1>2, <1>3 DEF absRefs, IInv, TypeOK
<1>6. absState = "open" /\ absState' = "open"
  BY <1>1, <1>2 DEF absState
<1>7. /\ absPhase' = IF absRefs[t] = 1 THEN [absPhase EXCEPT ![t] = "dead"] ELSE absPhase
      /\ absRefs' = [absRefs EXCEPT ![t] = absRefs[t] - 1]
  BY <1>4, <1>5
<1> QED
  BY <1>3, <1>4, <1>6, <1>7, Zenon DEF Space!Release, absState, absPhase, absRefs

LEMMA CloseRefines ==
  ASSUME IInv, NEW next, absState' = next, DestroyTokens(HeldTokens), UNCHANGED issued
  PROVE  Space!Close(next)
<1>1. \A t \in Tokens : t \in HeldTokens <=> issued[t] # NoHandle /\ hooked[t] = 0
  BY HeldTokensFacts DEF IInv, Consistent
<1>2. \A t \in Tokens : issued[t] = NoHandle \/ hooked'[t] # 0
  BY <1>1 DEF DestroyTokens, IInv, TypeOK
<1>3. \A t \in Tokens : issued[t] = NoHandle => hooked'[t] = hooked[t]
  BY <1>1 DEF DestroyTokens
<1>4. absPhase' = [t \in Tokens |-> IF absPhase[t] = "live" THEN "dead" ELSE absPhase[t]]
  BY <1>2, <1>3 DEF absPhase
<1>5. absRefs' = [t \in Tokens |-> 0]
  BY <1>2 DEF absRefs
<1> QED
  BY <1>4, <1>5 DEF Space!Close, absState, absPhase, absRefs

(* The table implements the handle space: each of its steps is one of that *)
(* specification's, or changes nothing it can see.                         *)
THEOREM RefinesHandleSpace == Spec => ImplementsHandleSpace
<1>1. Init => Space!Init
  BY DEF Init, Space!Init
<1>2. IInv /\ [Next]_vars => [Space!Next]_(Space!vars)
  <2> SUFFICES ASSUME IInv, [Next]_vars PROVE [Space!Next]_(Space!vars)
    OBVIOUS
  <2>1. ASSUME NEW t \in Tokens, NEW ty \in Types, InsertReused(t, ty) PROVE Space!Next
    <3>1. freeHead \in Slots /\ ~occupied[freeHead]
      BY <2>1, FreeHeadFacts DEF InsertReused, IInv, TypeOK
    <3> QED
      BY <2>1, <3>1, InsertRefines DEF InsertReused, Space!Next
  <2>2. ASSUME NEW t \in Tokens, NEW ty \in Types, InsertAppended(t, ty) PROVE Space!Next
    <3>1. slotCount \in Slots /\ slotCount \notin Allocated
      BY <2>2, LimitsAssumption DEF InsertAppended, IInv, TypeOK, Slots, Allocated
    <3>2. ~occupied[slotCount]
      BY <3>1 DEF IInv, Consistent, SlotsConsistent
    <3> QED
      BY <2>2, <3>1, <3>2, InsertRefines DEF InsertAppended, Space!Next
  <2>3. ASSUME NEW h \in Handles, Retain(h) PROVE Space!Next
    BY <2>3, RetainRefines DEF Space!Next
  <2>4. ASSUME NEW h \in Handles, ReleaseShared(h) PROVE Space!Next
    BY <2>4, ReleaseSharedRefines DEF Space!Next
  <2>5. ASSUME NEW h \in Handles, ReleaseLast(h) PROVE Space!Next
    BY <2>5, ReleaseLastRefines DEF Space!Next
  <2>6. CASE Invalidate
    <3>1. absState = "open" /\ absState' = "invalidated"
      BY <2>6 DEF Invalidate, absState
    <3>2. Space!Close("invalidated")
      BY <2>6, <3>1, CloseRefines DEF Invalidate
    <3> QED
      BY <3>1, <3>2 DEF Space!Next, absState
  <2>7. CASE Destroy
    <3>1. absState # "destroyed" /\ absState' = "destroyed"
      BY <2>7 DEF Destroy, absState
    <3>2. Space!Close("destroyed")
      BY <2>7, <3>1, CloseRefines DEF Destroy
    <3> QED
      BY <3>1, <3>2 DEF Space!Next, absState
  <2>8. CASE UNCHANGED vars
    BY <2>8 DEF vars, slotVars, Space!vars
  <2> QED
    BY <2>1, <2>2, <2>3, <2>4, <2>5, <2>6, <2>7, <2>8 DEF Next
<1> QED
  BY <1>1, <1>2, InductiveInvariant, PTL DEF Spec, ImplementsHandleSpace, Space!Spec
=============================================================================
