---------------------------- MODULE HandleTable ----------------------------
(***************************************************************************)
(* The generational handle table of the Chromium runtime                   *)
(* (nts_handle_table.c).  A realm puts native tokens into slots and hands  *)
(* out {slot, generation, realm} triples; freed slots go on an intrusive   *)
(* free list and change generation, so a handle that outlived its slot no  *)
(* longer matches it.                                                      *)
(*                                                                         *)
(* The three limits are UINT32_MAX in the code; they are parameters so     *)
(* that TLC reaches saturation and the wrap of a generation.  A call that  *)
(* returns an error changes nothing in the table and is a stuttering step; *)
(* the ...Status operators say which calls those are.                      *)
(***************************************************************************)
EXTENDS Naturals

CONSTANTS Tokens, NoToken,
          Types,           \* type ids (0 is "any type" and is not one of them)
          Accepts,         \* the type_accepts hook: pairs <<actual, expected>>
          SlotLimit, MaxGeneration, MaxReferences

ASSUME LimitsAssumption ==
  /\ SlotLimit \in Nat \ {0}
  /\ MaxGeneration \in Nat \ {0}
  /\ MaxReferences \in Nat \ {0}

ASSUME TokensAssumption == NoToken \notin Tokens
ASSUME TypesAssumption == Types \subseteq Nat \ {0}

Slots == 0 .. SlotLimit - 1
NoSlot == SlotLimit                       \* NTS_HANDLE_NO_SLOT
Realms == {"own", "other"}
Handles == [slot : Slots, generation : 0..MaxGeneration, realm : Realms]
NoHandle == [slot |-> NoSlot, generation |-> 0, realm |-> "own"]

VARIABLES
  generation, references, typeId, token, nextFree, occupied,  \* NtsHandleSlot
  slotCount, freeHead, invalidated,                           \* NtsHandleTable
  destroyed,    \* nts_handle_table_destroy has run: the owner is gone
  issued,       \* history: the handle insert returned for each token
  hooked,       \* history: how often destroy_token ran for each token
  wrapped       \* history: the slots whose generation came round again

slotVars == <<generation, references, typeId, token, nextFree, occupied>>
vars == <<slotVars, slotCount, freeHead, invalidated, destroyed,
          issued, hooked, wrapped>>

Allocated == 0 .. slotCount - 1

TypeOK ==
  /\ generation \in [Slots -> 0..MaxGeneration]
  /\ references \in [Slots -> 0..MaxReferences]
  /\ typeId \in [Slots -> Types \cup {0}]
  /\ token \in [Slots -> Tokens \cup {NoToken}]
  /\ nextFree \in [Slots -> Slots \cup {NoSlot}]
  /\ occupied \in [Slots -> BOOLEAN]
  /\ slotCount \in 0..SlotLimit
  /\ freeHead \in Slots \cup {NoSlot}
  /\ invalidated \in BOOLEAN
  /\ destroyed \in BOOLEAN
  /\ issued \in [Tokens -> Handles \cup {NoHandle}]
  /\ hooked \in [Tokens -> Nat]
  /\ wrapped \subseteq Slots

-----------------------------------------------------------------------------
(* Definitions named Faulty... are bugs the code could have had; each run  *)
(* is also made with one of them in place of the definition that follows   *)
(* it, to show that the property in question notices.                      *)
FaultyNextGenerationKept(g) == g

(* nts_next_generation: a 32-bit increment that skips 0.                   *)
NextGeneration(g) == IF g = MaxGeneration THEN 1 ELSE g + 1

(* nts_handle_slot_status.                                                 *)
SlotStatus(h) ==
  CASE h.realm # "own" -> "wrong_realm"
    [] h.realm = "own" /\ (h.generation = 0 \/ h.slot >= slotCount) -> "invalid_handle"
    [] OTHER -> IF occupied[h.slot] /\ generation[h.slot] = h.generation
                THEN "ok" ELSE "invalid_handle"

FaultyRetainStatus(h) == IF invalidated THEN "context_destroyed" ELSE SlotStatus(h)

RetainStatus(h) ==
  CASE invalidated -> "context_destroyed"
    [] ~invalidated /\ SlotStatus(h) # "ok" -> SlotStatus(h)
    [] OTHER -> IF references[h.slot] = MaxReferences THEN "out_of_memory" ELSE "ok"

ReleaseStatus(h) == IF invalidated THEN "context_destroyed" ELSE SlotStatus(h)

ResolveStatus(h, expected) ==
  CASE invalidated -> "context_destroyed"
    [] ~invalidated /\ SlotStatus(h) # "ok" -> SlotStatus(h)
    [] OTHER -> IF expected \in {0, typeId[h.slot]} \/ <<typeId[h.slot], expected>> \in Accepts
                THEN "ok" ELSE "invalid_handle"

-----------------------------------------------------------------------------
Init ==
  /\ generation = [s \in Slots |-> 0]
  /\ references = [s \in Slots |-> 0]
  /\ typeId = [s \in Slots |-> 0]
  /\ token = [s \in Slots |-> NoToken]
  /\ nextFree = [s \in Slots |-> 0]          \* realloc + memset
  /\ occupied = [s \in Slots |-> FALSE]
  /\ slotCount = 0
  /\ freeHead = NoSlot
  /\ invalidated = FALSE
  /\ destroyed = FALSE
  /\ issued = [t \in Tokens |-> NoHandle]
  /\ hooked = [t \in Tokens |-> 0]
  /\ wrapped = {}

FaultyPopFree == freeHead' = freeHead

(* nts_reserve_slot, first branch: the head of the free list is taken.     *)
PopFree == freeHead' = nextFree[freeHead]

(* nts_reserve_slot followed by the body of insert, for the slot s the     *)
(* reservation yields with generation g.                                   *)
Fill(s, g, ty, t) ==
  /\ generation' = [generation EXCEPT ![s] = g]
  /\ references' = [references EXCEPT ![s] = 1]
  /\ typeId' = [typeId EXCEPT ![s] = ty]
  /\ token' = [token EXCEPT ![s] = t]
  /\ occupied' = [occupied EXCEPT ![s] = TRUE]
  /\ nextFree' = [nextFree EXCEPT ![s] = NoSlot]
  /\ issued' = [issued EXCEPT ![t] = [slot |-> s, generation |-> g, realm |-> "own"]]
  /\ UNCHANGED <<invalidated, destroyed, hooked, wrapped>>

(* nts_handle_table_insert.  The caller passes a token it has just         *)
(* allocated; a failed reservation leaves the token with the caller.       *)
InsertReused(t, ty) ==
  /\ ~destroyed /\ ~invalidated /\ issued[t] = NoHandle
  /\ freeHead # NoSlot
  /\ PopFree
  /\ Fill(freeHead, generation[freeHead], ty, t)
  /\ UNCHANGED slotCount

InsertAppended(t, ty) ==
  /\ ~destroyed /\ ~invalidated /\ issued[t] = NoHandle
  /\ freeHead = NoSlot
  /\ slotCount < SlotLimit
  /\ slotCount' = slotCount + 1
  /\ Fill(slotCount, 1, ty, t)
  /\ UNCHANGED freeHead

(* hooks.destroy_token runs once for each of these tokens.                 *)
DestroyTokens(gone) ==
  hooked' = [t \in Tokens |-> IF t \in gone THEN hooked[t] + 1 ELSE hooked[t]]

FaultyHeldTokens == {}

(* The tokens that still sit in an occupied slot.                          *)
HeldTokens == {token[s] : s \in {r \in Allocated : occupied[r]}}

(* nts_handle_table_retain.                                                *)
Retain(h) ==
  /\ ~destroyed
  /\ RetainStatus(h) = "ok"
  /\ references' = [references EXCEPT ![h.slot] = references[h.slot] + 1]
  /\ UNCHANGED <<generation, typeId, token, nextFree, occupied, slotCount,
                 freeHead, invalidated, destroyed, issued, hooked, wrapped>>

(* nts_handle_table_release: nts_slot_reset runs when the count reaches 0. *)
ReleaseShared(h) ==
  /\ ~destroyed
  /\ ReleaseStatus(h) = "ok"
  /\ references[h.slot] > 1
  /\ references' = [references EXCEPT ![h.slot] = references[h.slot] - 1]
  /\ UNCHANGED <<generation, typeId, token, nextFree, occupied, slotCount,
                 freeHead, invalidated, destroyed, issued, hooked, wrapped>>

ReleaseLast(h) ==
  LET s == h.slot IN
  /\ ~destroyed
  /\ ReleaseStatus(h) = "ok"
  /\ references[s] = 1
  /\ references' = [references EXCEPT ![s] = 0]
  /\ token' = [token EXCEPT ![s] = NoToken]
  /\ typeId' = [typeId EXCEPT ![s] = 0]
  /\ occupied' = [occupied EXCEPT ![s] = FALSE]
  /\ generation' = [generation EXCEPT ![s] = NextGeneration(generation[s])]
  /\ wrapped' = IF generation[s] = MaxGeneration THEN wrapped \cup {s} ELSE wrapped
  /\ nextFree' = [nextFree EXCEPT ![s] = freeHead]
  /\ freeHead' = s
  /\ DestroyTokens({token[s]})
  /\ UNCHANGED <<slotCount, invalidated, destroyed, issued>>

(* nts_handle_table_invalidate: the loop runs from the last slot to the    *)
(* first and pushes every slot on an emptied free list, so the list it     *)
(* leaves is 0, 1, ..., slotCount - 1.                                     *)
Invalidate ==
  LET live(s) == s \in Allocated /\ occupied[s] IN
  /\ ~destroyed /\ ~invalidated
  /\ invalidated' = TRUE
  /\ freeHead' = IF slotCount = 0 THEN NoSlot ELSE 0
  /\ nextFree' = [s \in Slots |-> IF s \notin Allocated THEN nextFree[s]
                                  ELSE IF s + 1 = slotCount THEN NoSlot ELSE s + 1]
  /\ generation' = [s \in Slots |-> IF live(s) THEN NextGeneration(generation[s])
                                    ELSE generation[s]]
  /\ wrapped' = wrapped \cup {s \in Slots : live(s) /\ generation[s] = MaxGeneration}
  /\ references' = [s \in Slots |-> IF live(s) THEN 0 ELSE references[s]]
  /\ typeId' = [s \in Slots |-> IF live(s) THEN 0 ELSE typeId[s]]
  /\ token' = [s \in Slots |-> IF live(s) THEN NoToken ELSE token[s]]
  /\ occupied' = [s \in Slots |-> IF live(s) THEN FALSE ELSE occupied[s]]
  /\ DestroyTokens(HeldTokens)
  /\ UNCHANGED <<slotCount, destroyed, issued>>

(* nts_handle_table_destroy, from the owner's destructor: the memory goes  *)
(* away, so nothing is called on the table afterwards.                     *)
Destroy ==
  /\ ~destroyed
  /\ destroyed' = TRUE
  /\ DestroyTokens(HeldTokens)
  /\ generation' = [s \in Slots |-> 0]
  /\ references' = [s \in Slots |-> 0]
  /\ typeId' = [s \in Slots |-> 0]
  /\ token' = [s \in Slots |-> NoToken]
  /\ nextFree' = [s \in Slots |-> 0]
  /\ occupied' = [s \in Slots |-> FALSE]
  /\ slotCount' = 0
  /\ freeHead' = NoSlot
  /\ invalidated' = FALSE
  /\ UNCHANGED <<issued, wrapped>>
  
Next ==
  \/ \E t \in Tokens, ty \in Types : InsertReused(t, ty) \/ InsertAppended(t, ty)
  \/ \E h \in Handles : Retain(h) \/ ReleaseShared(h) \/ ReleaseLast(h)
  \/ Invalidate
  \/ Destroy

Spec == Init /\ [][Next]_vars

-----------------------------------------------------------------------------
(* fl is the chain free_head -> next_free -> ... -> NTS_HANDLE_NO_SLOT.    *)
IsFreeList(fl, n) ==
  /\ freeHead = IF n = 0 THEN NoSlot ELSE fl[1]
  /\ \A i \in 1..n : nextFree[fl[i]] = IF i = n THEN NoSlot ELSE fl[i + 1]
  /\ \A i, j \in 1..n : fl[i] = fl[j] => i = j
  /\ {fl[i] : i \in 1..n} = {s \in Allocated : ~occupied[s]}

(* The free list holds every allocated slot that is not occupied, each     *)
(* once: no reset pushes a slot twice, no reservation drops one, and the   *)
(* rebuild in nts_handle_table_invalidate loses none.                      *)
FreeListComplete == \E n \in 0..SlotLimit : \E fl \in [1..n -> Slots] : IsFreeList(fl, n)

Live(t) == \E s \in Allocated : occupied[s] /\ token[s] = t

(* A token is behind exactly one slot from its insert to its destruction,  *)
(* that slot answers to the handle insert returned, and destroy_token runs *)
(* for it exactly once, whichever of release, invalidate and destroy ends  *)
(* it.                                                                     *)
TokenOwnership ==
  /\ \A s \in Allocated : occupied[s] =>
       /\ token[s] \in Tokens
       /\ references[s] > 0
       /\ issued[token[s]] = [slot |-> s, generation |-> generation[s], realm |-> "own"]
  /\ \A t \in Tokens : hooked[t] = IF issued[t] = NoHandle \/ Live(t) THEN 0 ELSE 1

(* A handle whose token was destroyed is refused by retain, release and    *)
(* resolve, however often its slot was reused, until the slot's generation *)
(* wraps (2^32 - 1 reuses).                                                *)
StaleHandleRejected ==
  \A t \in Tokens :
    hooked[t] > 0 /\ ~destroyed /\ issued[t].slot \notin wrapped
      => "ok" \notin {RetainStatus(issued[t]), ReleaseStatus(issued[t]),
                      ResolveStatus(issued[t], 0)}

(* The strengthening behind the two invariants above.  A slot and the      *)
(* token in it point at each other; a generation never falls behind a      *)
(* handle it issued.                                                       *)
SlotsConsistent ==
  /\ \A s \in Allocated : generation[s] # 0
  /\ \A s \in Slots : occupied[s] =>
       /\ s \in Allocated
       /\ references[s] > 0
       /\ token[s] \in Tokens
       /\ hooked[token[s]] = 0
       /\ issued[token[s]] = [slot |-> s, generation |-> generation[s], realm |-> "own"]

TokensConsistent ==
  \A t \in Tokens :
    /\ hooked[t] \in {0, 1}
    /\ issued[t] = NoHandle => hooked[t] = 0
    /\ issued[t] # NoHandle /\ ~destroyed => issued[t].slot \in Allocated
    /\ issued[t] # NoHandle /\ hooked[t] = 0 =>
         /\ occupied[issued[t].slot]
         /\ token[issued[t].slot] = t

GenerationsAdvance ==
  \A t \in Tokens :
    issued[t] # NoHandle /\ ~destroyed /\ issued[t].slot \notin wrapped =>
      /\ issued[t].generation <= generation[issued[t].slot]
      /\ hooked[t] = 1 => issued[t].generation # generation[issued[t].slot]

-----------------------------------------------------------------------------
(* The table as the space of tokens it stands for.                         *)
Space == INSTANCE HandleSpace WITH
  state <- IF destroyed THEN "destroyed" ELSE IF invalidated THEN "invalidated" ELSE "open",
  phase <- [t \in Tokens |-> IF issued[t] = NoHandle THEN "new"
                             ELSE IF hooked[t] = 0 THEN "live" ELSE "dead"],
  refs <- [t \in Tokens |-> IF issued[t] # NoHandle /\ hooked[t] = 0
                            THEN references[issued[t].slot] ELSE 0]

(* Every call does to the tokens what the handle space allows: a release   *)
(* counts down the one token in the slot, only the last release or the end *)
(* of the realm destroys, the end of the realm destroys every live token   *)
(* at once, and no token comes back.                                       *)
ImplementsHandleSpace == Space!Spec
=============================================================================
