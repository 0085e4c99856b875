---------------------------- MODULE HandleSpace ----------------------------
(***************************************************************************)
(* What a handle table promises its realm, with slots, generations and the *)
(* free list left out: a token enters once, is counted while it is live,   *)
(* and is handed to the destroy hook exactly once, by the release of its   *)
(* last reference or by the end of the realm, and never comes back.        *)
(***************************************************************************)
EXTENDS Naturals

CONSTANTS Tokens,         \* native objects a realm puts behind handles
          MaxReferences   \* UINT32_MAX in the code

VARIABLES state,   \* "open", "invalidated" or "destroyed"
          phase,   \* per token: "new", "live" or "dead" (destroyed by the hook)
          refs     \* per token: references held through its handle

vars == <<state, phase, refs>>

TypeOK ==
  /\ state \in {"open", "invalidated", "destroyed"}
  /\ phase \in [Tokens -> {"new", "live", "dead"}]
  /\ refs \in [Tokens -> 0..MaxReferences]

Init ==
  /\ state = "open"
  /\ phase = [t \in Tokens |-> "new"]
  /\ refs = [t \in Tokens |-> 0]

Insert(t) ==
  /\ state = "open" /\ phase[t] = "new"
  /\ phase' = [phase EXCEPT ![t] = "live"]
  /\ refs' = [refs EXCEPT ![t] = 1]
  /\ UNCHANGED state

Retain(t) ==
  /\ state = "open" /\ phase[t] = "live" /\ refs[t] < MaxReferences
  /\ refs' = [refs EXCEPT ![t] = refs[t] + 1]
  /\ UNCHANGED <<state, phase>>

Release(t) ==
  /\ state = "open" /\ phase[t] = "live"
  /\ refs' = [refs EXCEPT ![t] = refs[t] - 1]
  /\ phase' = IF refs[t] = 1 THEN [phase EXCEPT ![t] = "dead"] ELSE phase
  /\ UNCHANGED state

\* The end of the realm: every token still live dies in the same step.
Close(next) ==
  /\ state' = next
  /\ phase' = [t \in Tokens |-> IF phase[t] = "live" THEN "dead" ELSE phase[t]]
  /\ refs' = [t \in Tokens |-> 0]

Next ==
  \/ \E t \in Tokens : Insert(t) \/ Retain(t) \/ Release(t)
  \/ state = "open" /\ Close("invalidated")
  \/ state # "destroyed" /\ Close("destroyed")

Spec == Init /\ [][Next]_vars
=============================================================================
