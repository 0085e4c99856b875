------------------------ MODULE MCArtifactExecutor ------------------------
EXTENDS ArtifactExecutor

(* Two actions and two artifacts in every combination: also the cyclic     *)
(* graphs, the ones that name unknown artifacts and the ones whose         *)
(* producers disagree.  Action 1 is cacheable and may capture its output.  *)
TwoActions ==
  LET ids == 1..2 IN
  {[actions |-> ids, origin |-> o, inputs |-> i, outputs |-> p,
    reads |-> i, writes |-> w, captured |-> c, cacheable |-> {1}, stored |-> {1}] :
      o \in [ids -> 0..2] \cup [{1} -> 0..2],
      i \in [ids -> SUBSET ids], p \in [ids -> SUBSET ids],
      w \in [ids -> SUBSET ids], c \in {[a \in ids |-> IF a = 1 THEN n ELSE NoArtifact] : n \in 0..1}}

(* Every dependency relation between three actions with one output each,   *)
(* the cyclic ones included.                                               *)
ThreeActions ==
  LET ids == 1..3 IN
  {[actions |-> ids, origin |-> [n \in 1..4 |-> IF n = 4 THEN Source ELSE n],
    inputs |-> i, outputs |-> [a \in ids |-> {a}], reads |-> i,
    writes |-> [a \in ids |-> IF a = 3 THEN {} ELSE {a}],
    captured |-> [a \in ids |-> IF a = 3 THEN 3 ELSE NoArtifact],
    cacheable |-> {2, 3}, stored |-> {2, 3}] :
      i \in [ids -> {s \in SUBSET (1..4) : 4 \in s}]}

SmallGraphs == TwoActions \cup ThreeActions
=============================================================================
