--------------------------- MODULE ArtifactGraph ---------------------------
(***************************************************************************)
(* The build graph of artifact-graph.ts: actions that turn input artifacts *)
(* into output artifacts, and what validateArtifactGraph demands of it     *)
(* before anything runs.  Spelling rules (identities, file names, digests, *)
(* duplicate ids in a list) are left out: an id is a number here and a list *)
(* of ids is a set.                                                        *)
(***************************************************************************)
EXTENDS Naturals, FiniteSets

(* A graph is a record                                                     *)
(*   actions    the set of action ids                                      *)
(*   origin     a function: artifact id -> Source or its producing action  *)
(*   inputs, outputs                       sets of artifact ids per action *)
(*   reads, writes   the ids its input-path and output-path arguments name *)
(*   captured   per action, where standard output goes; NoArtifact means   *)
(*              the report                                                 *)
(*   cacheable  the cacheable actions                                      *)
(*   stored     the artifacts whose cache policy is not "none"             *)
Source == 0
NoArtifact == 0

Artifacts(g) == DOMAIN g.origin

IsGraph(g) == IsFiniteSet(g.actions) /\ g.actions \subseteq Nat \ {Source}

(* The actions an action waits for (both validateArtifactGraph and         *)
(* executeArtifactGraph build this map).                                   *)
DependenciesOf(g, a) ==
  {g.origin[i] : i \in g.inputs[a] \cap Artifacts(g)} \ {Source}

(* Definitions named Faulty... are bugs the code could have had; each run  *)
(* is also made with one of them in place of the definition that follows   *)
(* it, to show that the property in question notices.                      *)
FaultyRound(g, remaining) ==
  {a \in remaining : a \notin DependenciesOf(g, a)}

(* One round of the topological loop takes out every action none of whose  *)
(* dependencies remains.                                                   *)
Round(g, remaining) ==
  {a \in remaining : DependenciesOf(g, a) \cap remaining = {}}

(* What remains after n rounds.                                            *)
Remaining(g, n) ==
  LET after[k \in 0..n] ==
        IF k = 0 THEN g.actions ELSE after[k - 1] \ Round(g, after[k - 1])
  IN  after[n]

(* NTS2006: a round that takes out nothing while actions remain.           *)
Cyclic(g) == Remaining(g, Cardinality(g.actions)) # {}

(* NTS2003.                                                                *)
UnknownReference(g) ==
  \/ \E a \in g.actions : ~(g.inputs[a] \cup g.outputs[a] \subseteq Artifacts(g))
  \/ \E i \in Artifacts(g) : g.origin[i] \notin g.actions \cup {Source}

(* NTS2004: producer and product name each other.                          *)
ProducerMismatch(g) ==
  \/ \E a \in g.actions : \E o \in g.outputs[a] \cap Artifacts(g) : g.origin[o] # a
  \/ \E i \in Artifacts(g) : g.origin[i] \in g.actions /\ i \notin g.outputs[g.origin[i]]

(* NTS2007.                                                                *)
UnstorableOutput(g) == \E a \in g.cacheable : ~(g.outputs[a] \cap Artifacts(g) \subseteq g.stored)

FaultyBadArguments(g) ==
  \E a \in g.actions :
    \/ ~(g.reads[a] \subseteq g.inputs[a]) \/ ~(g.writes[a] \subseteq g.outputs[a])
    \/ g.captured[a] # NoArtifact /\ g.captured[a] \notin g.outputs[a]

(* NTS2008: every argument names a declared artifact and every output has  *)
(* exactly one way to come into being.                                     *)
BadArguments(g) ==
  \E a \in g.actions :
    \/ ~(g.reads[a] \subseteq g.inputs[a]) \/ ~(g.writes[a] \subseteq g.outputs[a])
    \/ g.captured[a] # NoArtifact /\ g.captured[a] \notin g.outputs[a]
    \/ g.captured[a] \in g.writes[a]
    \/ ~(g.outputs[a] \subseteq g.writes[a] \cup {g.captured[a]})

Diagnostics(g) ==
  {code \in {"NTS2003", "NTS2004", "NTS2006", "NTS2007", "NTS2008"} :
    CASE code = "NTS2003" -> UnknownReference(g)
      [] code = "NTS2004" -> ProducerMismatch(g)
      [] code = "NTS2006" -> Cyclic(g)
      [] code = "NTS2007" -> UnstorableOutput(g)
      [] code = "NTS2008" -> BadArguments(g)}

(* defineArtifactGraph throws on any diagnostic.                           *)
Accepted(g) == Diagnostics(g) = {}
=============================================================================
