--------------------------- MODULE NativePrograms ---------------------------
(***************************************************************************)
(* A program's native packages on their way into the compiler              *)
(* (scriptc/src/native.ts): each manifest is validated and translated on   *)
(* its own, and composeScriptCNativePrograms then makes one program of the *)
(* translations, in whatever order the application lists them.             *)
(***************************************************************************)
EXTENDS NativePackage

CONSTANT Families \* sets of builds: sequences of [manifest, selection: [bindings, types]]

ASSUME BuildsAssumption ==
  \A builds \in Families : \A b \in builds :
    /\ b \in Seq(Range(b)) /\ b # <<>>
    /\ \A i \in DOMAIN b : IsManifest(b[i].manifest)

VARIABLES
  build,      \* the packages being built, in the application's order
  phase,      \* the loop or pass in progress
  reached,    \* reachable, for the package being translated
  expanded,   \* the reached bindings whose dependencies were followed
  marked,     \* traceableHandleTypeIds
  programs,   \* the translations so far
  merged,     \* number of programs merged
  types,      \* composed handle types
  bindings,   \* composed bindings
  names,      \* composed link inputs -> name
  adapters,   \* composed adapter inputs
  edges,      \* linkInputEdges: link -> links that must come after it
  indegree,   \* link -> edges into it from links not yet ordered
  ready,      \* links with no such edge, not yet ordered
  ordered,    \* orderedLinkInputs
  traceable,  \* traceableTypeIds
  refused     \* was a diagnostic reported?

translation == <<reached, expanded, marked>>
composed == <<types, bindings, names, adapters, edges>>
kahn == <<indegree, ready, ordered>>
vars == <<build, phase, translation, programs, merged, composed, kahn, traceable, refused>>

EmptyFunction == [x \in {} |-> x]

Init ==
  /\ \E builds \in Families : build \in builds
  /\ phase = "validate"
  /\ reached = {} /\ expanded = {} /\ marked = {}
  /\ programs = <<>> /\ merged = 0
  /\ types = EmptyFunction /\ bindings = EmptyFunction /\ names = EmptyFunction
  /\ adapters = EmptyFunction /\ edges = EmptyFunction
  /\ indegree = EmptyFunction /\ ready = {} /\ ordered = <<>>
  /\ traceable = {} /\ refused = FALSE

-----------------------------------------------------------------------------
(* Translation of the next package.  A refused one ends the build.         *)
Current == build[Len(programs) + 1]
M == Current.manifest
Selection == Current.selection

Validate ==
  /\ phase = "validate"
  /\ IF ManifestValid(M)
     THEN /\ phase' = "reach" /\ reached' = Selection.bindings
          /\ UNCHANGED refused
     ELSE phase' = "done" /\ refused' = TRUE /\ UNCHANGED reached
  /\ expanded' = {} /\ marked' = {}
  /\ UNCHANGED <<build, programs, merged, composed, kahn, traceable>>

(* The code sweeps the reachable bindings until nothing is added; here     *)
(* each is expanded once, in any order.                                    *)
Reach ==
  /\ phase = "reach"
  /\ \E b \in reached \ expanded :
       reached' = reached \cup Brings(M, b) /\ expanded' = expanded \cup {b}
  /\ UNCHANGED <<build, phase, marked, programs, merged, composed, kahn, traceable, refused>>

(* Types selected for themselves bring their accessors before the sweep.   *)
ReachTypes ==
  /\ phase = "reach" /\ expanded = {}
  /\ ~ PeerAccessors(M, Selection.types) \subseteq reached
  /\ reached' = reached \cup PeerAccessors(M, Selection.types)
  /\ UNCHANGED <<build, phase, expanded, marked, programs, merged, composed, kahn, traceable, refused>>

MarkCycles ==
  /\ phase = "reach" /\ reached = expanded
  /\ PeerAccessors(M, Selection.types) \subseteq reached
  /\ phase' = "spread" /\ marked' = TraceableSeeds(M, reached)
  /\ UNCHANGED <<build, reached, expanded, programs, merged, composed, kahn, traceable, refused>>

(* Edges with a traceable handle at exactly one end.                       *)
Uneven(pairs, set) == {e \in pairs : (e[1] \in set) # (e[2] \in set)}

SpreadMark ==
  /\ phase = "spread"
  /\ \E e \in Uneven(UpcastEdges(M), marked) : marked' = marked \cup {e[1], e[2]}
  /\ UNCHANGED <<build, phase, reached, expanded, programs, merged, composed, kahn, traceable, refused>>

Emit ==
  /\ phase = "spread" /\ Uneven(UpcastEdges(M), marked) = {}
  /\ IF Refuses(M, Selection, reached)
     THEN phase' = "done" /\ refused' = TRUE /\ UNCHANGED programs
     ELSE /\ programs' = Append(programs, LoweredPackage(M, Selection, reached, marked))
          /\ phase' = IF Len(programs) + 1 = Len(build) THEN "merge" ELSE "validate"
          /\ UNCHANGED refused
  /\ UNCHANGED <<build, translation, merged, composed, kahn, traceable>>

-----------------------------------------------------------------------------
(* Composition.  addExact: the first entry of an id stays, and a different *)
(* later one is a conflict.                                                *)
Conflict(f, g) == \E x \in DOMAIN f \cap DOMAIN g : f[x] # g[x]

FirstWins(f, g) == [x \in DOMAIN f \cup DOMAIN g |-> IF x \in DOMAIN f THEN f[x] ELSE g[x]]

(* What the order of one program's link inputs puts after l.               *)
After(p, l) == {p.links[j] : j \in {k \in DOMAIN p.links : \E i \in 1..(k - 1) : p.links[i] = l}}

Edges(l) == IF l \in DOMAIN edges THEN edges[l] ELSE {}

FaultyMergedEdges(p) ==
  [l \in DOMAIN edges \cup DOMAIN p.names |-> IF l \in DOMAIN edges THEN edges[l] ELSE After(p, l)]
MergedEdges(p) == [l \in DOMAIN edges \cup DOMAIN p.names |-> Edges(l) \cup After(p, l)]

Conflicts(p) ==
  \/ p.target # programs[1].target
  \/ Conflict(types, p.types) \/ Conflict(bindings, p.bindings)
  \/ Conflict(names, p.names) \/ Conflict(adapters, p.adapters)

Merge ==
  /\ phase = "merge" /\ merged < Len(programs)
  /\ LET p == programs[merged + 1] IN
       /\ refused' = (refused \/ Conflicts(p))
       /\ types' = FirstWins(types, p.types)
       /\ bindings' = FirstWins(bindings, p.bindings)
       /\ names' = FirstWins(names, p.names)
       /\ adapters' = FirstWins(adapters, p.adapters)
       /\ edges' = MergedEdges(p)
  /\ merged' = merged + 1
  /\ UNCHANGED <<build, phase, translation, programs, kahn, traceable>>

LinkInputs == DOMAIN names
Before(l) == {k \in LinkInputs : l \in edges[k]}

CountEdges ==
  /\ phase = "merge" /\ merged = Len(programs)
  /\ phase' = "order"
  /\ indegree' = [l \in LinkInputs |-> Cardinality(Before(l))]
  /\ ready' = {l \in LinkInputs : Before(l) = {}}
  /\ UNCHANGED <<build, translation, programs, merged, composed, ordered, traceable, refused>>

(* The least ready id, in text order, goes next.                           *)
NextLink == CHOOSE l \in ready : \A k \in ready : l <= k

OrderLink ==
  /\ phase = "order" /\ ready # {}
  /\ ordered' = Append(ordered, NextLink)
  /\ indegree' = [l \in LinkInputs |-> IF l \in edges[NextLink] THEN indegree[l] - 1 ELSE indegree[l]]
  /\ ready' = (ready \ {NextLink}) \cup {l \in edges[NextLink] : indegree[l] = 1}
  /\ UNCHANGED <<build, phase, translation, programs, merged, composed, traceable, refused>>

UpcastResolves(t) ==
  \A u \in types[t].upcasts : u \in DOMAIN types /\ types[u].contract = types[t].contract

DestructorsResolve(b) == bindings[b].destroys \subseteq DOMAIN bindings

Resolve ==
  /\ phase = "order" /\ ready = {}
  /\ phase' = "reconcile"
  /\ refused' = (\/ refused
                 \/ \E t \in DOMAIN types : ~ UpcastResolves(t)
                 \/ \E b \in DOMAIN bindings : ~ DestructorsResolve(b))
  /\ traceable' = {t \in DOMAIN types : types[t].traceable}
  /\ UNCHANGED <<build, translation, programs, merged, composed, kahn>>

(* Packages that never saw each other's upcasts are reconciled here.       *)
FaultyComposedUpcasts == {}
ComposedUpcasts == {e \in (DOMAIN types) \X (DOMAIN types) : e[2] \in types[e[1]].upcasts}

Reconcile ==
  /\ phase = "reconcile"
  /\ \E e \in Uneven(ComposedUpcasts, traceable) : traceable' = traceable \cup {e[1], e[2]}
  /\ UNCHANGED <<build, phase, translation, programs, merged, composed, kahn, refused>>

Finish ==
  /\ phase = "reconcile" /\ Uneven(ComposedUpcasts, traceable) = {}
  /\ phase' = "done"
  /\ types' = [t \in DOMAIN types |-> [types[t] EXCEPT !.traceable = t \in traceable]]
  /\ refused' = (refused \/ Len(ordered) # Cardinality(LinkInputs))
  /\ UNCHANGED <<build, translation, programs, merged, bindings, names, adapters, edges, kahn, traceable>>

Next ==
  \/ Validate \/ ReachTypes \/ Reach \/ MarkCycles \/ SpreadMark \/ Emit
  \/ Merge \/ CountEdges \/ OrderLink \/ Resolve \/ Reconcile \/ Finish

Spec == Init /\ [][Next]_vars

-----------------------------------------------------------------------------
Accepted == phase = "done" /\ ~ refused
Translated == phase = "done" /\ Len(programs) = Len(build)
Packages == Range(programs)

(* What the compiler is given is the same whatever order the application   *)
(* lists its packages in: they are refused exactly when some two disagree, *)
(* some upcast or destructor has no owner in the program, or their link    *)
(* orders contradict each other; and the link inputs come in the least     *)
(* order that every package's own order allows.                            *)
Agree(f, g) == \A x \in DOMAIN f \cap DOMAIN g : f[x] = g[x]

Compatible(p, q) ==
  /\ p.target = q.target /\ Agree(p.names, q.names) /\ Agree(p.adapters, q.adapters)
  /\ Agree(p.types, q.types) /\ Agree(p.bindings, q.bindings)

Provided(p) ==
  /\ \A t \in DOMAIN p.types : \A u \in p.types[t].upcasts :
       \E q \in Packages : u \in DOMAIN q.types /\ q.types[u].contract = p.types[t].contract
  /\ \A b \in DOMAIN p.bindings : \A d \in p.bindings[b].destroys :
       \E q \in Packages : d \in DOMAIN q.bindings

LinkConstraints ==
  LET node == UNION {DOMAIN p.names : p \in Packages} IN
  [node |-> node,
   edge |-> {e \in node \X node : \E p \in Packages : \E i, j \in DOMAIN p.links :
               i < j /\ p.links[i] = e[1] /\ p.links[j] = e[2]}]

(* Some link inputs each of which must come after another one of them.     *)
Contradictory(G) ==
  \E S \in SUBSET G.node : S # {} /\ \A l \in S : \E k \in S : <<k, l>> \in G.edge

LeastOrder(seq) ==
  \A i \in DOMAIN seq :
    LET placed == {seq[j] : j \in 1..(i - 1)}
        free == {l \in LinkConstraints.node \ placed :
                   \A e \in LinkConstraints.edge : e[2] = l => e[1] \in placed}
    IN seq[i] \in free /\ \A l \in free : seq[i] <= l

Composable ==
  /\ \A p, q \in Packages : Compatible(p, q)
  /\ \A p \in Packages : Provided(p)
  /\ ~ Contradictory(LinkConstraints)

InLeastOrder == Range(ordered) = LinkConstraints.node /\ LeastOrder(ordered)

CompositionIgnoresOrder ==
  Translated => (Accepted <=> Composable) /\ (Accepted => InLeastOrder)

(* A retained callback can close a cycle through the handle it returns and *)
(* the receiver that owns it.  The collector must see such a handle, and   *)
(* also every handle that denotes the same object through upcasts of any   *)
(* package, including packages that register nothing themselves.           *)
Owners(b) == ({bindings[b].contract.gives, bindings[b].contract.owner} \ {Result})

CyclesAreTraced ==
  Accepted =>
    /\ \A b \in DOMAIN bindings : bindings[b].contract.owner \notin {None, NativeCall, Process} =>
         \A t \in Owners(b) : <<b[1], t>> \in DOMAIN types /\ types[<<b[1], t>>].traceable
    /\ \A t \in DOMAIN types : \A u \in types[t].upcasts :
         types[t].traceable = types[u].traceable

(* The calls of package i that are in the program.                         *)
CallsOf(i) == {b \in BindingIds(build[i].manifest) :
                 Scoped(build[i].manifest, b) \in DOMAIN programs[i].bindings}

(* The bindings that a call names: what ends its registration, what super  *)
(* calls.                                                                  *)
NamedCalls(m, b) ==
  (IF Registers(m, b) THEN {m.bindings[b].cancel} ELSE {}) \cup ({m.bindings[b].base} \ {None})

NamesResolve ==
  \A i \in DOMAIN programs : \A b \in CallsOf(i) :
    LET m == build[i].manifest IN
    /\ {Scoped(m, d) : d \in NamedCalls(m, b)} \cup bindings[Scoped(m, b)].destroys \subseteq DOMAIN bindings
    /\ \A t \in SignatureTypes(m, b) \cap LocalTypes(m) :
         Scoped(m, t) \in DOMAIN types /\ types[Scoped(m, t)].peer \subseteq DOMAIN bindings

(* The signatures of the program's calls, as declared and as the compiler  *)
(* sees them; an accessor has the one shape of its own.                    *)
SignedCalls(i) == (CallsOf(i) \ Accessors(build[i].manifest)) \cap DOMAIN build[i].manifest.signatures

Calls ==
  UNION {{LET m == build[i].manifest IN
          [declared |-> m.signatures[b], owner |-> m.bindings[b].owner,
           lowered |-> CHOOSE s \in bindings[Scoped(m, b)].signature : TRUE] :
            b \in SignedCalls(i)} : i \in DOMAIN programs}

(* The parts of the source argument that parameter i stands for: itself,   *)
(* the extent of a span, the context and the release of a callback, which  *)
(* one that lives for its call only has no use for.                        *)
Parts(parameters, i, owner) ==
  LET p == parameters[i] IN
  (IF p.marshal \in {"utf8", "bytes"} THEN {<<"length", p.length>>, <<p.marshal, i>>} ELSE {})
  \cup UNION {{<<"function", i>>, <<"context", c.context>>}
              \cup (IF c.release = 0 \/ owner = NativeCall THEN {}
                    ELSE {<<"context-release", c.release>>}) : c \in p.callback}

ArgumentsArrive ==
  \A call \in Calls :
    LET s == call.declared  slots == call.lowered.slots  n == Len(s.parameters)
        own == (IF s.result.marshal \in {"utf8", "bytes"} THEN <<"length-out">> ELSE <<>>)
               \o (IF s.error = "error-out" THEN <<"error-out">> ELSE <<>>)
    IN /\ \A i \in DOMAIN s.parameters : \A part \in Parts(s.parameters, i, call.owner) :
            slots[part[2]] = [role |-> part[1], argument |-> i]
       /\ [k \in 1..(Len(slots) - n) |-> slots[n + k].role] = own
       /\ s.error = "error-out" => slots[call.lowered.failure].role = "error-out"

(* A delivery outlives its emission or not: a queued one holds a string's  *)
(* copy and always a referenced object, one made during the emission may   *)
(* find no object, and holds no text.                                      *)
PayloadsArrive ==
  \A call \in Calls : \A i \in DOMAIN call.lowered.callbacks :
    \A c \in call.declared.parameters[i].callback :
      LET delivery == call.lowered.callbacks[i]  queued == c.transport = "copy" IN
      /\ "handle or null" \in Range(delivery.views) => ~ queued
      /\ "string" \in Range(delivery.views) => queued
      /\ delivery.answer.view # "void" => ~ queued

(* Borrowed text is copied under a receiver that the call is made on, and  *)
(* text that is released was not borrowed from it.                         *)
ResultsArrive ==
  \A call \in Calls :
    /\ call.lowered.result.anchored /\ call.declared.result.marshal = "c-string" =>
         Head(call.declared.parameters).held = "call"
    /\ call.lowered.result.released => call.declared.result.held = "value"

(* In the physical slots of each call of the accepted program are its      *)
(* source arguments whole, no slot shared by two, and the compiler's own   *)
(* slots last, the error where it is read; and what a handler or a copied  *)
(* result reads is still there.                                            *)
CallsArrive == Accepted => ArgumentsArrive /\ PayloadsArrive /\ ResultsArrive

(* What a call of the accepted program relies on is there: in the program  *)
(* its cancellation, what super calls, what releases what it owns or hands *)
(* to a callback, the handles it names and the peer accessors of those;    *)
(* and its arguments, payloads and results where they are read.            *)
NothingDangles == (Accepted => NamesResolve) /\ CallsArrive

(* "A physical static-identity parameter cannot describe multiple source   *)
(* arguments" (the diagnostic of native.ts): the identity a span asks for  *)
(* reaches the slot it names.                                              *)
IdentitiesArrive ==
  Accepted =>
    \A call \in Calls : \A i \in DOMAIN call.declared.parameters :
      LET p == call.declared.parameters[i] IN
      p.identity # 0 => call.lowered.slots[p.identity] = [role |-> "identity", argument |-> i]

(* "The two entries are ordinary bindings, so they are reachability        *)
(* dependencies like a destructor rather than free-floating symbols"       *)
(* (scabi/src/validation.ts): the adapter and link inputs that provide the *)
(* symbols a program calls are in its build.                               *)
SymbolsAreBuilt ==
  Accepted =>
    \A i \in DOMAIN build : LET m == build[i].manifest IN
      \A b \in BindingIds(m) : Scoped(m, b) \in DOMAIN bindings =>
        \A e \in m.bindings[b].errors \cup {b} :
          m.bindings[e].adapters \subseteq DOMAIN adapters /\ m.bindings[e].links \subseteq LinkInputs
=============================================================================
