---------------------------- MODULE NativePackage ----------------------------
(***************************************************************************)
(* One package of native bindings, from its SCABI manifest to the part of  *)
(* the compiler's input it contributes (scabi/src/validation.ts and        *)
(* translateScriptCNativeBindings of scriptc/src/native.ts).               *)
(*                                                                         *)
(* A manifest m is a record.  Type and binding identities are local to it: *)
(*   m.instance   the package instance that scopes its identities          *)
(*   m.target     the pointer width and ABI it was generated for           *)
(*   m.types      handle type -> contract (thread safety and identity),    *)
(*                upcasts, destructor and peer (slot accessors)            *)
(*   m.imports    type -> package, type and destructor of its owner        *)
(*   m.bindings   binding -> kind ("call" or "constant"), deps, links,     *)
(*                adapters, the handle types it takes, gives back and      *)
(*                hands to its callback (payload), destructor (named on    *)
(*                the result itself), base (what super calls), owner and   *)
(*                cancel (of the callback's registration), errors (the two *)
(*                entries of an error object) and direct: of a kind,       *)
(*                convention and thread that an ordinary C call can have   *)
(*   m.signatures binding -> its physical signature, where it is modelled  *)
(*   m.links      link input -> name and order                             *)
(*   m.adapters   adapter input -> the bindings it provides                *)
(* The layouts of structs and source declarations are left out: they carry *)
(* no edge from one binding, type or package to another.                   *)
(***************************************************************************)
EXTENDS Naturals, SequencesExt, Graphs

CONSTANTS
  None,       \* no such binding, type or owner
  NativeCall, \* owner: a callback lives for the call only,
  Process,    \* for as long as the process,
  Result      \* or with the registration that is handed back

Physical == INSTANCE NativeSignature

BindingIds(m) == DOMAIN m.bindings
LocalTypes(m) == DOMAIN m.types
KnownTypes(m) == LocalTypes(m) \cup DOMAIN m.imports
IsCall(m, b) == b \in BindingIds(m) /\ m.bindings[b].kind = "call"

-----------------------------------------------------------------------------
(* validateScabiManifest, the rules between parts of the envelope.  Input  *)
(* ids are unique because links and adapters are functions.                *)

TypeImportsValid(m) ==
  \A t \in DOMAIN m.imports : t \notin LocalTypes(m) /\ m.imports[t].package # m.instance

ConstantsValid(m) ==
  \A b \in BindingIds(m) : m.bindings[b].kind = "constant" =>
    m.bindings[b].deps \cup m.bindings[b].links \cup m.bindings[b].adapters = {}

(* The bindings a call's own envelope names.                               *)
References(m, b) ==
  (m.bindings[b].errors \cup {m.bindings[b].destructor, m.bindings[b].base}) \ {None}

CallableBindingsValid(m) ==
  \A b \in BindingIds(m) : References(m, b) \subseteq m.bindings[b].deps

DependenciesValid(m) ==
  /\ \A b \in BindingIds(m) :
       /\ m.bindings[b].deps \subseteq BindingIds(m)
       /\ m.bindings[b].links \subseteq DOMAIN m.links
       /\ m.bindings[b].adapters \subseteq DOMAIN m.adapters
  /\ \A t \in LocalTypes(m) : m.types[t].peer \subseteq BindingIds(m)
  /\ \A a \in DOMAIN m.adapters : m.adapters[a] \subseteq BindingIds(m)

(* What the shape of the envelope already gives: the absence of a name is  *)
(* not a name, a place among the link inputs is a number, and their ids    *)
(* have an order of their own; parameters are a list, and each states at   *)
(* most one callback contract.                                             *)
IsManifest(m) ==
  /\ None \notin DOMAIN m.types
  /\ IsFiniteSet(DOMAIN m.links) /\ DOMAIN m.links \subseteq Nat
  /\ \A l \in DOMAIN m.links : m.links[l].order \in Nat
  /\ \A b \in DOMAIN m.signatures :
       LET parameters == m.signatures[b].parameters IN
       /\ parameters \in Seq(Range(parameters))
       /\ \A i \in DOMAIN parameters : \A c, d \in parameters[i].callback : c = d

ManifestValid(m) ==
  TypeImportsValid(m) /\ ConstantsValid(m) /\ CallableBindingsValid(m) /\ DependenciesValid(m)

-----------------------------------------------------------------------------
(* Identities in the compiler's input carry the package instance.          *)
Scoped(m, b) == <<m.instance, b>>

(* lowerType of a handle that this package imports or defines.             *)
TypeIdentity(m, t) ==
  IF t \in LocalTypes(m) THEN Scoped(m, t) ELSE <<m.imports[t].package, m.imports[t].type>>

(* ownedDestructor: the position's, or else the handle type's, which an    *)
(* import restates in its owner's identity.                                *)
OwnedDestructor(m, t, position) ==
  IF position # None THEN Scoped(m, position)
  ELSE IF t \in LocalTypes(m)
       THEN IF m.types[t].destructor = None THEN None ELSE Scoped(m, m.types[t].destructor)
       ELSE IF m.imports[t].destructor = None
            THEN None ELSE <<m.imports[t].package, m.imports[t].destructor>>

Gives(m, b) == {m.bindings[b].gives} \ {None}
SignatureTypes(m, b) == m.bindings[b].takes \cup Gives(m, b) \cup m.bindings[b].payload

(* Does b register a callback that outlives the call, and who owns it?     *)
Registers(m, b) == IsCall(m, b) /\ m.bindings[b].owner \notin {None, NativeCall, Process}

(* supportedRetainedCallbackPair: a registration with an owner gives back  *)
(* a handle of this package, its receiver is one of this package too, and  *)
(* its cancellation is a declared dependency.                              *)
RetainedCallbackSupported(m, b) ==
  /\ m.bindings[b].gives \in LocalTypes(m)
  /\ m.bindings[b].owner # Result =>
       m.bindings[b].owner \in m.bindings[b].takes \cap LocalTypes(m)
  /\ m.bindings[b].cancel \in m.bindings[b].deps

(* Not bindingUnsupported: a direct call, produced by at most one adapter  *)
(* input, which says that it produces it.                                  *)
DirectCall(m, b) ==
  /\ m.bindings[b].direct
  /\ \A a \in m.bindings[b].adapters : m.bindings[b].adapters = {a} /\ b \in m.adapters[a]

(* Bindings that a type or a reached result names as its release.          *)
Destructors(m, reached) ==
  {m.types[t].destructor : t \in LocalTypes(m)}
  \cup {m.bindings[b].destructor : b \in {r \in reached : IsCall(m, r)}}

(* A handle of this package needs the owner's thread, and only a release   *)
(* may block it; a call may spend only a handle it must be given.          *)
HandlesFit(m, b, reached) ==
  LET s == m.signatures[b]  releases == b \in Destructors(m, reached) IN
  /\ (m.bindings[b].takes \cup Gives(m, b)) \cap LocalTypes(m) # {} =>
       s.executor = "owner" \/ (s.executor = "blocking" /\ releases)
  /\ releases \/ Physical!ConsumedFit(s)

(* The two entries of an error object are calls and not the same one.      *)
ErrorPairFits(m, b) ==
  m.signatures[b].error = "error-handle" =>
    /\ Cardinality(m.bindings[b].errors) = 2
    /\ \A e \in m.bindings[b].errors : IsCall(m, e)

PhysicallySupported(m, b, reached) ==
  /\ HandlesFit(m, b, reached) /\ ErrorPairFits(m, b)
  /\ Physical!SignatureSupported(m.signatures[b], m.bindings[b].owner, m.bindings[b].cancel # None)

(* The checks of the emission loop that refuse a direct call.              *)
BindingSupported(m, b, reached) ==
  /\ DirectCall(m, b)
  /\ SignatureTypes(m, b) \subseteq KnownTypes(m)
  /\ Registers(m, b) => RetainedCallbackSupported(m, b)
  /\ \A t \in Gives(m, b) : OwnedDestructor(m, t, m.bindings[b].destructor) # None
  /\ \A t \in m.bindings[b].payload : t \in LocalTypes(m) /\ OwnedDestructor(m, t, None) # None
  /\ b \in DOMAIN m.signatures => PhysicallySupported(m, b, reached)

-----------------------------------------------------------------------------
(* One turn of the reachability loop: what a supported call brings along.  *)
(* Peer-slot accessors come with the types the signature names; those of   *)
(* the types they upcast to do not.                                        *)
PeerAccessors(m, types) == UNION {m.types[t].peer : t \in types \cap LocalTypes(m)}

(* An accessor is emitted on its own way, and only in one exact shape.     *)
Accessors(m) == PeerAccessors(m, LocalTypes(m))
AccessorSupported(m, b) ==
  LET a == m.bindings[b] IN
  /\ a.direct /\ a.base = None /\ a.errors = {} /\ a.owner = None
  /\ \E t \in LocalTypes(m) : b \in m.types[t].peer /\ a.takes = {t}
  /\ a.gives = None /\ a.payload = {}

FaultyBrings(m, b) == IF IsCall(m, b) THEN m.bindings[b].deps ELSE {}
Brings(m, b) ==
  IF IsCall(m, b) /\ DirectCall(m, b)
  THEN m.bindings[b].deps \cup PeerAccessors(m, SignatureTypes(m, b))
  ELSE {}

(* The handles a registration puts on a possible cycle: its result owns    *)
(* the closure, and a receiver that owns the registration owns the result. *)
CycleHandles(m, b) ==
  ({m.bindings[b].gives, m.bindings[b].owner} \ {Result}) \cap LocalTypes(m)

TraceableSeeds(m, reached) ==
  UNION {CycleHandles(m, b) : b \in {r \in reached : Registers(m, r)}}

(* Identity upcasts, between names of this manifest.                       *)
UpcastEdges(m) == {e \in LocalTypes(m) \X KnownTypes(m) :
                     e[2] \in m.types[e[1]].upcasts}

(* lowerType follows upcasts from a handle to every handle of this package *)
(* above it, and refuses a cycle and a target nobody declares.             *)
LocalUpcasts(m, types) ==
  [node |-> types, edge |-> {e \in UpcastEdges(m) : {e[1], e[2]} \subseteq types}]

Recursive(G) == \E e \in G.edge : ConnectionsIn(G)[e[2], e[1]]

LoweredTypes(m, roots) ==
  LET above == ConnectionsIn(LocalUpcasts(m, LocalTypes(m))) IN
  {t \in LocalTypes(m) : \E r \in roots \cap LocalTypes(m) : r = t \/ above[r, t]}

TypesRefused(m, types) ==
  \/ Recursive(LocalUpcasts(m, types))
  \/ \E t \in types : ~ m.types[t].upcasts \subseteq KnownTypes(m)

-----------------------------------------------------------------------------
(* The emission loop, over everything reached.  The two entries an error   *)
(* contract names are called by symbol and skipped, before their own link  *)
(* and adapter inputs are collected.                                       *)
ErrorEntries(m, reached) == UNION {m.bindings[b].errors : b \in {r \in reached : IsCall(m, r)}}
Emitted(m, reached) == reached \ ErrorEntries(m, reached)
EmittedCalls(m, reached) == {b \in Emitted(m, reached) : IsCall(m, b)}

LoweringRoots(m, selection, reached) ==
  selection.types \cup UNION {SignatureTypes(m, b) : b \in EmittedCalls(m, reached)}

Refuses(m, selection, reached) ==
  \/ ~ Emitted(m, reached) \subseteq BindingIds(m)
  \/ \E b \in EmittedCalls(m, reached) :
       IF b \in Accessors(m) THEN ~ AccessorSupported(m, b) ELSE ~ BindingSupported(m, b, reached)
  \/ LET roots == LoweringRoots(m, selection, reached) IN
       ~ roots \subseteq KnownTypes(m) \/ TypesRefused(m, LoweredTypes(m, roots))

(* A call in the compiler's input: all of its contract, and the bindings   *)
(* that release what it owns, under their composed identity.               *)
LoweredBinding(m, b) ==
  [contract |-> m.bindings[b],
   signature |-> IF b \in DOMAIN m.signatures
                 THEN {Physical!LoweredSignature(m.signatures[b], m.bindings[b].owner)} ELSE {},
   destroys |-> {OwnedDestructor(m, t, m.bindings[b].destructor) : t \in Gives(m, b)}
                \cup {OwnedDestructor(m, t, None) : t \in m.bindings[b].payload}]

LoweredType(m, t, marked) ==
  [contract |-> m.types[t].contract,
   upcasts |-> {TypeIdentity(m, u) : u \in m.types[t].upcasts},
   peer |-> {Scoped(m, b) : b \in m.types[t].peer},
   traceable |-> t \in marked]

(* The link inputs of the calls emitted, in the manifest's order; equal    *)
(* places are settled by the id.                                           *)
LinkPrecedes(m, l, k) ==
  \/ m.links[l].order < m.links[k].order
  \/ m.links[l].order = m.links[k].order /\ l < k

LinkSequence(m, ids) ==
  CHOOSE seq \in [1..Cardinality(ids) -> ids] :
    \A i, j \in DOMAIN seq : i < j => LinkPrecedes(m, seq[i], seq[j])

LoweredPackage(m, selection, reached, marked) ==
  LET calls == EmittedCalls(m, reached)
      types == LoweredTypes(m, LoweringRoots(m, selection, reached))
      links == UNION {m.bindings[b].links : b \in calls}
      adapters == UNION {m.bindings[b].adapters : b \in calls}
  IN [target |-> m.target,
      types |-> [i \in {Scoped(m, t) : t \in types} |-> LoweredType(m, i[2], marked)],
      bindings |-> [i \in {Scoped(m, b) : b \in calls} |-> LoweredBinding(m, i[2])],
      links |-> LinkSequence(m, links),
      names |-> [l \in links |-> m.links[l].name],
      adapters |-> [a \in adapters |-> m.adapters[a]]]
=============================================================================
