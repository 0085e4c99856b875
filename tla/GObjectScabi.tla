----------------------------- MODULE GObjectScabi -----------------------------
(***************************************************************************)
(* The GIR namespaces of a project on their way to packages of native      *)
(* bindings (buildGtkApplication of target-gtk/src/application-build.ts up *)
(* to the generated packages): what is selected of each is ingested, its   *)
(* adapter source generated, its snapshot projected to a SCABI manifest    *)
(* over it, and the manifest parsed before it is written                   *)
(* (generateGObjectScabiManifest of bindgen-gir/src/gobject-scabi.ts).     *)
(* Clang evidence and digests are left out, and with them everything whose *)
(* source, C and ABI spelling the probe decides.                           *)
(***************************************************************************)
EXTENDS NativePackage, GObjectAdapter

CONSTANT Plans \* sequences of [document, selection, supplied: namespaces imported]

VARIABLES
  plan,      \* the namespaces of the project, in its order
  phase,     \* "describe", "ingest", "plan", then of the next package
             \* "adapt", "project", "parse", or how it ended
  snapshots, \* ingested so far
  adapter,   \* the adapter source of the namespace in progress
  manifest,  \* and what was projected over it
  packages   \* the manifests written so far

vars == <<plan, phase, snapshots, adapter, manifest, packages>>

EmptyFunction == [x \in {} |-> x]

-----------------------------------------------------------------------------
(* A handle type is named by its reference, a binding by a tuple of what   *)
(* its id is spelled from.                                                 *)
LocalReleaseId(s, a, c) ==
  IF s.classes[c].kind = "record" THEN <<s.namespace, c, "free">>
  ELSE <<s.namespace, a.releases[c], "release">>

(* importedClasses: what the owner calls the release is derived again here. *)
ImportedReleaseId(imports, ref) ==
  <<ref[1], ref[2], IF imports[ref[1]].classes[ref[2]].kind = "record" THEN "free" ELSE "release">>

ConnectionType(s) == <<s.namespace, "SignalConnection">>
ConnectionId(s, what) == <<s.namespace, "SignalConnection", what>>
ErrorId(s, what) == <<s.namespace, "error", what>>

ResolvedHandle(s, imports, v) == Denotes(s, imports, v)
Local(s, ref) == ref[1] = s.namespace
LocalDestructor(s, a, ref) == IF Local(s, ref) THEN {LocalReleaseId(s, a, ref[2])} ELSE {}

-----------------------------------------------------------------------------
(* reachedForeignTypeNames: what the callables of classes and interfaces   *)
(* name of other namespaces.  Those of boxed records are not looked at.    *)
ValuesOf(k) == {v \in Range(k.takes) \cup {k.gives} : v.class # <<>>}
CallablesOf(class) == Range(class.constructors) \cup Range(class.methods) \cup Range(class.signals)

ReachedForeignTypeNames(s) ==
  {v.class : v \in {w \in UNION {ValuesOf(k) : k \in UNION {CallablesOf(s.classes[c]) : c \in Released(s)}} :
                      ~ Local(s, w.class)}}

(* A foreign value type is defined here again, once it is reached; the     *)
(* members of an enumeration are constants of its owner only.              *)
Enumerations(s, imports) ==
  [e \in {Here(s, n) : n \in DOMAIN s.enumerations}
         \cup {t \in ReachedForeignTypeNames(s) :
                 t[1] \in DOMAIN imports /\ t[2] \in DOMAIN imports[t[1]].enumerations} |->
     IF Local(s, e) THEN s.enumerations[e[2]] ELSE imports[e[1]].enumerations[e[2]]]

LayoutProjects(fields) == \A f \in DOMAIN fields : fields[f].gives.kind = "scalar"

Layouts(s, imports) ==
  [l \in {Here(s, n) : n \in DOMAIN s.layouts}
         \cup {t \in ReachedForeignTypeNames(s) :
                 /\ t[1] \in DOMAIN imports /\ t[2] \in DOMAIN imports[t[1]].layouts
                 /\ LayoutProjects(imports[t[1]].layouts[t[2]])} |->
     IF Local(s, l) THEN s.layouts[l[2]] ELSE imports[l[1]].layouts[l[2]]]

EnumerationKnown(s, imports, v) == v.kind = "enumeration" /\ v.class \in DOMAIN Enumerations(s, imports)
LayoutKnown(s, imports, v) == v.kind = "layout" /\ v.class \in DOMAIN Layouts(s, imports)

-----------------------------------------------------------------------------
(* inputParameter: every input projection, in one ladder.  Only a handle   *)
(* may move to the callee.                                                 *)
VectorParameter(p) == p.transfer = "none"
StringParameter(p) == p.transfer = "none" /\ p.exact
ValueParameter(p) == p.transfer = "none" /\ p.exact /\ ~ p.nullable
HandleParameter(s, imports, p) ==
  ResolvedHandle(s, imports, p) /\ p.exact /\ p.transfer \in {"none", "full"}

InputParameter(s, imports, p) ==
  /\ p.direction = "in" /\ p.plain /\ ~ p.storage
  /\ CASE p.kind = "vector" -> VectorParameter(p)
       [] p.kind = "string" -> StringParameter(p)
       [] p.kind \in {"boolean", "scalar"} \/ EnumerationKnown(s, imports, p) -> ValueParameter(p)
       [] OTHER -> HandleParameter(s, imports, p)

HandleResult(s, imports, g) == ResolvedHandle(s, imports, g) /\ g.transfer = "full" /\ g.exact
ValueResult(g) == g.transfer = "none" /\ ~ g.nullable
StringResult(g) == g.transfer \in {"none", "full"} /\ g.exact

MethodResult(s, imports, g) ==
  /\ g.plain
  /\ CASE g.kind \in {"void", "boolean", "scalar"} -> ValueResult(g)
       [] EnumerationKnown(s, imports, g) -> ValueResult(g) /\ g.exact
       [] g.kind = "vector" -> TRUE
       [] g.kind = "string" -> StringResult(g)
       [] OTHER -> HandleResult(s, imports, g)

(* What an adapter forwards is looked up by the class's bare name.         *)
ForwardedType(s, p) == Here(s, p.class[2])
ForwardedKnown(s, imports, p) ==
  /\ p.kind = "object" => p.class[2] \in Declared(s)
  /\ p.kind = "enumeration" => EnumerationKnown(s, imports, p)

(* Getters and setters of one property pair up.                            *)
PropertyMethods(class, q) ==
  [reads |-> {k \in DOMAIN class.methods : q \in class.methods[k].reads},
   writes |-> {k \in DOMAIN class.methods : q \in class.methods[k].writes}]

Coherent(getter, setter) ==
  /\ getter.takes = EmptyFunction /\ setter.gives.kind = "void" /\ Cardinality(DOMAIN setter.takes) = 1
  /\ \A p \in Range(setter.takes) : p.kind = getter.gives.kind /\ p.class = getter.gives.class

PropertiesOf(class) ==
  UNION {class.methods[k].reads \cup class.methods[k].writes : k \in DOMAIN class.methods}

PropertiesFit(class) ==
  /\ \A k \in DOMAIN class.methods : class.methods[k].reads = {} \/ class.methods[k].writes = {}
  /\ \A q \in PropertiesOf(class) : LET a == PropertyMethods(class, q) IN
       /\ Cardinality(a.reads) <= 1 /\ Cardinality(a.writes) <= 1
       /\ \A g \in a.reads, w \in a.writes : Coherent(class.methods[g], class.methods[w])

(* A pair is a property, unless reading it may answer differently each     *)
(* time: a string that can be absent, or an object.                        *)
ProjectedProperty(s, imports, class, k) ==
  {q \in class.methods[k].reads \cup class.methods[k].writes :
     LET a == PropertyMethods(class, q) IN
     a.writes # {} /\ \E g \in a.reads :
       /\ ~ (class.methods[g].gives.kind = "string" /\ class.methods[g].gives.nullable)
       /\ ~ BorrowedResult(s, imports, class.methods[g])}

-----------------------------------------------------------------------------
(* Members that project without a diagnostic.                              *)
DirectFits(s, imports, k) ==
  /\ k.receiver /\ k.gives.plain
  /\ \A p \in Range(k.takes) : InputParameter(s, imports, p)
  /\ MethodResult(s, imports, k.gives)

RetainedFits(s, imports, a, k) ==
  /\ k.receiver
  /\ Local(s, k.gives.class) => k.gives.class[2] \in DOMAIN a.releases
  /\ \A p \in Range(k.takes) : InputParameter(s, imports, p)

BoxedOutput(s, k) == CHOOSE r \in {p.class : p \in {q \in Range(k.takes) : q.direction = "out"}} : TRUE

MethodProjects(s, imports, a, k) ==
  LET shape == MethodShape(s, imports, k)
      forwarded == \A p \in Range(k.takes) : p.direction = "in" => ForwardedKnown(s, imports, p)
      filled == \A p \in Range(k.takes) : p.kind = "layout" => LayoutKnown(s, imports, p)
  IN CASE shape = "retained" -> RetainedFits(s, imports, a, k)
       [] shape = "boxed" -> k.receiver /\ Local(s, BoxedOutput(s, k)) /\ forwarded
       [] shape = "value" -> k.receiver /\ forwarded /\ filled
       [] OTHER -> DirectFits(s, imports, k)

(* An answer must exist before the emission returns, so only values cross  *)
(* to a handler that gives one.                                            *)
SignalProjects(s, imports, k) ==
  /\ \A p \in Range(k.takes) : p.kind = "object" => Local(s, p.class)
  /\ \A p \in Range(k.takes) : p.kind = "string" => p.exact
  /\ \A p \in Range(k.takes) : p.kind = "enumeration" => EnumerationKnown(s, imports, p)
  /\ k.gives.kind = "boolean" => \A p \in Range(k.takes) : p.kind \in {"scalar", "enumeration"}

NotifyProjects(class, q) == PropertyMethods(class, q).reads # {}

ConstructorProjects(s, imports, k) ==
  k.gives.plain /\ \A p \in Range(k.takes) : InputParameter(s, imports, p)

(* A boxed record crosses through a copy that hands back a full transfer   *)
(* of itself and a free that takes one and returns nothing.                *)
BoxedProjects(s, c, boxed) ==
  LET copy == boxed.copy.callable  free == boxed.free.callable IN
  /\ copy.takes = EmptyFunction /\ copy.receiver
  /\ copy.gives.kind = "object" /\ copy.gives.class = Here(s, c)
  /\ copy.gives.transfer = "full" /\ ~ copy.gives.nullable
  /\ free.takes = EmptyFunction /\ free.gives.kind = "void" /\ ~ free.throws

ClassProjects(s, imports, a, c) ==
  LET class == s.classes[c] IN
  /\ \A boxed \in class.boxed : BoxedProjects(s, c, boxed)
  /\ PropertiesFit(class)
  /\ \A k \in DOMAIN class.methods : MethodProjects(s, imports, a, class.methods[k])
  /\ \A k \in DOMAIN class.signals : SignalProjects(s, imports, class.signals[k])
  /\ \A q \in class.notify : NotifyProjects(class, q)
  /\ \A k \in DOMAIN class.constructors : ConstructorProjects(s, imports, class.constructors[k])

-----------------------------------------------------------------------------
(* Projections: an id, the declaration it claims, whether it is one side   *)
(* of a property, its symbol and the binding itself.                       *)
Call == [kind |-> "call", deps |-> {}, links |-> {1}, adapters |-> {}, takes |-> {},
         gives |-> None, payload |-> {}, destructor |-> None, base |-> None, owner |-> None,
         cancel |-> None, errors |-> {}, direct |-> TRUE]
Adapted(s) == [Call EXCEPT !.adapters = {<<s.namespace, "adapters">>}]

Projection(id, declares, symbol, binding) ==
  [id |-> id, declares |-> declares, property |-> FALSE, symbol |-> symbol, binding |-> binding]

Support(s, a) ==
  (IF a.connection
   THEN {Projection(ConnectionId(s, w), <<"SignalConnection", w>>, ConnectionSymbol(s, w),
                    [Adapted(s) EXCEPT !.takes = {ConnectionType(s)}]) :
           w \in {"disconnect", "connected", "release"}}
   ELSE {})
  \cup (IF a.errors
        THEN {Projection(ErrorId(s, w), <<"NativeError", w>>, ErrorSymbol(s, w), Adapted(s)) :
                w \in {"message", "free"}}
        ELSE {})

(* A boxed record's free is its own; of the classes, a host has a release. *)
Release(s, a, c) ==
  LET id == LocalReleaseId(s, a, c) IN
  IF s.classes[c].kind = "record"
  THEN {Projection(id, <<c, "dispose">>, boxed.free.callable.id, [Call EXCEPT !.takes = {Here(s, c)}]) :
          boxed \in s.classes[c].boxed}
  ELSE IF a.releases[c] = c
  THEN {Projection(id, <<c, "dispose">>, ReleaseSymbol(s, c), [Adapted(s) EXCEPT !.takes = {Here(s, c)}])}
  ELSE {}

Handles(k) == {p.class : p \in {q \in Range(k.takes) : q.kind = "object" /\ q.direction = "in"}}
ForwardedHandles(s, k) ==
  {ForwardedType(s, p) : p \in {q \in Range(k.takes) : q.kind = "object" /\ q.direction = "in"}}

RetainedRelease(s, k) ==
  IF Local(s, k.gives.class) THEN {<<s.namespace, k.gives.class[2], "release">>} ELSE {}

RetainedMethod(s, c, m) ==
  [Adapted(s) EXCEPT !.takes = {Here(s, c)} \cup Handles(m), !.gives = m.gives.class,
                     !.deps = RetainedRelease(s, m)]

BoxedMethod(s, a, c, m) ==
  [Adapted(s) EXCEPT !.takes = {Here(s, c)} \cup ForwardedHandles(s, m), !.gives = BoxedOutput(s, m),
                     !.deps = LocalDestructor(s, a, BoxedOutput(s, m))]

ValueMethod(s, c, m) == [Adapted(s) EXCEPT !.takes = {Here(s, c)} \cup ForwardedHandles(s, m)]

DirectMethod(s, a, c, m) ==
  LET errors == IF m.throws THEN {ErrorId(s, "message"), ErrorId(s, "free")} ELSE {}
      owned == IF m.gives.kind = "object" THEN LocalDestructor(s, a, m.gives.class) ELSE {}
  IN [Call EXCEPT !.takes = {Here(s, c)} \cup Handles(m),
                  !.gives = IF m.gives.kind = "object" THEN m.gives.class ELSE None,
                  !.deps = owned \cup errors, !.errors = errors]

MethodBinding(s, imports, a, c, k) ==
  LET m == s.classes[c].methods[k]
      shape == MethodShape(s, imports, m)
  IN CASE shape = "retained" -> RetainedMethod(s, c, m)
       [] shape = "boxed" -> BoxedMethod(s, a, c, m)
       [] shape = "value" -> ValueMethod(s, c, m)
       [] OTHER -> DirectMethod(s, a, c, m)

Method(s, imports, a, c, k) ==
  LET class == s.classes[c]
      shape == MethodShape(s, imports, class.methods[k])
      property == IF shape = "direct" THEN ProjectedProperty(s, imports, class, k) ELSE {}
      id == IF shape \in {"boxed", "value"} THEN MemberSymbol(s, imports, c, "method", k) ELSE <<s.namespace, c, k>>
  IN [Projection(id, <<c, IF property = {} THEN k ELSE CHOOSE q \in property : TRUE>>,
                 MemberSymbol(s, imports, c, "method", k), MethodBinding(s, imports, a, c, k))
      EXCEPT !.property = property # {}]

(* emitSignalRegistration: the receiver owns the registration.             *)
Registration(s, imports, c, id, declares, symbol, payload) ==
  Projection(id, declares, symbol,
    [Adapted(s) EXCEPT !.takes = {Here(s, c)}, !.gives = ConnectionType(s), !.owner = Here(s, c),
                       !.cancel = ConnectionId(s, "disconnect"), !.payload = payload,
                       !.deps = {ConnectionId(s, "disconnect"), ConnectionId(s, "release")}])

ClassProjections(s, imports, a, c) ==
  LET class == s.classes[c] IN
  Release(s, a, c)
  \cup {Method(s, imports, a, c, k) : k \in DOMAIN class.methods}
  \cup {Registration(s, imports, c, <<s.namespace, c, "connect", k>>, <<c, "on", k>>,
                     MemberSymbol(s, imports, c, "signal", k), Handles(class.signals[k])) :
          k \in DOMAIN class.signals}
  \cup {Registration(s, imports, c, <<s.namespace, c, "connect", "notify", q>>, <<c, "on", "notify", q>>,
                     MemberSymbol(s, imports, c, "notify", q), {}) : q \in class.notify}
  \cup {Projection(<<s.namespace, c, k>>, <<c, k>>, MemberSymbol(s, imports, c, "constructor", k),
                   [Adapted(s) EXCEPT !.takes = Handles(class.constructors[k]), !.gives = Here(s, c),
                                      !.deps = {LocalReleaseId(s, a, c)}]) :
          k \in DOMAIN class.constructors}

Constants(s) ==
  UNION {{Projection(<<s.namespace, e, m>>, <<e, m>>, None, [Call EXCEPT !.kind = "constant", !.links = {}]) :
            m \in s.enumerations[e]} : e \in DOMAIN s.enumerations}

Projections(s, imports, a) ==
  Support(s, a) \cup Constants(s) \cup UNION {ClassProjections(s, imports, a, c) : c \in Declared(s)}

(* Two sides of a property share its declaration, nothing else does.       *)
Collide(p, q) ==
  /\ p # q
  /\ \/ p.id = q.id
     \/ p.declares = q.declares /\ ~ (p.property /\ q.property)

Projects(s, imports, a) ==
  /\ \A l \in DOMAIN s.layouts : LayoutProjects(s.layouts[l])
  /\ \A c \in Declared(s) : ClassProjects(s, imports, a, c)
  /\ \A p, q \in Projections(s, imports, a) : ~ Collide(p, q)

-----------------------------------------------------------------------------
(* GIR repeats the interfaces of an ancestor; the edge stays where it is   *)
(* first stated.  A parent nobody supplied leaves the class a root.        *)
InternalAncestors(s, c) ==
  LET chain == [node |-> Declared(s),
                edge |-> {e \in Declared(s) \X Declared(s) : Here(s, e[2]) \in s.classes[e[1]].parent}]
      above == ConnectionsIn(chain)
  IN {b \in Declared(s) : above[c, b]} \ {c}

FaultyInherited(s, c) == {}
Inherited(s, c) == UNION {s.classes[b].interfaces : b \in InternalAncestors(s, c)}

Upcasts(s, imports, c) ==
  (s.classes[c].parent \cap Names(s, imports))
  \cup {i \in s.classes[c].interfaces \ Inherited(s, c) : Local(s, i) /\ i[2] \in Declared(s)}

HandleTypes(s, imports, a) ==
  [t \in {Here(s, c) : c \in Declared(s)} \cup (IF a.connection THEN {ConnectionType(s)} ELSE {}) |->
     IF t = ConnectionType(s)
     THEN [contract |-> "none", upcasts |-> {}, destructor |-> ConnectionId(s, "release"), peer |-> {}]
     ELSE [contract |-> IF s.classes[t[2]].kind = "record" THEN "none" ELSE "pointer",
           upcasts |-> Upcasts(s, imports, t[2]),
           destructor |-> LocalReleaseId(s, a, t[2]), peer |-> {}]]

(* resolveImportedClass records each imported class it is asked for.       *)
FaultyReached(s, imports, bindings) ==
  {t \in UNION ({s.classes[c].parent : c \in Declared(s)} \cup {bindings[b].takes : b \in DOMAIN bindings}) :
     ~ Local(s, t) /\ t \in Names(s, imports)}
Reached(s, imports, bindings) ==
  {t \in UNION ({s.classes[c].parent : c \in Declared(s)}
                \cup {bindings[b].takes \cup ({bindings[b].gives} \ {None}) : b \in DOMAIN bindings}) :
     ~ Local(s, t) /\ t \in Names(s, imports)}

Manifest(s, imports, a) ==
  LET all == Projections(s, imports, a)
      of == [i \in {p.id : p \in all} |-> CHOOSE p \in all : p.id = i]
      bindings == [i \in DOMAIN of |-> of[i].binding]
  IN [instance |-> s.namespace, target |-> "64",
      types |-> HandleTypes(s, imports, a),
      imports |-> [t \in Reached(s, imports, bindings) |->
                     [package |-> t[1], type |-> t, destructor |-> ImportedReleaseId(imports, t)]],
      values |-> [enumerations |-> Enumerations(s, imports), layouts |-> Layouts(s, imports)],
      bindings |-> bindings, signatures |-> EmptyFunction,
      symbols |-> [i \in {j \in DOMAIN of : of[j].symbol # None} |-> of[i].symbol],
      links |-> [l \in {1} |-> [name |-> "sdk", order |-> 0]],
      adapters |-> [x \in {<<s.namespace, "adapters">>} |->
                      {i \in DOMAIN of : of[i].binding.adapters # {}}]]

-----------------------------------------------------------------------------
Snapshot == snapshots[Len(packages) + 1]
Imports == [n \in plan[Len(packages) + 1].supplied |->
              snapshots[CHOOSE i \in DOMAIN snapshots : snapshots[i].namespace = n]]

Init ==
  /\ plan \in Plans
  /\ phase = "describe" /\ snapshots = <<>>
  /\ adapter = EmptyFunction /\ manifest = EmptyFunction /\ packages = <<>>

(* parseGtkApplicationProject: imports resolve by position.                *)
ImportsFit ==
  \A i \in DOMAIN plan : plan[i].supplied \subseteq {plan[j].document.namespace : j \in 1..(i - 1)}

Describe ==
  /\ phase = "describe"
  /\ phase' = IF ImportsFit THEN "ingest" ELSE "refused"
  /\ UNCHANGED <<plan, snapshots, adapter, manifest, packages>>

Ingest ==
  /\ phase = "ingest"
  /\ LET next == plan[Len(snapshots) + 1] IN
       IF IngestRefuses(next.document, next.selection)
       THEN phase' = "refused" /\ UNCHANGED snapshots
       ELSE /\ snapshots' = Append(snapshots, GirSnapshotOf(next.document, next.selection))
            /\ phase' = IF Len(snapshots') = Len(plan) THEN "plan" ELSE "ingest"
  /\ UNCHANGED <<plan, adapter, manifest, packages>>

(* planGirNamespaceAnalysis: a request may not import its own namespace,   *)
(* and the artifacts of two analyses of one namespace would be the same.   *)
RequestsFit ==
  /\ \A i \in DOMAIN plan : snapshots[i].namespace \notin plan[i].supplied
  /\ \A i, j \in DOMAIN plan : i # j => snapshots[i].namespace # snapshots[j].namespace

PlanAnalysis ==
  /\ phase = "plan"
  /\ phase' = IF RequestsFit THEN "adapt" ELSE "refused"
  /\ UNCHANGED <<plan, snapshots, adapter, manifest, packages>>

Adapt ==
  /\ phase = "adapt"
  /\ IF AdapterGenerates(Snapshot, Imports)
     THEN phase' = "project" /\ adapter' = AdapterSource(Snapshot, Imports)
     ELSE phase' = "refused" /\ UNCHANGED adapter
  /\ UNCHANGED <<plan, snapshots, manifest, packages>>

Project ==
  /\ phase = "project"
  /\ IF Projects(Snapshot, Imports, adapter)
     THEN phase' = "parse" /\ manifest' = Manifest(Snapshot, Imports, adapter)
     ELSE phase' = "refused" /\ UNCHANGED manifest
  /\ UNCHANGED <<plan, snapshots, adapter, packages>>

(* parseScabiManifest.                                                     *)
Parse ==
  /\ phase = "parse"
  /\ IF ManifestValid(manifest)
     THEN /\ packages' = Append(packages, manifest)
          /\ phase' = IF Len(packages) + 1 = Len(plan) THEN "written" ELSE "adapt"
     ELSE phase' = "invalid" /\ UNCHANGED packages
  /\ UNCHANGED <<plan, snapshots, adapter, manifest>>

Next == Describe \/ Ingest \/ PlanAnalysis \/ Adapt \/ Project \/ Parse

Spec == Init /\ [][Next]_vars

-----------------------------------------------------------------------------
IsInterface(t) == t # ConnectionType(Snapshot) /\ Snapshot.classes[t[2]].kind = "interface"
Above(m, t) == {u \in LocalTypes(m) : ConnectionsIn(LocalUpcasts(m, LocalTypes(m)))[t, u]}

(* Whatever produced a handle, its type names what ends the claim: exactly *)
(* one binding of the package, taking the type itself or one it upcasts    *)
(* to, and defined: by the adapter, shared by the whole chain and taking   *)
(* what no longer upcasts to anything the package declares a class for; or *)
(* as a boxed record's own free, which nothing else shares: the function   *)
(* its document names, or calls free when it names none.  No binding of a  *)
(* program's calls that function again.                                    *)
Document == plan[Len(packages) + 1].document
FreeStated(c, symbol) ==
  \E e \in Document.elements : \E m \in e.members :
    /\ e.kind = "record" /\ e.name = c /\ m.callable.id = symbol
    /\ IF e.free = {} THEN m.name = "free" ELSE symbol \in e.free

ReleasedOnce ==
  phase = "parse" =>
    \A t \in LocalTypes(manifest) : LET d == manifest.types[t].destructor IN
      /\ d \in BindingIds(manifest)
      /\ \A b \in DOMAIN manifest.symbols : manifest.symbols[b] = manifest.symbols[d] => b = d
      /\ t[2] \in Declared(Snapshot) /\ Snapshot.classes[t[2]].kind = "record"
            => FreeStated(t[2], manifest.symbols[d])
      /\ \E u \in Above(manifest, t) : manifest.bindings[d].takes = {u}
      /\ \A u \in LocalTypes(manifest) :
           /\ manifest.types[u].destructor = d /\ manifest.types[u].contract = "none" => u = t
           /\ t \in Above(manifest, u) /\ ~ IsInterface(t) => manifest.types[u].destructor = d

(* The bindings a package says its adapter produces are the functions the  *)
(* generated source defines, each once; and no two packages of a program   *)
(* define one function, though they may declare a class of the same name.  *)
AdapterIsExact ==
  phase = "parse" =>
    LET produced == UNION Range(manifest.adapters)
        symbols == {manifest.symbols[b] : b \in produced}
    IN /\ symbols = {d.symbol : d \in adapter.defines}
       /\ Cardinality(symbols) = Cardinality(adapter.defines) /\ Cardinality(symbols) = Cardinality(produced)
       /\ \A p \in Range(packages) : Range(p.symbols) \cap Range(manifest.symbols) = {}

(* A value may be used as anything its class is: its upcasts reach each    *)
(* ancestor and implemented interface the generator was given, and every   *)
(* ancestor its document gives it in the namespace, selected by name or    *)
(* not, through classes of the package; they state no relationship twice.  *)
Lineage(c) ==
  LET classes == {e \in Document.elements : e.kind = "class"}
      up == [node |-> {e.name : e \in classes},
             edge |-> {<<e.name, Reference(Document, raw)[2]>> :
                         <<e, raw>> \in {f \in classes \X UNION {g.parent : g \in classes} :
                                            f[2] \in f[1].parent /\ Reference(Document, f[2])[1] = Document.namespace}}]
  IN {b \in up.node : c \in up.node /\ ConnectionsIn(up)[c, b]}

Supertypes(c) ==
  LET family == InternalAncestors(Snapshot, c) \cup {c} IN
  UNION {Snapshot.classes[b].parent : b \in family}
  \cup {i \in UNION {Snapshot.classes[b].interfaces : b \in family} : Local(Snapshot, i)}

UpcastsAreHierarchy ==
  phase = "parse" =>
    \A c \in Declared(Snapshot) :
      LET t == Here(Snapshot, c)
          direct == manifest.types[t].upcasts
          reach(u) == {u} \cup UNION {manifest.types[v].upcasts : v \in Above(manifest, u)}
      IN /\ reach(t) = {t} \cup (Supertypes(c) \cap Names(Snapshot, Imports))
         /\ {Here(Snapshot, b) : b \in Lineage(c)} \subseteq reach(t)
         /\ \A u, v \in direct \cap LocalTypes(manifest) : u # v => v \notin reach(u)

(* The compiler takes every binding of a package that is written, so that  *)
(* a selection of any of its members builds; and a package defines every   *)
(* enumeration and layout its callables name, its own or another's.        *)
NamedValues(s) ==
  {v \in UNION {ValuesOf(k) : k \in UNION {CallablesOf(s.classes[c]) : c \in Declared(s)}} :
     v.kind \in {"enumeration", "layout"}}

GeneratedIsCallable ==
  /\ \A p \in Range(packages) :
       /\ ~ Refuses(p, [types |-> LocalTypes(p)], BindingIds(p))
       /\ \A b \in BindingIds(p) : Brings(p, b) \subseteq BindingIds(p)
  /\ phase = "parse" =>
       \A v \in NamedValues(Snapshot) :
         v.class \in DOMAIN (IF v.kind = "layout" THEN manifest.values.layouts ELSE manifest.values.enumerations)

(* "A member RETURNING a Button therefore depends on `gtk_widget_release`, *)
(* and naming `gtk_button_release` would name a binding that was never     *)
(* emitted" (tests/gtk-scabi.test.ts): what is projected without a         *)
(* diagnostic depends on bindings the package has.                         *)
GeneratedIsValid == phase # "invalid"
=============================================================================
