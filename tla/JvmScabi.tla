------------------------------- MODULE JvmScabi -------------------------------
(***************************************************************************)
(* A selection of Java classes on its way to a package of native bindings: *)
(* the classes its ancestry needs are taken out of the archive             *)
(* (target-jvm/src/android-application.ts), subclasses of them generated   *)
(* and compiled (application-build.ts), all of them ingested, given an adapter     *)
(* source, projected to a SCABI manifest and parsed                        *)
(* (generateJvmScabiPackage of bindgen-jvm/src/jvm-scabi.ts).  Clang       *)
(* evidence, digests and declaration text are left out.                    *)
(***************************************************************************)
EXTENDS NativePackage, JvmAdapter, JvmSubclass

CONSTANTS
  Plans,   \* sets of [archive, selection, slots, subclasses]
  Lower(_) \* a name in lower case

VARIABLES
  plan,      \* what is asked for
  phase,     \* "extract", "generate", "ingest", "adapt", "project", "parse", or how it ended
  project,   \* selection and peer slots, of the generated subclasses too
  files,     \* the classes taken out of the archive
  snapshot,  \* what was ingested
  adapter,   \* the adapter source
  manifest,  \* what was projected over it
  sidecar    \* what a direct JVM backend may do without the adapter

vars == <<plan, phase, project, files, snapshot, adapter, manifest, sidecar>>

Empty == [x \in {} |-> x]
Slug == "slug"

-----------------------------------------------------------------------------
(* Names.  A class is called by its simple name, nesting and all; an id is *)
(* its token in lower case.                                                *)
TypeId(c) == <<"jvm">> \o [i \in DOMAIN Token(c) |-> Lower(Token(c)[i])]
MemberId(c, member) == Tail(TypeId(c)) \o member
Root == <<"jvm", "object">>
Connection == <<"jvm", "connection">>
ObjectRelease == <<"object", "release">>
Disconnect == <<"connection", "disconnect">>
ConnectionRelease == <<"connection", "release">>
ErrorPair == {<<"error", "message">>, <<"error", "release">>}

Nested(c) == Len(c[2]) > 1
NamesCollide(s) == \E c, d \in DOMAIN s : c # d /\ c[2] = d[2]

(* A method's id is decided once, for itself and for the callback whose    *)
(* super call it is: the first of its name is plain.  One that is listed   *)
(* twice has the id of the later entry in both places.                     *)
FirstOf(S) == CHOOSE x \in S : TRUE
Ways(s, c, k) == {m \in s[c].methods : m[2] = k}
Plain(s, c, k) ==
  Cardinality(Ways(s, c, k)) = 1 /\ k = FirstOf({m[2] : m \in {n \in s[c].methods : n[2][1] = k[1]}})
MethodId(s, c, m) == MemberId(c, <<Lower(m[2][1])>> \o Suffix(~ Plain(s, c, m[2]), m[2][2]))

ConstructorId(s, c, d) ==
  MemberId(c, IF d = FirstOf(s[c].constructors) THEN <<"constructor">> ELSE <<"new", d>>)

CallbackId(c, k) == MemberId(c, <<Lower(k[1])>>)
PeerId(c, what) == MemberId(c, <<"peer", what>>)

BaseMethods(s, c, k) == {m \in s[c].methods : m[2] \in s[c].callbacks[k].base}

-----------------------------------------------------------------------------
(* Every class upcasts to the superclasses and interfaces it was ingested  *)
(* with, and to the root that the one release takes.                       *)
Along(s, Above(_)) ==
  ConnectionsIn([node |-> DOMAIN s, edge |-> {e \in (DOMAIN s) \X (DOMAIN s) : e[2] \in Above(e[1])}])

Lineage(s, c) ==
  LET up == Along(s, LAMBDA b : s[b].super)
  IN {d \in DOMAIN s : \E b \in s[c].super \cap DOMAIN s : up[b, d]}

FaultyInterfaces(s, c) == {}
Interfaces(s, c) ==
  LET up == Along(s, LAMBDA b : s[b].interfaces)
  IN {d \in DOMAIN s : \E i \in s[c].interfaces \cap DOMAIN s : up[i, d]}

(* The walk up from a class that is its own ancestor does not end.         *)
Hangs(s) == \E c \in DOMAIN s : c \in Lineage(s, c)

HandleTypes(s, slots, connection) ==
  [t \in {TypeId(c) : c \in DOMAIN s} \cup {Root} \cup (IF connection THEN {Connection} ELSE {}) |->
     CASE t = Connection -> [contract |-> "none", upcasts |-> {}, destructor |-> ConnectionRelease, peer |-> {}]
       [] t = Root -> [contract |-> "none", upcasts |-> {}, destructor |-> None, peer |-> {}]
       [] OTHER -> LET c == CHOOSE d \in DOMAIN s : TypeId(d) = t IN
            [contract |-> "none",
             upcasts |-> {TypeId(d) : d \in Lineage(s, c) \cup Interfaces(s, c)} \cup {Root},
             destructor |-> ObjectRelease,
             peer |-> IF c \in {p[1] : p \in slots} THEN {PeerId(c, "read"), PeerId(c, "write")} ELSE {}]]

-----------------------------------------------------------------------------
(* Members that project without a diagnostic.  A nested class has no       *)
(* members, but for its first constructor.                                 *)
ConstantProjects(s, slots, c, f) ==
  LET field == s[c].file.fields[f] IN
  \/ <<c, f>> \in slots
  \/ field.constant = "carried" /\ ~ Nested(c)
  \/ field.constant = "other" /\ f \notin s[c].named

CallbackProjects(s, c, k) ==
  /\ ~ Nested(c)
  /\ s[c].callbacks[k].base # {} => BaseMethods(s, c, k) # {}
  /\ s[c].callbacks[k].anchor = "class" => s[c].super # {}

ClassProjects(s, slots, c) ==
  /\ \A f \in s[c].fields : ConstantProjects(s, slots, c, f)
  /\ Nested(c) => Cardinality(s[c].constructors) <= 1 /\ s[c].methods = {}
  /\ \A k \in DOMAIN s[c].callbacks : CallbackProjects(s, c, k)

-----------------------------------------------------------------------------
(* Projections: who asked, the id, the symbol and the binding.             *)
Call == [kind |-> "call", deps |-> {}, links |-> {1}, adapters |-> {"jvm"}, takes |-> {},
         gives |-> None, payload |-> {}, destructor |-> None, base |-> None, owner |-> None,
         cancel |-> None, errors |-> {}, direct |-> TRUE]
Failing == [Call EXCEPT !.errors = ErrorPair, !.deps = ErrorPair]

Projection(of, id, symbol, binding) == [of |-> of, id |-> id, symbol |-> symbol, binding |-> binding]

Handles(k) == {TypeId(k.takes[i].class) : i \in {j \in DOMAIN k.takes : k.takes[j].kind = "object"}}
Receiver(c, k) == IF k.static THEN {} ELSE {TypeId(c)}

Support(slots, connection) ==
  {Projection(<<"package">>, <<"error", w>>, <<"error", w>>, Call) : w \in {"message", "release"}}
  \cup {Projection(<<"package">>, ObjectRelease, <<"release">>, [Call EXCEPT !.takes = {Root}])}
  \cup {Projection(<<c, w>>, PeerId(c, w), PeerSymbol(c, w), [Call EXCEPT !.takes = {TypeId(c)}]) :
          <<c, w>> \in {p[1] : p \in slots} \X {"read", "write"}}
  \cup (IF connection
        THEN {Projection(<<"package">>, Disconnect, <<"disconnect">>, [Call EXCEPT !.takes = {Connection}]),
              Projection(<<"package">>, ConnectionRelease, <<"connection", "free">>,
                         [Call EXCEPT !.takes = {Connection}])}
        ELSE {})

Constants(s, slots, c) ==
  {Projection(<<c, "constant", f>>, MemberId(c, <<Lower(f)>>), <<>>,
              [Call EXCEPT !.kind = "constant", !.links = {}, !.adapters = {}]) :
     f \in {g \in s[c].fields : <<c, g>> \notin slots /\ s[c].file.fields[g].constant = "carried"}}

ConstructorBinding(c, k) == [Failing EXCEPT !.takes = Handles(k), !.gives = TypeId(c)]

MethodBinding(c, k) ==
  [Failing EXCEPT !.takes = Receiver(c, k) \cup Handles(k),
                  !.gives = IF k.gives.kind = "object" THEN TypeId(k.gives.class) ELSE None]

(* A registration on an object is handed back and cancelled through it; a  *)
(* registration on a class answers for every instance, belongs to the      *)
(* process, and can only fail.  Either depends on what super reaches.      *)
FaultyRegistrationDeps(base) == {ConnectionRelease} \cup base
RegistrationDeps(base) == {Disconnect, ConnectionRelease} \cup base

CallbackBinding(s, c, k) ==
  LET base == {MethodId(s, c, m) : m \in BaseMethods(s, c, k)}
      super == IF base = {} THEN None ELSE FirstOf(base)
      handles == Handles(s[c].file.methods[k])
  IN IF s[c].callbacks[k].anchor = "class"
     THEN [Failing EXCEPT !.deps = @ \cup base, !.base = super, !.owner = Process,
                          !.payload = {TypeId(c)} \cup handles]
     ELSE [Call EXCEPT !.takes = {TypeId(c)}, !.gives = Connection, !.payload = handles, !.base = super,
                       !.owner = TypeId(c), !.cancel = Disconnect, !.deps = RegistrationDeps(base)]

ClassProjections(s, slots, c) ==
  LET file == s[c].file IN
  Constants(s, slots, c)
  \cup {Projection(<<c, "new", d>>, ConstructorId(s, c, d), ConstructorSymbol(s, c, d),
                   ConstructorBinding(c, file.constructors[d])) : d \in s[c].constructors}
  \cup {Projection(<<c, "connect", k>>, CallbackId(c, k), CallbackSymbol(s, c, k, "connect"),
                   CallbackBinding(s, c, k)) : k \in DOMAIN s[c].callbacks}
  \cup {Projection(<<c, "call", m>>, MethodId(s, c, m), MethodSymbol(s, c, m),
                   MethodBinding(c, file.methods[m[2]])) : m \in s[c].methods}

Projections(s, slots, connection) ==
  Support(slots, connection) \cup UNION {ClassProjections(s, slots, c) : c \in DOMAIN s}

(* defineBinding: two members may not lower to the same id.                *)
IdsCollide(all) == \E p, q \in all : p # q /\ p.id = q.id

JvmProjects(s, slots, connection) ==
  /\ ~ NamesCollide(s)
  /\ \A c \in DOMAIN s : ClassProjects(s, slots, c)
  /\ ~ IdsCollide(Projections(s, slots, connection))

Manifest(s, slots, connection) ==
  LET all == Projections(s, slots, connection)
      of == [i \in {p.id : p \in all} |-> CHOOSE p \in all : p.id = i]
  IN [instance |-> Slug, target |-> "64",
      types |-> HandleTypes(s, slots, connection), imports |-> Empty,
      bindings |-> [i \in DOMAIN of |-> of[i].binding], signatures |-> Empty,
      symbols |-> [i \in DOMAIN of |-> of[i].symbol],
      of |-> [i \in DOMAIN of |-> of[i].of],
      links |-> [l \in {1} |-> [name |-> "jvm", order |-> 0]],
      adapters |-> [x \in {"jvm"} |-> {i \in DOMAIN of : of[i].binding.adapters # {}}]]

(* Constructors, methods, class overrides, and listeners behind a shell    *)
(* that holds nothing else.                                                *)
Replaceable(s, c, k) ==
  LET stated == s[c].callbacks[k] IN
  \/ stated.anchor = "class"
  \/ /\ DeliveryOf(s[c].file.methods[k], stated) = "told"
     /\ stated.base = {} /\ ~ stated.terminal /\ stated.shell # {}

Direct(s) ==
  UNION {{<<ConstructorId(s, c, d), ConstructorSymbol(s, c, d)>> : d \in s[c].constructors}
         \cup {<<MethodId(s, c, m), MethodSymbol(s, c, m)>> : m \in s[c].methods}
         \cup {<<CallbackId(c, k), CallbackSymbol(s, c, k, "connect")>> :
                 k \in {j \in DOMAIN s[c].callbacks : Replaceable(s, c, j)}} : c \in DOMAIN s}

-----------------------------------------------------------------------------
NoAdapter == [defines |-> {}, needs |-> {}, connection |-> FALSE]
NoManifest == Manifest(Empty, {}, FALSE)

Init ==
  /\ plan \in Plans /\ phase = "extract"
  /\ project = [selection |-> plan.selection, slots |-> plan.slots]
  /\ files = Empty /\ snapshot = Empty /\ adapter = NoAdapter /\ manifest = NoManifest /\ sidecar = {}

(* Classes leave the archive by name; one that is not there, selected or   *)
(* an ancestor, is the application's to hear of.                           *)
Extract ==
  /\ phase = "extract"
  /\ LET named == DOMAIN plan.selection IN
     IF Unavailable(plan.archive, named) # {} \/ ~ named \subseteq DOMAIN plan.archive
     THEN phase' = "refused" /\ UNCHANGED files
     ELSE phase' = "generate" /\ files' = Restrict(plan.archive, named \cup Required(plan.archive, named))
  /\ UNCHANGED <<plan, project, snapshot, adapter, manifest, sidecar>>

(* A class is not generated twice, nor under a name that is taken.         *)
NamesTaken(specs) ==
  \/ \E s \in specs : s.class \in DOMAIN files
  \/ \E s, t \in specs : s # t /\ s.class = t.class

Generate ==
  /\ phase = "generate"
  /\ LET specs == plan.subclasses IN
     IF SubclassesRefused(files, specs) \/ NamesTaken(specs)
     THEN phase' = "refused" /\ UNCHANGED <<project, files>>
     ELSE /\ phase' = "ingest"
          /\ project' = [selection |-> plan.selection @@ BridgeSelections(files, specs),
                          slots |-> plan.slots \cup PeerSlots(files, specs)]
          /\ files' = files @@ Bridges(files, specs)
  /\ UNCHANGED <<plan, snapshot, adapter, manifest, sidecar>>

Ingest ==
  /\ phase = "ingest"
  /\ IF IngestRefuses(files, project.selection)
     THEN phase' = "refused" /\ UNCHANGED snapshot
     ELSE phase' = "adapt" /\ snapshot' = Ingested(files, project.selection)
  /\ UNCHANGED <<plan, project, files, adapter, manifest, sidecar>>

Adapt ==
  /\ phase = "adapt"
  /\ IF JvmAdapterGenerates(snapshot, project.slots)
     THEN phase' = "project" /\ adapter' = JvmAdapterSource(snapshot, project.slots)
     ELSE phase' = "refused" /\ UNCHANGED adapter
  /\ UNCHANGED <<plan, project, files, snapshot, manifest, sidecar>>

Project ==
  /\ phase = "project" /\ ~ Hangs(snapshot)
  /\ IF JvmProjects(snapshot, project.slots, adapter.connection)
     THEN /\ phase' = "parse"
          /\ manifest' = Manifest(snapshot, project.slots, adapter.connection)
          /\ sidecar' = Direct(snapshot)
     ELSE phase' = "refused" /\ UNCHANGED <<manifest, sidecar>>
  /\ UNCHANGED <<plan, project, files, snapshot, adapter>>

(* parseScabiManifest.                                                     *)
Parse ==
  /\ phase = "parse"
  /\ phase' = IF ManifestValid(manifest) THEN "written" ELSE "invalid"
  /\ UNCHANGED <<plan, project, files, snapshot, adapter, manifest, sidecar>>

Next == Extract \/ Generate \/ Ingest \/ Adapt \/ Project \/ Parse

Spec == Init /\ [][Next]_vars
-----------------------------------------------------------------------------
(* Java's own relations, over the whole archive.                           *)
Subclass(archive) == Along(archive, LAMBDA c : Superclass(archive, c))
Nearest(archive, c, S) ==
  LET above == Subclass(archive)
      on == {d \in S : above[c, d]}
  IN {d \in on : \A e \in on \ {d} : above[d, e]}

(* Ingesting what was taken out of the archive resolves, and refuses, what *)
(* ingesting the whole archive would: no class that a selection reaches is *)
(* left behind.                                                            *)
AncestryIsComplete ==
  phase = "ingest" =>
    /\ IngestRefuses(files, plan.selection) <=> IngestRefuses(plan.archive, plan.selection)
    /\ ~ IngestRefuses(files, plan.selection) =>
         Ingested(files, plan.selection) = Ingested(plan.archive, plan.selection)

(* Every method that was asked of a class, by name or by key, is one       *)
(* binding: of the nearest class that declares it, however far above, on a *)
(* receiver that the class asked upcasts to.                               *)
SelectedIsReachable ==
  phase = "written" =>
    LET all == plan.archive @@ files
        reach == ConnectionsIn([node |-> LocalTypes(manifest), edge |-> UpcastEdges(manifest)])
        declaring(D(_)) == {d \in DOMAIN all : \E k \in DOMAIN all[d].methods : D(k)}
        answers(c, D(_)) == \E o \in Nearest(all, c, declaring(D)) :
          \E k \in {j \in DOMAIN all[o].methods : D(j)} :
            LET found == {b \in DOMAIN manifest.of : manifest.of[b] \in {<<o, "call", <<w, k>>>> : w \in {"name", "exact"}}}
            IN /\ Cardinality(found) = 1
               /\ all[o].methods[k].static
                  \/ \A b \in found : /\ TypeId(o) \in manifest.bindings[b].takes
                                      /\ reach[TypeId(c), TypeId(o)]
    IN \A c \in DOMAIN project.selection :
         /\ \A n \in project.selection[c].names : answers(c, LAMBDA k : k[1] = n)
         /\ \A m \in project.selection[c].exact : answers(c, LAMBDA k : k = m)

(* A handle may stand where a class of the selection is expected exactly   *)
(* when Java says so: every upcast is to a supertype, and every superclass *)
(* and every interface reached through the selection is an upcast away.    *)
UpcastsAreSupertypes ==
  phase = "written" =>
    LET all == plan.archive @@ files
        up(c) == Superclass(all, c) \cup all[c].interfaces
        java == Along(all, up)
        kept == Along(snapshot, up)
        reach == ConnectionsIn([node |-> LocalTypes(manifest), edge |-> UpcastEdges(manifest)])
    IN \A c, d \in DOMAIN snapshot :
         /\ reach[TypeId(c), TypeId(d)] => java[c, d]
         /\ kept[c, d] \/ Subclass(all)[c, d] => reach[TypeId(c), TypeId(d)]

(* The adapter defines every function once, the manifest binds each that a *)
(* program calls under its one symbol, and the sidecar only replaces       *)
(* functions that are bound.                                               *)
AdapterIsExact ==
  phase \in {"parse", "written", "invalid"} =>
    LET inside(f) == \/ f.symbol \in Helpers(snapshot) \cup {<<"bind">>, <<"bind", "vm">>, <<"strv", "free">>}
                     \/ Last(f.symbol) = "frame" \/ f.symbol[1] = "tramp"
        bound == {b \in DOMAIN manifest.bindings : manifest.bindings[b].adapters # {}}
    IN /\ Cardinality({f.symbol : f \in adapter.defines}) = Cardinality(adapter.defines)
       /\ {manifest.symbols[b] : b \in bound} = {f.symbol : f \in {g \in adapter.defines : ~ inside(g)}}
       /\ \A b, d \in bound : manifest.symbols[b] = manifest.symbols[d] => b = d
       /\ \A e \in sidecar : e[1] \in bound /\ manifest.symbols[e[1]] = e[2]

(* What is generated is accepted by what reads it.  A subclass is ingested *)
(* as it was stated; the adapter only refuses it for an object of a class  *)
(* that was not selected, or an answer that nobody waits for.  A manifest  *)
(* that was written can be composed with everything in it selected, every  *)
(* class releases its references, and what super calls is the method that  *)
(* the selection names for the callback, of its class; every override is   *)
(* registered, and one that ends its object finds the object's peer.       *)
GeneratedIsCallable ==
  /\ phase # "invalid"
  /\ phase = "ingest" /\ IngestRefuses(files, project.selection) => IngestRefuses(files, plan.selection)
  /\ phase = "adapt" =>
       \A s \in plan.subclasses :
         /\ \A p \in project.slots : p[1] = s.class => SlotsFit(snapshot, {p})
         /\ \A k \in DOMAIN snapshot[s.class].callbacks :
              LET method == files[s.class].methods[k]
                  handed == {v \in Range(method.takes) : v.kind \in Strings \/ (v.kind = "object" /\ v.class \notin DOMAIN snapshot)}
              IN \/ CallbackFits(snapshot, method, snapshot[s.class].callbacks[k])
                 \/ handed # {} \/ (s.anchored /\ Answers(method))
  /\ phase = "written" =>
       /\ ~ Refuses(manifest, [types |-> LocalTypes(manifest)], BindingIds(manifest))
       /\ \A t \in LocalTypes(manifest) : manifest.types[t].destructor \in BindingIds(manifest) \cup {None}
       /\ \A b \in BindingIds(manifest) : manifest.bindings[b].base # None =>
            LET of == manifest.of[b] IN
            /\ manifest.of[manifest.bindings[b].base][1] = of[1]
            /\ manifest.of[manifest.bindings[b].base][3][2] \in project.selection[of[1]].callbacks[of[3]].base
       /\ \A s \in plan.subclasses : LET base == files[s.base] IN
            \A k \in Overrides(base, s) :
              LET b == CallbackId(s.class, k) IN
              /\ b \in BindingIds(manifest) /\ manifest.of[b] = <<s.class, "connect", k>>
              /\ Implemented(base) <=> manifest.bindings[b].base = None
              /\ k \in s.terminal => manifest.types[TypeId(s.class)].peer # {} /\ manifest.bindings[b].owner = Process

(* No body calls a helper that the source does not define: the string      *)
(* bridge is "present when any position is a java/lang/String ... both     *)
(* directions cross through" (jvm-adapter.ts:215).                         *)
HelpersDefined == adapter.needs \subseteq {f.symbol : f \in adapter.defines}
=============================================================================
