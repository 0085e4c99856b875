----------------------------- MODULE JvmSubclass -----------------------------
(***************************************************************************)
(* The Java class generated for a base class or interface whose methods a  *)
(* program implements (bindgen-jvm/src/jvm-subclass.ts), and what the      *)
(* application then asks of it (target-jvm/src/application-build.ts).      *)
(*                                                                         *)
(* A specification names the base, the methods to override (names and      *)
(* exact, as in a selection), the generated class, whether its             *)
(* registrations are anchored to the class, whether its initializer loads  *)
(* the program, and at most one terminal method, whose return ends the     *)
(* object.  Classes also have final, public and initializes, callables     *)
(* also access (public, protected or hidden), final and abstract.  Where   *)
(* the generated class lives by default, and its text, are left out.       *)
(***************************************************************************)
EXTENDS JvmSnapshot

CONSTANT SuperName(_) \* the name of the method that reaches what another replaced

Implemented(file) == file.kind = "interface"
Tells(k) == k.gives.kind = "void"
Overridable(k) == ~ k.final /\ ~ k.static /\ k.access # "hidden"

-----------------------------------------------------------------------------
(* The base is ingested alone, with what the generator is to check: the    *)
(* constructor that it inherits, and the methods it overrides.             *)
BaseSelection(file, spec) ==
  [Unselected EXCEPT
     !.constructors = IF Implemented(file) THEN {} ELSE {NoArgs},
     !.names = spec.names,
     !.exact = spec.exact \cup {t \in spec.terminal : t[1] \notin spec.names}]

BaseAlone(file, spec) == [c \in {spec.base} |-> file]
BaseAsked(file, spec) == [c \in {spec.base} |-> BaseSelection(file, spec)]

BaseMembers(file, spec) ==
  {m[2] : m \in Ingested(BaseAlone(file, spec), BaseAsked(file, spec))[spec.base].methods}

(* A terminal method is overridden whether or not the program names it:    *)
(* ending the object is the platform's rule.                               *)
TerminalOf(file, spec) ==
  {t \in spec.terminal \cap BaseMembers(file, spec) :
     spec.anchored /\ Overridable(file.methods[t]) /\ Tells(file.methods[t])}

Overrides(file, spec) ==
  {k \in BaseMembers(file, spec) : k[1] \in spec.names \/ k \in spec.exact \cup TerminalOf(file, spec)}

(* An override answers with a boolean or tells; it is handed whole         *)
(* numbers and objects; on an interface it replaces nothing.               *)
OverrideFits(file, k) ==
  /\ Overridable(file.methods[k])
  /\ Implemented(file) => file.methods[k].abstract
  /\ file.methods[k].gives.kind \in {"boolean", "void"}
  /\ \A v \in Range(file.methods[k].takes) : v.kind \notin {"float", "boolean", "span", "strings", "other"}

BaseFits(file) ==
  /\ file.kind \in {"class", "interface"} /\ ~ file.final /\ file.public
  /\ ~ Implemented(file) =>
       NoArgs \in DOMAIN file.constructors /\ file.constructors[NoArgs].access # "hidden"

SubclassGenerates(file, spec) ==
  /\ ~ IngestRefuses(BaseAlone(file, spec), BaseAsked(file, spec))
  /\ BaseFits(file)
  /\ spec.names # {} \/ spec.exact \cup spec.terminal # {}
  /\ \A k \in Overrides(file, spec) : OverrideFits(file, k)
  /\ spec.terminal = TerminalOf(file, spec)

-----------------------------------------------------------------------------
(* What an override replaced has a method of its own, if it is anything.   *)
SuperKey(k) == <<SuperName(k[1]), k[2]>>
SuperOf(file, k) == IF Implemented(file) THEN {} ELSE {SuperKey(k)}
SuperKeys(file, spec) == UNION {SuperOf(file, k) : k \in Overrides(file, spec)}

PeerField == "ntsPeer"

Generated(k, native) ==
  [k EXCEPT !.native = native, !.access = "public", !.final = FALSE, !.abstract = FALSE]

Bridge(file, spec) ==
  LET over == Overrides(file, spec)
      replaced(s) == CHOOSE k \in over : SuperKey(k) = s
  IN [kind |-> "class", nesting |-> "none", final |-> TRUE, public |-> TRUE, initializes |-> spec.loads,
      super |-> IF Implemented(file) THEN {Object} ELSE {spec.base},
      interfaces |-> IF Implemented(file) THEN {spec.base} ELSE {},
      constructors |-> [d \in {NoArgs} |->
        [takes |-> <<>>, gives |-> [kind |-> "void", class |-> Object], static |-> FALSE,
         native |-> FALSE, access |-> "public", final |-> FALSE, abstract |-> FALSE]],
      methods |-> [k \in over \cup SuperKeys(file, spec) |->
        IF k \in over THEN Generated(file.methods[k], TRUE) ELSE Generated(file.methods[replaced(k)], FALSE)],
      fields |-> [f \in {PeerField : t \in TerminalOf(file, spec)} |->
        [static |-> FALSE, long |-> TRUE, constant |-> "none"]]]

(* What javac has against it: a method twice, one that the base reserves,  *)
(* one still missing, or a call to one that is not there.                  *)
Compiles(file, spec) ==
  LET over == Overrides(file, spec) IN
  /\ SuperKeys(file, spec) \cap over = {}
  /\ ~ Implemented(file) => Cardinality(SuperKeys(file, spec)) = Cardinality(over)
  /\ \A k \in SuperKeys(file, spec) \cap DOMAIN file.methods : Overridable(file.methods[k])
  /\ \A k \in DOMAIN file.methods : file.methods[k].abstract => Implemented(file) /\ k \in over

-----------------------------------------------------------------------------
(* The platform that dispatched an override observes it, so one that tells *)
(* runs during the call.  A shell holds one listener and nothing else.     *)
StatedOf(file, spec, k) ==
  [delivery |-> IF Tells(file.methods[k]) THEN "synchronous" ELSE "unstated",
   anchor |-> IF spec.anchored THEN "class" ELSE "instance",
   base |-> SuperOf(file, k),
   terminal |-> k \in TerminalOf(file, spec),
   shell |-> {i \in {spec.base} : /\ Implemented(file) /\ Tells(file.methods[k])
                                  /\ ~ spec.anchored /\ ~ spec.loads
                                  /\ Overrides(file, spec) = {k}}]

BridgeSelection(file, spec) ==
  [Unselected EXCEPT
     !.constructors = {NoArgs}, !.exact = SuperKeys(file, spec),
     !.callbacks = [k \in Overrides(file, spec) |-> StatedOf(file, spec, k)],
     !.fields = {PeerField : t \in TerminalOf(file, spec)}]

-----------------------------------------------------------------------------
(* All the subclasses of an application, over its own classes.             *)
SubclassesRefused(files, specs) ==
  \/ \E s \in specs : s.base \notin DOMAIN files
  \/ \E s \in specs : ~ (SubclassGenerates(files[s.base], s) /\ Compiles(files[s.base], s))

SpecOf(specs, c) == CHOOSE s \in specs : s.class = c

Bridges(files, specs) ==
  [c \in {s.class : s \in specs} |-> Bridge(files[SpecOf(specs, c).base], SpecOf(specs, c))]

BridgeSelections(files, specs) ==
  [c \in {s.class : s \in specs} |-> BridgeSelection(files[SpecOf(specs, c).base], SpecOf(specs, c))]

PeerSlots(files, specs) ==
  {<<s.class, PeerField>> : s \in {t \in specs : TerminalOf(files[t.base], t) # {}}}
=============================================================================
