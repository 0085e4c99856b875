---------------------------- MODULE GObjectAdapter ----------------------------
(***************************************************************************)
(* The C source generated for one GIR namespace                            *)
(* (bindgen-gir/src/gobject-adapter.ts): the wrappers its members need to  *)
(* hand a program references it may keep, and what is recorded of them.    *)
(*                                                                         *)
(* A snapshot s is what GirSnapshot leaves of a namespace:                 *)
(*   s.classes       class, interface or boxed record -> its declaration   *)
(*   s.layouts       record with fields -> its fields                      *)
(*   s.enumerations  enumeration -> its members                            *)
(* A declaration has its kind, parent (a set of at most one) and           *)
(* interfaces (references, pairs <<namespace, name>>), boxed (of a record: *)
(* its copy and free), constructors, methods and signals (name ->          *)
(* callable), notify (properties observed).                                *)
(* A callable has its id, takes (parameter -> value, the receiver left     *)
(* out), gives (a value), throws, receiver (it is exactly this class), reads and       *)
(* writes (the property it is an accessor of, a set of at most one) and    *)
(* detailed (of a signal).                                                 *)
(* A value has its kind (void, boolean, scalar for exact scalars, string,  *)
(* vector, object, enumeration, layout or other), class (the reference of  *)
(* the last three named), transfer, nullable, exact (its C spelling is the *)
(* expected one), direction, storage (the caller allocates it) and plain   *)
(* (no skip, optional, scope, closure or destroy annotation).              *)
(* A generated C symbol is a tuple of what it is spelled from; the others  *)
(* are the identifiers the document gives.                                 *)
(***************************************************************************)
EXTENDS GirSnapshot

Declared(s) == DOMAIN s.classes
Here(s, c) == <<s.namespace, c>>

(* classByName: bare for this namespace, qualified for a supplied import.  *)
Names(s, imports) ==
  {Here(s, c) : c \in Declared(s)}
  \cup UNION {{<<n, c>> : c \in Declared(imports[n])} : n \in DOMAIN imports}

ClassAt(s, imports, ref) ==
  IF ref[1] = s.namespace THEN s.classes[ref[2]] ELSE imports[ref[1]].classes[ref[2]]

IsBoxed(s, imports, ref) == ClassAt(s, imports, ref).kind = "record"
Denotes(s, imports, v) == v.kind = "object" /\ v.class \in Names(s, imports)

(* enumerationCTypes, recordsByName: of this namespace and of every import. *)
IsEnumeration(s, imports, v) ==
  /\ v.kind = "enumeration"
  /\ v.class \in {Here(s, c) : c \in DOMAIN s.enumerations}
                 \cup UNION {{<<n, c>> : c \in DOMAIN imports[n].enumerations} : n \in DOMAIN imports}
IsLayout(s, imports, v) ==
  /\ v.kind = "layout"
  /\ v.class \in {Here(s, c) : c \in DOMAIN s.layouts}
                 \cup UNION {{<<n, c>> : c \in DOMAIN imports[n].layouts} : n \in DOMAIN imports}

Observed(class) == DOMAIN class.signals \cup class.notify
HasSignals(s) == \E c \in Declared(s) : Observed(s.classes[c]) # {}
HasThrowing(s) ==
  \E c \in Declared(s) : \E k \in DOMAIN s.classes[c].methods : s.classes[c].methods[k].throws

-----------------------------------------------------------------------------
(* releaseRootOf: one unref ends the claim on any object, so a chain of    *)
(* classes shares the release of the topmost one this namespace declares.  *)
Released(s) == {c \in Declared(s) : s.classes[c].kind # "record"}

Hosting(s, c) ==
  {p[2] : p \in {q \in s.classes[c].parent : q[1] = s.namespace /\ q[2] \in Released(s)}}

FaultyReleaseRootOf(s, c) == IF Hosting(s, c) = {} THEN c ELSE CHOOSE p \in Hosting(s, c) : TRUE
ReleaseRootOf(s, c) ==
  LET above[n \in 0..Cardinality(Released(s))] ==
        IF n = 0 THEN c
        ELSE IF Hosting(s, above[n - 1]) = {} THEN above[n - 1]
             ELSE CHOOSE p \in Hosting(s, above[n - 1]) : TRUE
  IN above[Cardinality(Released(s))]

-----------------------------------------------------------------------------
(* A constructor's result is adopted: its floating reference is sunk, or   *)
(* one is taken when the transfer is none.                                 *)
ConstructorFits(k) == ~ k.throws /\ k.gives.transfer \in {"none", "full"}

(* A delivery is queued, so a payload must survive the emission: a string  *)
(* is copied by the runtime, an object gains a reference, and a boxed      *)
(* record is duplicated.                                                   *)
SignalPayloadFits(s, imports, p) ==
  /\ p.kind \in {"scalar", "string"} \/ IsEnumeration(s, imports, p) \/ Denotes(s, imports, p)
  /\ p.direction = "in" /\ p.transfer = "none" /\ ~ p.nullable /\ p.plain /\ ~ p.storage

SignalFits(s, imports, k) ==
  /\ k.gives.kind \in {"void", "boolean"} /\ k.gives.transfer = "none"
  /\ ~ k.gives.nullable /\ k.gives.plain /\ ~ k.detailed
  /\ \A p \in Range(k.takes) : SignalPayloadFits(s, imports, p)

(* How the dispatch of a signal keeps the payload p for the program.       *)
Retains(s, imports, p) == IF IsBoxed(s, imports, p.class) THEN "copy" ELSE "ref"

(* borrowedResultClass: a method hands back an object it keeps.            *)
BorrowedResult(s, imports, k) ==
  /\ ~ k.throws /\ k.gives.transfer = "none" /\ k.gives.plain
  /\ Denotes(s, imports, k.gives) /\ k.gives.exact

Outputs(k) == {p \in DOMAIN k.takes : k.takes[p].direction # "in"}
Inputs(k) == DOMAIN k.takes \ Outputs(k)

(* forwardedInput: what an adapter passes on untouched.                    *)
ForwardedInput(s, imports, p) ==
  /\ p.direction = "in" /\ p.transfer = "none" /\ p.plain /\ ~ p.storage /\ p.exact
  /\ \/ Denotes(s, imports, p)
     \/ ~ p.nullable /\ (p.kind = "scalar" \/ IsEnumeration(s, imports, p))

(* A sole output naming a boxed record makes a method a boxed producer,    *)
(* whether or not it can be projected.                                     *)
BoxedProducer(s, imports, k) ==
  \E p \in DOMAIN k.takes :
    /\ {q \in DOMAIN k.takes : k.takes[q].direction = "out"} = {p}
    /\ Denotes(s, imports, k.takes[p]) /\ IsBoxed(s, imports, k.takes[p].class)

AnswersOrVoid(k) ==
  \/ k.gives.kind = "void"
  \/ k.gives.kind = "boolean" /\ k.gives.transfer = "none" /\ ~ k.gives.nullable /\ k.gives.plain

BoxedResultFits(s, imports, k) ==
  /\ ~ k.throws /\ k.receiver /\ AnswersOrVoid(k)
  /\ \A p \in DOMAIN k.takes :
       IF k.takes[p].direction = "out"
       THEN k.takes[p].storage /\ k.takes[p].transfer = "none" /\ k.takes[p].exact /\ k.takes[p].plain
       ELSE ForwardedInput(s, imports, k.takes[p])

(* generateValueMethod: outputs become the fields of a returned struct.    *)
ValueOutput(s, imports, p) ==
  /\ p.direction = "out" /\ p.plain /\ p.exact
  /\ \/ IsLayout(s, imports, p) /\ p.storage /\ p.transfer = "none"
     \/ p.kind = "scalar" /\ ~ p.storage /\ p.transfer \in {"none", "full"}

ValueMethodFits(s, imports, k) ==
  /\ ~ k.throws /\ k.receiver /\ AnswersOrVoid(k) /\ k.gives.transfer = "none"
  /\ ~ k.gives.nullable /\ k.gives.plain
  /\ \A p \in Outputs(k) : ValueOutput(s, imports, k.takes[p])
  /\ \A p \in Inputs(k) : ForwardedInput(s, imports, k.takes[p])

(* The loop's order of asking what a method needs; "direct" is nothing.    *)
MethodShape(s, imports, k) ==
  CASE BorrowedResult(s, imports, k) -> "retained"
    [] ~ BorrowedResult(s, imports, k) /\ BoxedProducer(s, imports, k) -> "boxed"
    [] OTHER -> IF Outputs(k) = {} THEN "direct" ELSE "value"

MethodFits(s, imports, k) ==
  LET shape == MethodShape(s, imports, k) IN
  /\ shape = "retained" => k.receiver
  /\ shape = "boxed" => BoxedResultFits(s, imports, k)
  /\ shape = "value" => ValueMethodFits(s, imports, k)

(* No member reports a diagnostic.                                         *)
AdapterGenerates(s, imports) ==
  \A c \in Declared(s) : LET class == s.classes[c] IN
    /\ \A k \in DOMAIN class.constructors : ConstructorFits(class.constructors[k])
    /\ \A k \in DOMAIN class.signals : SignalFits(s, imports, class.signals[k])
    /\ \A k \in DOMAIN class.methods : MethodFits(s, imports, class.methods[k])

-----------------------------------------------------------------------------
(* The functions defined, as [of |-> who needs it, symbol |-> its name].   *)
(* A C identifier is unique in the system; what is spelled from a class    *)
(* prefix is qualified by the namespace, which it shares a program with.   *)
FaultyReleaseSymbol(s, c) == <<"release", ReleaseRootOf(s, c)>>
ReleaseSymbol(s, c) == <<"release", s.namespace, ReleaseRootOf(s, c)>>
ConnectionSymbol(s, what) == <<s.namespace, "signal_connection", what>>
ErrorSymbol(s, what) == <<s.namespace, "error", what>>

MemberSymbol(s, imports, c, kind, k) ==
  CASE kind = "constructor" -> <<"adopt", s.namespace, c, k>>
    [] kind = "signal" -> <<"connect", s.namespace, c, k>>
    [] kind = "notify" -> <<"connect", s.namespace, c, "notify", k>>
    [] OTHER -> LET shape == MethodShape(s, imports, s.classes[c].methods[k]) IN
                IF shape = "direct" THEN s.classes[c].methods[k].id ELSE <<shape, s.namespace, c, k>>

(* The members of c that the adapter wraps, as <<kind, name>>.             *)
Wrapped(s, imports, c) ==
  LET class == s.classes[c] IN
  {<<"constructor", k>> : k \in DOMAIN class.constructors}
  \cup {<<"signal", k>> : k \in DOMAIN class.signals}
  \cup {<<"notify", p>> : p \in class.notify}
  \cup {<<"method", k>> : k \in {m \in DOMAIN class.methods :
                                   MethodShape(s, imports, class.methods[m]) # "direct"}}

Supporting(s) ==
  (IF HasSignals(s) THEN {ConnectionSymbol(s, w) : w \in {"disconnect", "connected", "release"}} ELSE {})
  \cup (IF HasThrowing(s) THEN {ErrorSymbol(s, w) : w \in {"message", "free"}} ELSE {})

(* generateGObjectAdapterSource.                                           *)
AdapterSource(s, imports) ==
  [releases |-> [c \in Released(s) |-> ReleaseRootOf(s, c)],
   connection |-> HasSignals(s),
   errors |-> HasThrowing(s),
   defines |->
     {[of |-> "namespace", symbol |-> y] : y \in Supporting(s)}
     \cup {[of |-> c, symbol |-> ReleaseSymbol(s, c)] : c \in {r \in Released(s) : ReleaseRootOf(s, r) = r}}
     \cup UNION {{[of |-> c, symbol |-> MemberSymbol(s, imports, c, w[1], w[2])] : w \in Wrapped(s, imports, c)} :
                   c \in Declared(s)}]
=============================================================================
