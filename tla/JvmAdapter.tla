------------------------------ MODULE JvmAdapter ------------------------------
(***************************************************************************)
(* The C source generated for a selection of Java classes                  *)
(* (bindgen-jvm/src/jvm-adapter.ts): one function per constructor and      *)
(* method that crosses through JNI, one registration per native method     *)
(* that a program implements, and the helpers these share.                 *)
(*                                                                         *)
(* A snapshot is a function from class names to what JvmSnapshot ingests.  *)
(* A class name is <<package, simple name>>, both sequences; a member is   *)
(* <<name, descriptor>>, a constructor a descriptor.  A value has its kind *)
(* (void, int for the whole numbers and double, float, boolean, string,    *)
(* chars for CharSequence, object, span and strings for the arrays that    *)
(* cross, other for the rest) and class.  Which element a span has and     *)
(* what is promised about null are left out.  C symbols are tuples of what *)
(* they are spelled from, the package's prefix left out.                   *)
(***************************************************************************)
EXTENDS JvmSnapshot

Scalars == {"int", "float", "boolean"}
Strings == {"string", "chars"}

(* cSafe: packages and nesting are spelled alike.                          *)
Token(c) == c[1] \o c[2]

(* positionOf: where each value may stand.  A class that the selection     *)
(* carries is a handle; a CharSequence only crosses on the way in.         *)
Crosses(snapshot, v) ==
  \/ v.kind \in Scalars \cup {"string", "span", "strings"}
  \/ v.kind = "object" /\ v.class \in DOMAIN snapshot

ArgumentFits(snapshot, v) == Crosses(snapshot, v) \/ v.kind = "chars"
ResultFits(snapshot, v) == Crosses(snapshot, v) \/ v.kind = "void"

(* resolveSignature.                                                       *)
SignatureFits(snapshot, k) ==
  (\A v \in Range(k.takes) : ArgumentFits(snapshot, v)) /\ ResultFits(snapshot, k.gives)

-----------------------------------------------------------------------------
(* Peer slots, as <<class, field>>: an instance field that the generator   *)
(* added to hold the managed peer of an object.                            *)
SlotsFit(snapshot, slots) ==
  /\ \A p, q \in slots : p[1] = q[1] => p = q
  /\ \A p \in slots :
       /\ p[1] \in DOMAIN snapshot
       /\ p[2] \in snapshot[p[1]].fields
       /\ LET field == snapshot[p[1]].file.fields[p[2]] IN ~ field.static /\ field.long

-----------------------------------------------------------------------------
(* Callbacks: a native method whose implementation the program provides.   *)
PayloadFits(snapshot, v) == v.kind = "int" \/ (v.kind = "object" /\ v.class \in DOMAIN snapshot)

Answers(k) == k.gives.kind = "boolean"

(* A boolean result is the emitting call's; otherwise the selection says   *)
(* whether the handler runs during the call or later.                      *)
DeliveryOf(k, stated) ==
  IF Answers(k) THEN "answered" ELSE IF stated.delivery = "synchronous" THEN "told" ELSE "queued"

DeliveryFits(k, stated) ==
  /\ Answers(k) \/ k.gives.kind = "void"
  /\ Answers(k) <=> stated.delivery = "unstated"
  /\ stated.anchor = "class" => DeliveryOf(k, stated) = "told"

CallbackFits(snapshot, k, stated) ==
  /\ ~ k.static /\ DeliveryFits(k, stated)
  /\ \A v \in Range(k.takes) : PayloadFits(snapshot, v)

(* No member reports a diagnostic.                                         *)
JvmAdapterGenerates(snapshot, slots) ==
  /\ SlotsFit(snapshot, slots)
  /\ \A c \in DOMAIN snapshot : LET class == snapshot[c] IN
       /\ \A d \in class.constructors : SignatureFits(snapshot, class.file.constructors[d])
       /\ \A m \in class.methods : SignatureFits(snapshot, class.file.methods[m[2]])
       /\ \A k \in DOMAIN class.callbacks :
            CallbackFits(snapshot, class.file.methods[k], class.callbacks[k])

-----------------------------------------------------------------------------
(* Symbols.  A member that is not alone under its name has its descriptor  *)
(* spelled out.                                                            *)
Overloaded(members, m) == \E n \in members : n # m /\ n[1] = m[1]
Suffix(needed, d) == IF needed THEN <<d>> ELSE <<>>

ConstructorSymbol(snapshot, c, d) ==
  <<"new", Token(c)>> \o Suffix(Cardinality(snapshot[c].constructors) > 1, d)

(* Methods are listed as they were asked for, so one that is there twice   *)
(* is overloaded by itself.                                                *)
FaultyMethodSymbol(snapshot, c, m) == <<"call", Token(c), m[2][1]>>
MethodSymbol(snapshot, c, m) ==
  <<"call", Token(c), m[2][1]>>
  \o Suffix(\E n \in snapshot[c].methods : n # m /\ n[2][1] = m[2][1], m[2][2])

CallbackSymbol(snapshot, c, k, what) ==
  <<what, Token(c), k[1]>> \o Suffix(Overloaded(DOMAIN snapshot[c].callbacks, k), k[2])

PeerSymbol(c, what) == <<"peer", what, Token(c)>>

(* A reference is also handed out as JNI gave it, bounded by the frame.    *)
Frame(symbol) == Append(symbol, "frame")

-----------------------------------------------------------------------------
(* Signatures of everything that calls Java.                               *)
Called(snapshot) ==
  UNION {{snapshot[c].file.constructors[d] : d \in snapshot[c].constructors}
         \cup {snapshot[c].file.methods[m[2]] : m \in snapshot[c].methods} : c \in DOMAIN snapshot}

AnyTakes(snapshot, kinds) == \E k \in Called(snapshot) : \E v \in Range(k.takes) : v.kind \in kinds
AnyGives(snapshot, kinds) == \E k \in Called(snapshot) : k.gives.kind \in kinds
UsesCallbacks(snapshot) == \E c \in DOMAIN snapshot : DOMAIN snapshot[c].callbacks # {}

(* The helpers that are generated when the flag of their family was set:   *)
(* by a string argument or a vector of them, not by a string result.       *)
UsesStrings(snapshot) == AnyTakes(snapshot, Strings \cup {"strings"}) \/ AnyGives(snapshot, {"strings"})

Helpers(snapshot) ==
  {<<"env">>, <<"env", "required">>, <<"message">>, <<"capture">>, <<"resolve", "class">>}
  \cup (IF UsesStrings(snapshot) THEN {<<"utf8", "to", "jstring">>, <<"jstring", "to", "utf8">>} ELSE {})

(* The helpers that the bodies call.                                       *)
Needed(snapshot) ==
  {<<"env", "required">>, <<"message">>, <<"capture">>, <<"resolve", "class">>}
  \cup (IF Called(snapshot) # {} \/ UsesCallbacks(snapshot) THEN {<<"env">>} ELSE {})
  \cup (IF AnyTakes(snapshot, Strings \cup {"strings"}) THEN {<<"utf8", "to", "jstring">>} ELSE {})
  \cup (IF AnyGives(snapshot, {"string", "strings"}) THEN {<<"jstring", "to", "utf8">>} ELSE {})

(* The entries every package has, and those of vectors and callbacks.      *)
Shared(snapshot) ==
  {<<"bind">>, <<"bind", "vm">>, <<"release">>, <<"promote", "frame">>, Frame(<<"release">>),
   <<"error", "message">>, <<"error", "release">>}
  \cup (IF AnyGives(snapshot, {"strings"}) THEN {<<"strv", "free">>} ELSE {})
  \cup (IF UsesCallbacks(snapshot) THEN {<<"disconnect">>, <<"connection", "free">>} ELSE {})

(* The functions of one class, as [of |-> the member, symbol |-> name]: of *)
(* a constructor, of a method, whose reference is also handed out, of a    *)
(* native method, and of a peer slot.                                      *)
Function(of, symbol) == [of |-> of, symbol |-> symbol]

ConstructorFunctions(snapshot, c) ==
  UNION {{Function(<<c, "new", d>>, ConstructorSymbol(snapshot, c, d)),
          Function(<<c, "new", d, "frame">>, Frame(ConstructorSymbol(snapshot, c, d)))} :
           d \in snapshot[c].constructors}

MethodFunctions(snapshot, c) ==
  {Function(<<c, "call", m>>, MethodSymbol(snapshot, c, m)) : m \in snapshot[c].methods}
  \cup {Function(<<c, "call", m, "frame">>, Frame(MethodSymbol(snapshot, c, m))) :
          m \in {n \in snapshot[c].methods : snapshot[c].file.methods[n[2]].gives.kind = "object"}}

CallbackFunctions(snapshot, c) ==
  {Function(<<c, what, k>>, CallbackSymbol(snapshot, c, k, what)) :
     what \in {"tramp", "connect"}, k \in DOMAIN snapshot[c].callbacks}

PeerFunctions(slots, c) ==
  {Function(<<c, what>>, PeerSymbol(c, what)) :
     what \in IF c \in {p[1] : p \in slots} THEN {"read", "write"} ELSE {}}

(* generateJvmAdapterSource.                                               *)
JvmAdapterSource(snapshot, slots) ==
  [defines |->
     {Function(<<"package">>, y) : y \in Helpers(snapshot) \cup Shared(snapshot)}
     \cup UNION {ConstructorFunctions(snapshot, c) \cup MethodFunctions(snapshot, c)
                  \cup CallbackFunctions(snapshot, c) \cup PeerFunctions(slots, c) : c \in DOMAIN snapshot},
   needs |-> Needed(snapshot),
   connection |-> UsesCallbacks(snapshot)]
=============================================================================
