--------------------------- MODULE NativeSignature ---------------------------
(***************************************************************************)
(* The physical slots of one call, from the positions its manifest         *)
(* declares (translateScabiNativeProgram of scriptc/src/native.ts).        *)
(*                                                                         *)
(* A position p is a record:                                               *)
(*   type      handle, imported (a handle of another package), boolean,    *)
(*             integer, float, struct, extent (the target usize), bytes (a *)
(*             pointer to 8-bit data), strings (a pointer to such), context *)
(*             (a void pointer), function (a C callback with a trailing    *)
(*             context), hook (one without), void                          *)
(*   exact     the pass mode, mutability, pointer nullability and storage  *)
(*             are those its type asks for                                 *)
(*   held      the ownership: value, call (borrowed for it), scoped (a     *)
(*             callback's for it), registration (anchored to the callback),*)
(*             receiver (anchored to it), given or taken (transferred)     *)
(*   nullable, number (a conversion), freed (a release of the result)      *)
(*   marshal   none, c-string, utf8 or bytes (with a length), strings      *)
(*   length, identity  the sibling parameters a span names, 0 for none     *)
(*   callback  at most one contract: the context and release siblings, the *)
(*             payload positions, the sources (payload indices, 0 for the  *)
(*             registration's owner), answer type, executors, transport    *)
(*             and whether it is synchronous                               *)
(* A signature s is the kind of its binding, its error contract, its       *)
(* parameters and its result, which may have a frame-bounded form.         *)
(***************************************************************************)
EXTENDS Naturals, SequencesExt

CONSTANTS
  None,       \* no such binding, type or owner
  NativeCall, \* owner: a callback lives for the call only,
  Process,    \* for as long as the process,
  Result      \* or with the registration that is handed back

Indices(s) == DOMAIN s.parameters
Handles == {"handle", "imported"}
Integers == {"integer", "extent"}
Scalars == Integers \cup {"float"}
Pointers == {"bytes", "strings", "context"}

(* errorContractReadsResult *)
ReadsResult(s) == s.error \notin {"no-fail", "error-out"}

Unmarshalled(p) == p.marshal = "none" /\ p.callback = {}
Value(p) == p.exact /\ ~ p.nullable /\ p.held = "value" /\ Unmarshalled(p)

(* positionUnsupported: a borrowed handle may be absent, and one that is   *)
(* taken is nullable in C only.                                            *)
HandleHeld(isParameter) == IF isParameter THEN {"call", "taken"} ELSE {"given"}

PositionSupported(p, isParameter, mayBeNull) ==
  /\ p.exact /\ Unmarshalled(p)
  /\ p.nullable => mayBeNull \/ (isParameter /\ p.type \in Handles)
  /\ p.held \in IF p.type \in Handles THEN HandleHeld(isParameter) ELSE {"value"}

-----------------------------------------------------------------------------
(* Strings and spans.                                                      *)
BorrowedBytes(p) == p.type = "bytes" /\ p.exact /\ p.held = "call" /\ p.callback = {}

StringsFit(p, isParameter) ==
  /\ p.type = "strings" /\ p.exact
  /\ IF isParameter THEN ~ p.freed /\ p.held = "call" /\ p.callback = {}
     ELSE p.held = IF p.freed THEN "value" ELSE "receiver"

(* A parameter that the compiler fills with the size of another.           *)
Extent(s, i) == i \in Indices(s) /\ s.parameters[i].type = "extent" /\ Value(s.parameters[i])

SpanFits(s, i) ==
  LET p == s.parameters[i] IN
  /\ BorrowedBytes(p) /\ ~ p.nullable /\ (p.marshal = "bytes" => ~ p.freed)
  /\ Extent(s, p.length) /\ p.length # i
  /\ p.identity # 0 =>
       p.marshal = "utf8" /\ Extent(s, p.identity) /\ p.identity \notin {i, p.length}

DataFits(s, i) ==
  LET p == s.parameters[i] IN
  CASE p.marshal = "strings" -> StringsFit(p, TRUE)
    [] p.marshal = "c-string" -> BorrowedBytes(p) /\ p.identity = 0
    [] OTHER -> SpanFits(s, i)

Data(s) == {i \in Indices(s) : s.parameters[i].marshal # "none"}
Spans(s) == {i \in Data(s) : s.parameters[i].marshal \in {"utf8", "bytes"}}
Lengths(s, spans) == {s.parameters[i].length : i \in spans}
Identities(s, spans) == {s.parameters[i].identity : i \in spans} \ {0}
Earlier(S, i) == {j \in S : j < i}

(* One physical parameter may not describe two spans.  Each is compared    *)
(* with those before it; a length only with their lengths.                 *)
FaultyDataCollide(s) ==
  \E i \in Spans(s) :
    s.parameters[i].identity \in
      Earlier(Data(s), i) \cup Lengths(s, Earlier(Spans(s), i)) \cup Identities(s, Earlier(Spans(s), i))
DataCollide(s) ==
  \E i \in Spans(s) :
    LET before == Earlier(Spans(s), i) IN
    \/ s.parameters[i].length \in Lengths(s, before)
    \/ s.parameters[i].identity \in
         Earlier(Data(s), i) \cup Lengths(s, before) \cup Identities(s, before)

-----------------------------------------------------------------------------
(* Callbacks.  The owner and the cancellation are the binding's.           *)
Callbacks(s) == {i \in Indices(s) : s.parameters[i].callback # {}}
Contract(s, i) == CHOOSE c \in s.parameters[i].callback : TRUE

CString(p) == p.marshal = "c-string"
OwnedHandle(p) == p.type = "handle" /\ p.exact /\ p.held = "given" /\ Unmarshalled(p)
ScalarValue(p) == p.type \in Scalars /\ Value(p)

(* Every payload reaches the program once, the receiver that owns the      *)
(* registration at most once.                                              *)
SourcesFit(c, owner) ==
  /\ IsInjective(c.sources) /\ Range(c.sources) \ {0} = DOMAIN c.payload
  /\ 0 \in Range(c.sources) => owner \notin {NativeCall, Result, Process}
  /\ \A k \in DOMAIN c.payload : CString(c.payload[k]) => BorrowedBytes(c.payload[k])

ContextFits(s, i, held) ==
  LET x == Contract(s, i).context IN
  /\ x \in Indices(s) \ {i} /\ s.parameters[x].type = "context" /\ s.parameters[x].exact
  /\ ~ s.parameters[x].nullable /\ s.parameters[x].held = held /\ Unmarshalled(s.parameters[x])

FunctionFits(p, held) ==
  p.type = "function" /\ p.exact /\ ~ p.nullable /\ p.held = held /\ p.marshal = "none"

CallScopedFits(s, i, owner, cancels) ==
  LET c == Contract(s, i) IN
  /\ FunctionFits(s.parameters[i], "scoped") /\ ContextFits(s, i, "scoped")
  /\ ~ cancels /\ c.executors = {"same"} /\ c.synchronous
  /\ \A k \in DOMAIN c.payload : ScalarValue(c.payload[k])
  /\ c.answer \in {"void"} \cup Scalars
  /\ c.transport = "borrow" /\ SourcesFit(c, owner)

(* The hook that gives the context back, on the frame-bounded form only.   *)
ReleaseFits(s, i, owner) ==
  LET c == Contract(s, i)  p == s.parameters[c.release] IN
  /\ owner = Result /\ c.synchronous /\ s.result.framed
  /\ c.release \in Indices(s) \ {i, c.context}
  /\ p.type = "hook" /\ p.exact /\ p.nullable /\ p.held = "registration" /\ Unmarshalled(p)

(* Delivered during the emission, on its thread: nothing outlives it.      *)
SynchronousFits(c) ==
  /\ \A k \in DOMAIN c.payload : ScalarValue(c.payload[k]) \/ OwnedHandle(c.payload[k])
  /\ c.answer \in {"void", "boolean"}
  /\ c.transport = "borrow" /\ c.executors = {"same"}

(* Queued: a string is copied, an object referenced, and nothing answered. *)
QueuedFits(c) ==
  /\ \A k \in DOMAIN c.payload :
       LET p == c.payload[k] IN
       ScalarValue(p) \/ (~ p.nullable /\ (OwnedHandle(p) \/ (CString(p) /\ BorrowedBytes(p))))
  /\ c.answer = "void" /\ c.transport = "copy"

(* The receiver a registration or a borrowed string hangs on.              *)
BorrowedReceiver(s) ==
  /\ s.parameters # <<>>
  /\ LET p == Head(s.parameters) IN
       p.type = "handle" /\ p.exact /\ ~ p.nullable /\ p.held = "call"

(* A registration hands back a handle that may be absent, unless it lasts  *)
(* as long as the process and nothing ends it.                             *)
RegistrationFits(s, owner, cancels) ==
  IF owner = Process THEN s.result.type = "void" /\ ~ cancels
  ELSE cancels /\ OwnedHandle(s.result) /\ s.result.nullable

RetainedFits(s, i, owner, cancels) ==
  LET c == Contract(s, i) IN
  /\ FunctionFits(s.parameters[i], "registration") /\ ContextFits(s, i, "registration")
  /\ owner \notin {Process, Result} => s.kind = "method" /\ BorrowedReceiver(s)
  /\ c.executors # {} /\ c.executors \subseteq {"same", "any"}
  /\ c.release # 0 => ReleaseFits(s, i, owner)
  /\ IF c.synchronous THEN SynchronousFits(c) ELSE QueuedFits(c)
  /\ SourcesFit(c, owner)
  /\ 0 \in Range(c.sources) => c.executors = {"same"}
  /\ RegistrationFits(s, owner, cancels)

CallbackFits(s, i, owner, cancels) ==
  IF owner = NativeCall THEN CallScopedFits(s, i, owner, cancels)
  ELSE owner # None /\ RetainedFits(s, i, owner, cancels)

(* What the compiler is told of a registration.  One owned by the process  *)
(* is synchronous there whatever its contract states.                      *)
LoweredContract(c, owner) ==
  LET synchronous == c.synchronous \/ owner = Process IN
  [owner |-> owner, synchronous |-> synchronous, sources |-> c.sources,
   executors |-> IF synchronous THEN {"same"} ELSE c.executors]

(* What a delivery fills: the C function takes the payload and then the    *)
(* context; a string or an object is a pointer there.                      *)
PayloadSlot(p) == IF CString(p) THEN "pointer" ELSE p.type
DeliverySlots(c) == [k \in DOMAIN c.payload |-> PayloadSlot(c.payload[k])] \o <<"context">>

(* What the handler sees, in its own order: a copy of the string, the      *)
(* widened number, the object or its absence, the registration's owner.    *)
PayloadView(p) ==
  IF CString(p) THEN "string"
  ELSE IF p.type = "handle" THEN IF p.nullable THEN "handle or null" ELSE "handle"
  ELSE IF p.number THEN "number" ELSE p.type
DeliveryViews(c) ==
  [k \in DOMAIN c.sources |-> IF c.sources[k] = 0 THEN "owner" ELSE PayloadView(c.payload[c.sources[k]])]

(* A handler answers with a boolean over the storage C reads.              *)
DeliveryAnswer(c) ==
  [slot |-> IF c.answer = "boolean" THEN "integer" ELSE c.answer, view |-> c.answer]

LoweredCallback(c, owner) ==
  [contract |-> LoweredContract(c, owner), slots |-> DeliverySlots(c),
   views |-> DeliveryViews(c), answer |-> DeliveryAnswer(c)]

Context(s, i) == Contract(s, i).context
Releases(s, i, owner) == IF owner = NativeCall THEN {} ELSE {Contract(s, i).release} \ {0}
Claimed(s) == Data(s) \cup Lengths(s, Spans(s)) \cup Identities(s, Spans(s))

CallbackCollide(s, owner) ==
  \E i \in Callbacks(s) :
    LET before == Earlier(Callbacks(s), i)
        contexts == {Context(s, j) : j \in before}
        releases == UNION {Releases(s, j, owner) : j \in before}
    IN \/ Context(s, i) \in contexts
       \/ Releases(s, i, owner) \cap (releases \cup contexts) # {}
       \/ ({i, Context(s, i)} \cup Releases(s, i, owner)) \cap Claimed(s) # {}

-----------------------------------------------------------------------------
(* Source arguments: the parameters that no other one fills.               *)
Siblings(s, i, owner) ==
  (IF i \in Spans(s) THEN {s.parameters[i].length, s.parameters[i].identity} \ {0} ELSE {})
  \cup (IF i \in Callbacks(s) THEN {Context(s, i)} \cup Releases(s, i, owner) ELSE {})

Arguments(s, owner) == Indices(s) \ UNION {Siblings(s, i, owner) : i \in Indices(s)}

(* An argument of its own slot only.                                       *)
DirectFits(p) ==
  /\ PositionSupported(p, TRUE, FALSE)
  /\ p.type \in Handles \cup {"boolean", "struct"} \cup Scalars
  /\ p.number => p.type \in {"boolean"} \cup Scalars

ParametersFit(s, owner) ==
  \A i \in Arguments(s, owner) :
    i \in Callbacks(s) \cup Data(s) \/ DirectFits(s.parameters[i])

(* argumentByParameter: of two arguments that fill a slot the later wins.  *)
Filling(s, slot, owner) ==
  {i \in Arguments(s, owner) : slot \in {i} \cup Siblings(s, i, owner)}

Role(s, slot, owner) ==
  LET p == s.parameters[slot] IN
  CASE slot \in Callbacks(s) -> "function"
    [] \E i \in Callbacks(s) : slot = Context(s, i) -> "context"
    [] \E i \in Callbacks(s) : slot \in Releases(s, i, owner) -> "context-release"
    [] slot \in Data(s) -> p.marshal
    [] slot \in Lengths(s, Spans(s)) -> "length"
    [] slot \in Identities(s, Spans(s)) \ Lengths(s, Spans(s)) -> "identity"
    [] OTHER -> IF p.type = "boolean" THEN "boolean" ELSE IF p.number THEN "number" ELSE "argument"

ParameterSlot(s, slot, owner) ==
  LET filling == Filling(s, slot, owner) IN
  [role |-> Role(s, slot, owner), argument |-> CHOOSE i \in filling : \A j \in filling : j <= i]

(* The compiler's own slots trail: sym(args..., size_t *length, error).    *)
OwnSlot(role) == <<[role |-> role, argument |-> 0]>>
LengthOut(s) == IF s.result.marshal \in {"bytes", "utf8"} THEN OwnSlot("length-out") ELSE <<>>
ErrorOut(s) == IF s.error = "error-out" THEN OwnSlot("error-out") ELSE <<>>

Slots(s, owner) ==
  [i \in Indices(s) |-> ParameterSlot(s, i, owner)] \o LengthOut(s) \o ErrorOut(s)

(* Where a failure is looked for: outParameterIsNotNull names a slot.      *)
FailureSlot(s, owner) == IF s.error = "error-out" THEN Len(Slots(s, owner)) ELSE 0

-----------------------------------------------------------------------------
(* Results.  A string is freed once copied, or kept by the receiver.       *)
StringResultFits(s) ==
  LET r == s.result IN
  /\ r.type = "bytes" /\ r.exact /\ r.identity = 0 /\ ~ ReadsResult(s)
  /\ IF r.freed THEN r.held = "value"
     ELSE r.held = "receiver" /\ s.kind \in {"method", "getter"} /\ BorrowedReceiver(s)

(* A span's extent arrives in the compiler's slot, and the span is         *)
(* consumed by the copy.                                                   *)
SpanResultFits(r) ==
  /\ r.type = "bytes" /\ r.exact /\ r.held = "value" /\ r.length = 0 /\ r.identity = 0
  /\ r.nullable => r.marshal = "utf8"

(* What a copied result is copied from: memory the callee keeps hangs on   *)
(* the receiver, memory that is given is released after the copy.          *)
LoweredResult(r) ==
  [anchored |-> r.marshal \in {"c-string", "strings"} /\ ~ r.freed,
   released |-> r.marshal # "none" /\ r.freed, nullable |-> r.nullable]

(* An absent handle is an answer unless the contract reads it as failure.  *)
PlainResultFits(s) ==
  LET r == s.result IN
  IF OwnedHandle(r) /\ r.nullable /\ ~ ReadsResult(s) THEN TRUE
  ELSE IF r.type # "boolean" /\ r.number
  THEN PositionSupported(r, FALSE, FALSE) /\ r.type \in Scalars /\ ~ ReadsResult(s)
  ELSE /\ PositionSupported(r, FALSE, r.type # "boolean" /\ s.error = "nullable")
       /\ r.type \notin Pointers \cup {"function", "hook"}

ResultFits(s) ==
  LET r == s.result IN
  IF s.error = "error-handle" THEN r.type \in Pointers /\ r.exact /\ r.marshal = "none"
  ELSE CASE r.marshal \in {"bytes", "utf8"} -> SpanResultFits(r)
         [] r.marshal = "strings" -> StringsFit(r, FALSE)
         [] r.marshal = "c-string" -> StringResultFits(s)
         [] OTHER -> PlainResultFits(s)

ErrorFits(s) ==
  /\ s.error = "errno" => s.result.type \in Integers /\ s.result.exact /\ s.result.held = "value"
  /\ s.error = "nullable" =>
       s.result.type = "handle" /\ s.result.exact /\ s.result.nullable /\ s.result.held = "given"

(* A call spends a handle only if it must be given one.                    *)
ConsumedFit(s) ==
  \A i \in Indices(s) : s.parameters[i].held = "taken" =>
    s.parameters[i].type = "handle" /\ s.parameters[i].exact /\ ~ s.parameters[i].nullable
    /\ Unmarshalled(s.parameters[i])

SignatureSupported(s, owner, cancels) ==
  /\ \A i \in Data(s) : DataFits(s, i)
  /\ \A i \in Callbacks(s) : CallbackFits(s, i, owner, cancels)
  /\ ~ DataCollide(s) /\ ~ CallbackCollide(s, owner)
  /\ ParametersFit(s, owner)
  /\ \A slot \in Indices(s) : Filling(s, slot, owner) # {}
  /\ ResultFits(s) /\ ErrorFits(s)

LoweredSignature(s, owner) ==
  [slots |-> Slots(s, owner), failure |-> FailureSlot(s, owner),
   callbacks |-> [i \in Callbacks(s) |-> LoweredCallback(Contract(s, i), owner)],
   result |-> LoweredResult(s.result)]
=============================================================================
