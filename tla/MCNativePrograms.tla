-------------------------- MODULE MCNativePrograms --------------------------
EXTENDS NativePrograms

Binding == [kind |-> "call", deps |-> {}, links |-> {}, adapters |-> {}, takes |-> {},
            gives |-> None, payload |-> {}, destructor |-> None, base |-> None, owner |-> None,
            cancel |-> None, errors |-> {}, direct |-> TRUE]
Handle == [contract |-> "owner", upcasts |-> {}, destructor |-> None, peer |-> {}]

(* Positions and signatures, and those of the calls below whose slots      *)
(* matter: a receiver, a callback and its context.                         *)
Plain == [type |-> "integer", exact |-> TRUE, held |-> "value", nullable |-> FALSE,
          number |-> FALSE, freed |-> FALSE, framed |-> FALSE, marshal |-> "none",
          length |-> 0, identity |-> 0, callback |-> {}]
Nothing == [Plain EXCEPT !.type = "void"]
Borrowed == [Plain EXCEPT !.type = "handle", !.held = "call"]
Given == [Plain EXCEPT !.type = "handle", !.held = "given"]
Absent == [Given EXCEPT !.nullable = TRUE]
Size == [Plain EXCEPT !.type = "extent"]
Text(l, i) == [Plain EXCEPT !.type = "bytes", !.held = "call", !.marshal = "utf8", !.length = l, !.identity = i]
Context(h) == [Plain EXCEPT !.type = "context", !.held = h]
Hook == [Plain EXCEPT !.type = "hook", !.held = "registration", !.nullable = TRUE]
Callback(h, c) == [Plain EXCEPT !.type = "function", !.held = h, !.callback = {c}]
Queued(x) == [context |-> x, release |-> 0, payload |-> <<>>, sources |-> <<>>, answer |-> "void",
              executors |-> {"same"}, transport |-> "copy", synchronous |-> FALSE]
Signature == [kind |-> "function", executor |-> "owner", error |-> "no-fail",
              parameters |-> <<>>, result |-> Nothing]
Listening(payload, sources) ==
  [Signature EXCEPT !.kind = "method", !.result = Absent,
     !.parameters = <<Borrowed,
                      Callback("registration", [Queued(3) EXCEPT !.payload = payload, !.sources = sources]),
                      Context("registration")>>]

(* The base package: an object class with a signal, a derived class that   *)
(* upcasts to it, and a failing call with its two error entries.           *)
Gio(selected, receiver, orders, unref) ==
  [manifest |->
     [instance |-> "gio", target |-> "64",
      types |-> [Object |-> [Handle EXCEPT !.destructor = "unref"],
                 Action |-> [Handle EXCEPT !.upcasts = {"Object"}, !.destructor = "unref"],
                 Signal |-> [Handle EXCEPT !.destructor = "disconnect"]],
      imports |-> EmptyFunction,
      bindings |->
        [unref |-> [Binding EXCEPT !.takes = {"Object"}, !.links = {1}],
         disconnect |-> [Binding EXCEPT !.takes = {"Signal"}, !.links = {1}],
         action |-> [Binding EXCEPT !.gives = "Action", !.deps = unref, !.links = {1, 2}],
         connect |-> [Binding EXCEPT !.takes = {receiver}, !.gives = "Signal", !.owner = receiver,
                        !.cancel = "disconnect", !.deps = {"disconnect"}, !.payload = {"Object"},
                        !.links = {2}],
         load |-> [Binding EXCEPT !.errors = {"message", "free"}, !.deps = {"message", "free"}],
         message |-> [Binding EXCEPT !.adapters = {"errors"}],
         free |-> [Binding EXCEPT !.adapters = {"errors"}]],
      signatures |->
        [connect |-> Listening(<<Given>>, <<0, 1>>),
         load |-> [Signature EXCEPT !.error = "error-out", !.parameters = <<Text(2, 0), Size>>]],
      links |-> [l \in 1..2 |-> [name |-> l, order |-> orders[l]]],
      adapters |-> [errors |-> {"message", "free"}]],
   selection |-> [bindings |-> selected, types |-> {}]]

(* A package over it: its widget upcasts to the imported object and has a  *)
(* peer slot.                                                              *)
Gtk(selected, selectedTypes, contract, widgetUpcasts, orders, name) ==
  [manifest |->
     [instance |-> "gtk", target |-> "64",
      types |-> [Widget |-> [Handle EXCEPT !.contract = contract, !.upcasts = {"Object"},
                               !.destructor = "drop", !.peer = {"read", "write"}],
                 Button |-> [Handle EXCEPT !.contract = contract, !.upcasts = widgetUpcasts,
                               !.destructor = "drop"],
                 Click |-> [Handle EXCEPT !.destructor = "drop"]],
      imports |-> [Object |-> [package |-> "gio", type |-> "Object", destructor |-> "unref"]],
      bindings |->
        [drop |-> [Binding EXCEPT !.takes = {"Click"}],
         read |-> [Binding EXCEPT !.takes = {"Widget"}, !.adapters = {"peers"}],
         write |-> [Binding EXCEPT !.takes = {"Widget"}, !.adapters = {"peers"}],
         show |-> [Binding EXCEPT !.takes = {"Widget"}, !.base = "drop", !.deps = {"drop"}, !.links = {2, 3}],
         parent |-> [Binding EXCEPT !.takes = {"Button"}, !.gives = "Object", !.links = {3}],
         clicked |-> [Binding EXCEPT !.takes = {"Button"}, !.gives = "Click", !.owner = "Button",
                        !.cancel = "drop", !.deps = {"drop"}, !.links = {1, 2, 3}]],
      signatures |-> [clicked |-> Listening(<<>>, <<>>),
                      parent |-> [Signature EXCEPT !.kind = "method", !.parameters = <<Borrowed>>,
                                    !.result = [Given EXCEPT !.type = "imported"]]],
      links |-> [l \in 1..3 |-> [name |-> IF l = 2 THEN name ELSE l, order |-> orders[l]]],
      adapters |-> [peers |-> {"read", "write"}]],
   selection |-> [bindings |-> selected, types |-> selectedTypes]]

(* A package that only has a class of its own over the other's widget.     *)
App(order, owner) ==
  [manifest |->
     [instance |-> "app", target |-> "64",
      types |-> [Window |-> [Handle EXCEPT !.upcasts = {"Widget"}, !.destructor = "close"]],
      imports |-> [Widget |-> [package |-> "gtk", type |-> "Widget", destructor |-> "drop"]],
      bindings |-> [close |-> [Binding EXCEPT !.takes = {"Window"}, !.links = {1, 3}],
                    title |-> [Binding EXCEPT !.kind = "constant"],
                    watch |-> [Binding EXCEPT !.takes = {"Widget"}, !.gives = "Window", !.owner = owner,
                                 !.cancel = "close", !.deps = {"close"}]],
      signatures |-> EmptyFunction,
      links |-> [l \in {1, 3} |-> [name |-> l, order |-> IF l = 1 THEN 0 ELSE order]],
      adapters |-> EmptyFunction],
   selection |-> [bindings |-> {"close", "title"} \cup (IF owner = None THEN {} ELSE {"watch"}),
                  types |-> {}]]

Forward == [l \in 1..3 |-> l]
Level == [l \in 1..3 |-> 0]
Backward == [l \in 1..3 |-> 3 - l]

BasePackages ==
  {Gio(s, r, o, {"unref"}) : s \in {{"action"}, {"unref"}, {"connect"}, {"action", "load"}, {"connect", "unref", "load"}},
                   r \in {"Object", "Action"}, o \in {Forward, Backward}}

WidgetPackages ==
  {Gtk(s, t, c, u, o, n) :
     s \in {{"show"}, {"parent"}, {"clicked"}},
     t \in {{}, {"Widget"}}, c \in {"owner"}, u \in {{"Widget"}, {"Object"}},
     o \in {Forward, Level, Backward}, n \in {2}}
  \cup {Gtk({"show"}, {}, "frame", {"Object"}, Forward, 2), Gtk({"show"}, {}, "owner", {"Object"}, Forward, 4)}

AppPackages == {App(o, w) : o \in {1}, w \in {None, Result}}
               \cup {App(0, "Widget"), [App(1, None) EXCEPT !.manifest.target = "32"]}

Pairs == UNION {{<<g, k>>, <<k, g>>} : <<g, k>> \in BasePackages \X WidgetPackages}

(* Three packages in both directions, one package twice with different     *)
(* selections, and manifests that validation or translation refuses.       *)
Triples ==
  UNION {{<<g, k, a>>, <<a, k, g>>, <<k, a, g>>} :
    <<g, k, a>> \in {Gio(s, "Object", Forward, {"unref"}) : s \in {{"action"}, {"connect", "unref"}}}
                  \X {Gtk({"clicked"}, {"Widget"}, "owner", {"Widget"}, o, 2) : o \in {Forward, Backward}}
                  \X AppPackages}

Twice == {<<Gio({"action"}, "Action", Forward, {"unref"}), Gio(s, "Action", Forward, {"unref"})>> :
            s \in {{"action"}, {"unref"}, {"action", "connect"}}}

Refusals == {<<Gio({"action", "lost"}, "Object", Forward, {"unref"})>>,
             <<Gio({"action"}, "Object", Forward, {"lost"})>>,
             <<Gtk({"parent"}, {}, "owner", {"Button"}, Forward, 2)>>}

-----------------------------------------------------------------------------
(* One call of one package, in every shape that matters to its slots.      *)
Probe(binding, signature) ==
  [manifest |->
     [instance |-> "probe", target |-> "64",
      types |-> [Thing |-> [Handle EXCEPT !.destructor = "drop"]],
      imports |-> [Foreign |-> [package |-> "owner", type |-> "Thing", destructor |-> "drop"]],
      bindings |-> [drop |-> Binding, stop |-> Binding, call |-> binding,
                    message |-> Binding, free |-> Binding],
      signatures |-> [call |-> signature],
      links |-> EmptyFunction, adapters |-> EmptyFunction],
   selection |-> [bindings |-> {"call"}, types |-> {}]]

Owner ==
  LET probe == Probe(Binding, Signature) IN
  [probe EXCEPT !.manifest.instance = "owner", !.manifest.imports = EmptyFunction,
                !.manifest.signatures = EmptyFunction, !.selection.bindings = {"drop"}]

HandleIn(p) == IF p.type = "handle" THEN {"Thing"} ELSE IF p.type = "imported" THEN {"Foreign"} ELSE {}
Probed(signature) ==
  LET handles == UNION {HandleIn(p) : p \in Range(signature.parameters)}
      errors == IF signature.error \in {"error-out", "error-handle"} THEN {"free", "message"} ELSE {}
  IN [Binding EXCEPT !.takes = handles, !.errors = errors, !.deps = {"drop", "stop"} \cup errors,
                     !.gives = IF HandleIn(signature.result) = {} THEN None
                               ELSE CHOOSE t \in HandleIn(signature.result) : TRUE]

Calling(signature) == <<Probe(Probed(signature), signature), Owner>>

(* A single parameter and a single result.                                 *)
Kinds == {"handle", "imported", "boolean", "integer", "float", "struct", "extent", "bytes", "strings", "void"}
Positions ==
  {p \in [type : Kinds, exact : {TRUE}, held : {"value", "call", "given", "taken", "receiver"},
          nullable : BOOLEAN, number : BOOLEAN, freed : BOOLEAN, framed : {FALSE},
          marshal : {"none", "c-string", "utf8", "bytes", "strings"}, length : {0}, identity : {0}, callback : {{}}] :
     IF p.marshal = "none" THEN ~ p.freed ELSE p.type \in {"bytes", "strings"} /\ ~ p.number}

OneParameter == {Calling([Signature EXCEPT !.parameters = <<p>>]) : p \in Positions}

OneResult ==
  {Calling([Signature EXCEPT !.kind = k, !.parameters = <<Borrowed>>, !.result = r, !.error = e]) :
     k \in {"function", "getter"}, e \in {"no-fail", "nullable", "errno", "error-handle", "error-out"},
     r \in {p \in Positions : p.held # "taken"}}

Threads ==
  {Calling([Signature EXCEPT !.executor = x, !.parameters = <<[Borrowed EXCEPT !.type = t]>>]) :
     x \in {"any", "owner", "blocking"}, t \in {"handle", "imported"}}

(* Two spans, or a span and a string, over the same three extents.         *)
Spans ==
  {Calling([Signature EXCEPT !.parameters = p, !.result = r, !.error = e]) :
     p \in UNION {{<<Text(l, i), t, Size, Size, Size>>, <<Size, Text(l - 2, 0), Size, t, Size>>} :
                    l \in 3..5, i \in {0, 3, 4, 5},
                    t \in {Text(k, j) : k \in 3..5, j \in {0, 3, 4, 5}}
                         \cup {[Text(k, 0) EXCEPT !.marshal = "bytes"] : k \in 3..5}
                         \cup {[Text(0, 0) EXCEPT !.marshal = "c-string"]}},
     r \in {Nothing, [Plain EXCEPT !.type = "bytes", !.marshal = "utf8"]}, e \in {"no-fail", "error-out"}}

(* One callback with every contract, and one it may not have.              *)
Payloads ==
  {<<<<>>, <<>>>>, <<<<Plain>>, <<1>>>>, <<<<Given>>, <<0, 1>>>>, <<<<Absent>>, <<1>>>>, <<<<Plain, Given>>, <<2, 1>>>>,
   <<<<[Text(0, 0) EXCEPT !.marshal = "c-string"]>>, <<1>>>>, <<<<Plain, [Plain EXCEPT !.number = TRUE]>>, <<2, 1>>>>, <<<<Plain>>, <<1, 1>>>>, <<<<Plain, Given>>, <<1>>>>}
Contracts ==
  {[context |-> 3, release |-> r, payload |-> p[1], sources |-> p[2], answer |-> a,
    executors |-> x, transport |-> t, synchronous |-> t = "borrow"] :
     r \in {0, 4}, p \in Payloads, a \in {"void", "boolean", "integer"},
     x \in {{"same"}, {"same", "any"}}, t \in {"copy", "borrow"}}
  \cup {[Queued(3) EXCEPT !.transport = "borrow"], [Queued(3) EXCEPT !.synchronous = TRUE]}

Registered(binding, owner, cancel, payload) ==
  [binding EXCEPT !.owner = owner, !.cancel = cancel,
                  !.payload = UNION {HandleIn(p) : p \in Range(payload)}]

OneCallback ==
  {LET s == [Signature EXCEPT !.kind = "method", !.result = r,
               !.parameters = <<Borrowed, Callback(h, c), Context(h), Hook>>]
       held == IF c.release = 0 THEN [s EXCEPT !.parameters = SubSeq(s.parameters, 1, 3)] ELSE s
   IN <<Probe(Registered(Probed(held), o[1], o[2], c.payload), held), Owner>> :
     r \in {Nothing, [Absent EXCEPT !.framed = TRUE]}, c \in Contracts,
     <<h, o>> \in {"scoped"} \X {<<NativeCall, None>>}
                  \cup {"registration"} \X {<<Process, None>>, <<Result, "stop">>, <<"Thing", "stop">>, <<Result, None>>}}

(* Two callbacks that have contexts and hooks of their own, or share them. *)
TwoCallbacks ==
  {LET told(at, hook) == [Queued(at) EXCEPT !.release = hook, !.synchronous = TRUE, !.transport = "borrow"]
       s == [Signature EXCEPT !.result = [Absent EXCEPT !.framed = TRUE],
               !.parameters = <<Callback("registration", told(x[1], h[1])), Context("registration"),
                                Callback("registration", told(x[2], h[2]))>> \o rest]
   IN <<Probe(Registered(Probed(s), Result, "stop", <<>>), s), Owner>> :
     rest \in {<<>>, <<Context("registration")>>, <<Hook>>, <<Context("registration"), Hook>>,
              <<Context("registration"), Hook, Hook>>},
     x \in {2, 4} \X {2, 4}, h \in {0, 4, 5, 6} \X {0, 4, 5, 6}}

ProbedCalls == {OneParameter, OneResult, Threads, Spans, OneCallback, TwoCallbacks}

SmallBuilds == {Pairs, Triples, Twice, Refusals} \cup ProbedCalls
=============================================================================
