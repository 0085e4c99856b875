------------------------------ MODULE MCJvmScabi ------------------------------
EXTENDS JvmScabi

LowerCase(n) == IF n = "Draw" THEN "draw" ELSE n
SuperCase(n) == IF n \in {"draw", "Draw"} THEN "ntsSuperDraw" ELSE "ntsSuperProbe"

In(n) == <<<<"app">>, <<n>>>>
ObjectName == <<<<"lang">>, <<"Object">>>>
View == In("View")
Group == In("Group")
Layout == In("Layout")
Listener == In("Listener")
Base == In("Base")
Unrelated == In("Other")
Holder == <<<<"app">>, <<"View", "Holder">>>>
Namesake == <<<<"lib">>, <<"View">>>>

Value(kind) == [kind |-> kind, class |-> ObjectName]
Reference(c) == [kind |-> "object", class |-> c]
Callable == [takes |-> <<>>, gives |-> Value("void"), static |-> FALSE, native |-> FALSE,
             access |-> "public", final |-> FALSE, abstract |-> FALSE]
Field == [static |-> TRUE, long |-> FALSE, constant |-> "none"]

Class == [kind |-> "class", super |-> {ObjectName}, interfaces |-> {}, nesting |-> "none",
          final |-> FALSE, public |-> TRUE, initializes |-> FALSE,
          constructors |-> (NoArgs :> Callable), methods |-> Empty, fields |-> Empty]
Under(c) == [Class EXCEPT !.super = {c}]
Interface == [Class EXCEPT !.kind = "interface", !.constructors = Empty]
RootClass == [Class EXCEPT !.super = {}]

Draw == <<"draw", "()V">>
DrawAt == <<"draw", "(I)V">>
DrawUpper == <<"Draw", "()V">>
Probe == <<"probe", "(X)Y">>
Super == <<"superDraw", "()V">>
Declares(class, keys) == [class EXCEPT !.methods = [k \in keys |-> Callable]]
Asks(names, exact) == [Unselected EXCEPT !.names = names, !.exact = exact]
Plan(archive, selection) == [archive |-> archive, selection |-> selection, slots |-> {}, subclasses |-> {}]

(* A method declared on some of the classes of a chain, by one or two      *)
(* descriptors, asked of the lowest and of the one above it.               *)
DrawKeys == {{}, {Draw}, {Draw, DrawAt}}
Asked == {<<{"draw"}, {}>>, <<{}, {Draw}>>, <<{}, {Draw, DrawAt}>>, <<{}, {}>>}
Chain(o, v, g, f) ==
  (ObjectName :> Declares(RootClass, o)) @@ (View :> Declares(Class, v))
  @@ (Group :> Declares(Under(View), g)) @@ (Layout :> Declares(Under(Group), f))
Chains == {Chain(o, v, g, f) : o \in {{}, {Draw}}, v \in DrawKeys, g \in DrawKeys, f \in {{}, {DrawAt}}}
ChainPlans ==
  {Plan(a, (Layout :> Asks(x[1], x[2])) @@ (Group :> Asks(y[1], y[2]))) : a \in Chains, x \in Asked, y \in Asked}
  \cup {Plan(a, (Layout :> Asks(x[1], x[2]))) : a \in Chains, x \in Asked}
  \cup {Plan(Restrict(a, DOMAIN a \ {gone}), (Layout :> Asks({"draw"}, {}))) :
          a \in Chains, gone \in {ObjectName, View, Group, Layout}}

(* Interfaces above interfaces, behind classes, some of them selected.     *)
InterfacePlans ==
  {Plan((ObjectName :> RootClass) @@ (View :> [Class EXCEPT !.interfaces = v])
        @@ (Group :> [Under(View) EXCEPT !.interfaces = g])
        @@ (Listener :> [Interface EXCEPT !.interfaces = l]) @@ (Base :> Interface),
        [c \in {View, Group} \cup chosen |-> Unselected]) :
     v \in SUBSET {Listener, Base}, g \in SUBSET {Listener, Base}, l \in SUBSET {Base},
     chosen \in SUBSET {Listener, Base}}

(* One member of every signature.                                          *)
Kinds == {"int", "float", "boolean", "string", "chars", "span", "strings", "other"}
Handed == {Reference(c) : c \in {View, Group, Unrelated}}
Probed(k, constructor) ==
  [Under(View) EXCEPT !.methods = (Probe :> k),
     !.constructors = IF constructor THEN ("(X)V" :> [k EXCEPT !.static = TRUE]) @@ (NoArgs :> Callable) ELSE @]
SignaturePlans ==
  {Plan((ObjectName :> RootClass) @@ (View :> Class)
        @@ (Group :> Probed([Callable EXCEPT !.takes = t, !.gives = g, !.static = s], FALSE)),
        (Group :> Asks({"probe"}, {}))) :
     t \in {<<>>} \cup {<<Value(k)>> : k \in Kinds} \cup {<<r, Value("int")>> : r \in Handed},
     g \in {Value(k) : k \in Kinds \cup {"void"}} \cup Handed, s \in BOOLEAN}
  \cup {Plan((ObjectName :> RootClass) @@ (View :> Class) @@ (Group :> Probed([Callable EXCEPT !.takes = t], TRUE)),
             (Group :> [Unselected EXCEPT !.constructors = d])) :
          t \in {<<Value(k)>> : k \in Kinds} \cup {<<r>> : r \in Handed},
          d \in {{"(X)V"}, {"(X)V", NoArgs}, {"(Z)V"}}}

(* A native method that the program implements, on a generated class.      *)
Stated == [delivery : {"unstated", "queued", "synchronous"}, anchor : {"class", "instance"},
           base : {{}, {Super}, {<<"lost", "()V">>}}, terminal : BOOLEAN, shell : {{}, {Listener}}]
CallbackPlans ==
  {Plan((ObjectName :> RootClass) @@ (View :> Class) @@ (Listener :> Interface)
        @@ (Group :> [Class EXCEPT !.interfaces = {Listener}, !.super = {up},
              !.methods = (Probe :> [Callable EXCEPT !.native = n, !.takes = t, !.gives = Value(g)])
                          @@ (IF s.base = {Super} THEN (Super :> Callable) ELSE Empty)]),
        (Group :> [Asks({}, IF asked THEN {Super} ELSE {}) EXCEPT !.callbacks = (Probe :> s)])
        @@ (View :> Unselected)) :
     n \in {TRUE}, t \in {<<>>, <<Reference(View), Value("int")>>, <<Value("string")>>},
     g \in {"void", "boolean", "int"}, s \in Stated, asked \in BOOLEAN, up \in {ObjectName, View}}

(* Constants, a peer slot and a nested class.                              *)
Fields == [shape : {[Field EXCEPT !.constant = k] : k \in {"none", "carried", "other"}}
                   \cup {[Field EXCEPT !.static = FALSE, !.long = l] : l \in BOOLEAN}]
FieldPlans ==
  {[Plan((ObjectName :> RootClass) @@ (View :> Class)
         @@ (c :> [Under(View) EXCEPT !.fields = ("f" :> f.shape), !.nesting = n,
               !.methods = (Probe :> Callable),
               !.constructors = ("(X)V" :> Callable) @@ (NoArgs :> Callable)]),
         (c :> [Asks(m, {}) EXCEPT !.fields = asked, !.constructors = d]))
      EXCEPT !.slots = p] :
     c \in {Group}, f \in Fields, n \in {"none"}, m \in SUBSET {"probe"}, asked \in SUBSET {"f"},
     d \in {{}, {NoArgs}}, p \in SUBSET {<<Group, "f">>, <<View, "f">>}}
  \cup
  {Plan((ObjectName :> RootClass) @@ (View :> Class)
        @@ (Holder :> [Under(View) EXCEPT !.fields = ("f" :> f.shape), !.nesting = n,
              !.methods = (Probe :> Callable),
              !.constructors = ("(X)V" :> Callable) @@ (NoArgs :> Callable)]),
        (Holder :> [Asks(m, {}) EXCEPT !.constructors = d])) :
     f \in Fields, n \in {"static", "inner", "local"}, m \in SUBSET {"probe"},
     d \in SUBSET {NoArgs, "(X)V"}}

(* Names that are one name elsewhere.                                      *)
NamePlans ==
  {Plan((ObjectName :> RootClass) @@ (View :> Declares(Class, {Draw, DrawUpper}))
        @@ (Namesake :> Declares(Class, {Draw})), s) :
     s \in {(View :> Asks(n, {})) : n \in SUBSET {"draw", "Draw"}}
           \cup {(View :> Unselected) @@ (Namesake :> Unselected)}}

(* A subclass of a class or an interface, each shape of base and override, *)
(* and two subclasses of one base.                                         *)
Main == In("Main")
Shape == {Class, [Class EXCEPT !.final = TRUE], [Class EXCEPT !.public = FALSE], [Class EXCEPT !.constructors = Empty],
          [Class EXCEPT !.constructors = (NoArgs :> [Callable EXCEPT !.access = "hidden"])],
          [Class EXCEPT !.kind = "enum"], Interface}
Overridden == {Callable, [Callable EXCEPT !.final = TRUE], [Callable EXCEPT !.static = TRUE],
               [Callable EXCEPT !.access = "protected"], [Callable EXCEPT !.access = "hidden"],
               [Callable EXCEPT !.abstract = TRUE]}
Spec1(names, exact, anchored, loads, terminal) ==
  [base |-> View, names |-> names, exact |-> exact, class |-> Main, anchored |-> anchored,
   loads |-> loads, terminal |-> terminal]
Specs == {Spec1(n, e, a, l, t) : n \in {{}, {"draw"}, {"probe"}}, e \in {{}, {Draw}, {Probe}, {DrawUpper}},
            a \in BOOLEAN, l \in BOOLEAN, t \in {{}, {Draw}, {DrawAt}}}
BaseOf(shape, k, more) ==
  [shape EXCEPT !.methods = (Draw :> k) @@ [j \in more |-> [Callable EXCEPT !.abstract = (shape.kind = "interface")]]]
Over(shape, specs) ==
  [Plan((ObjectName :> RootClass) @@ (View :> shape), (View :> Unselected)) EXCEPT !.subclasses = specs]
OverridePayloads == {<<>>} \cup {<<Value(k)>> : k \in Kinds} \cup {<<Reference(View)>>, <<Reference(Unrelated), Value("int")>>}
Rare == {Spec1({"draw"}, {}, a, FALSE, t) : a \in BOOLEAN, t \in {{}, {Draw}}}
SubclassPlans ==
  {Over(BaseOf(b, k, more), {s}) :
     b \in Shape, k \in Overridden, more \in {{}, {Probe}, {DrawAt, DrawUpper}}, s \in Rare}
  \cup {Over(BaseOf(b, [Callable EXCEPT !.abstract = (b.kind = "interface")], more), {s}) :
          b \in {Class, Interface}, more \in {{}, {Probe}, {DrawAt, DrawUpper}}, s \in Specs}
  \cup {Over(BaseOf(b, [Callable EXCEPT !.abstract = (b.kind = "interface"), !.takes = t, !.gives = Value(g)], {}), {s}) :
          b \in {Class, Interface}, t \in OverridePayloads, g \in {"void", "boolean", "int"}, s \in Rare}
  \cup {Over(BaseOf(Class, Callable, {Probe}), {Spec1({"draw"}, {}, TRUE, FALSE, {Draw}),
                                              [Spec1({"probe"}, {}, FALSE, FALSE, {}) EXCEPT !.class = c, !.base = b]}) :
          c \in {Main, Group, View}, b \in {View, Unrelated}}

AllPlans ==
  {p \in ChainPlans \cup InterfacePlans \cup SignaturePlans \cup CallbackPlans \cup FieldPlans \cup NamePlans
          \cup SubclassPlans : p.selection # Empty}
=============================================================================
