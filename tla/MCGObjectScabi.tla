---------------------------- MODULE MCGObjectScabi ----------------------------
EXTENDS GObjectScabi

Value(kind) == [kind |-> kind, class |-> <<>>, transfer |-> "none", nullable |-> FALSE, exact |-> TRUE,
                direction |-> "in", storage |-> FALSE, plain |-> TRUE]
Named(kind, n, c) == [Value(kind) EXCEPT !.class = <<n, c>>]
Object(n, c) == Named("object", n, c)
Out(v) == [v EXCEPT !.direction = "out"]
Filled(v) == [Out(v) EXCEPT !.storage = TRUE]
Full(v) == [v EXCEPT !.transfer = "full"]
Nullable(v) == [v EXCEPT !.nullable = TRUE]

Callable == [id |-> <<>>, takes |-> EmptyFunction, gives |-> Value("void"), throws |-> FALSE, receiver |-> TRUE,
             reads |-> {}, writes |-> {}, detailed |-> FALSE]
Yields(v) == [Callable EXCEPT !.gives = v]
Takes(v) == [Callable EXCEPT !.takes = [p \in {"a"} |-> v]]
Members(k) == [m \in {"probe"} |-> k]

Class == [kind |-> "class", parent |-> {}, interfaces |-> {},
          constructors |-> EmptyFunction, methods |-> EmptyFunction, signals |-> EmptyFunction, notify |-> {}]
Record == [Class EXCEPT !.kind = "record"]
Interface == [Class EXCEPT !.kind = "interface"]

(* The document that declares the classes s, an enumeration and a layout,  *)
(* and the selection of everything in it but what copies and frees records.*)
Member(n, c, sort, k, callable) ==
  [sort |-> sort, name |-> k, introspectable |-> TRUE, shaped |-> TRUE,
   self |-> IF sort = "method" THEN 1 ELSE 0, callable |-> [callable EXCEPT !.id = <<n, c, k>>]]
Duplicate(n, c, k) == Member(n, c, "method", k, Yields(Full(Object(n, c))))
Release1(n, c, k) == Member(n, c, "method", k, Callable)

Bare(n, kind, c) ==
  [kind |-> kind, name |-> c, introspectable |-> TRUE, transparent |-> TRUE,
   parent |-> {}, interfaces |-> {}, copy |-> {}, free |-> {}, members |-> {}]
Raw(n, refs) == {IF r[1] = n THEN <<r[2]>> ELSE r : r \in refs}
Element(n, c, class) ==
  [Bare(n, class.kind, c) EXCEPT
     !.parent = Raw(n, class.parent), !.interfaces = Raw(n, class.interfaces),
     !.members = {Member(n, c, "constructor", k, class.constructors[k]) : k \in DOMAIN class.constructors}
                 \cup {Member(n, c, "method", k, class.methods[k]) : k \in DOMAIN class.methods}
                 \cup {Member(n, c, "signal", k, class.signals[k]) : k \in DOMAIN class.signals}
                 \cup (IF class.kind = "record" THEN {Duplicate(n, c, "copy"), Release1(n, c, "free")} ELSE {})]
Valued(n, kind, c, v) == [Bare(n, kind, c) EXCEPT !.members = {Member(n, c, "value", "one", Yields(v))}]

Request(kind, c) ==
  [kind |-> kind, name |-> c, wants |-> [sort \in Sorts |-> {}], notify |-> {}]
RequestAll(c, class) ==
  [Request(IF class.kind = "record" THEN "boxed" ELSE class.kind, c) EXCEPT
     !.wants.constructor = DOMAIN class.constructors, !.wants.method = DOMAIN class.methods,
     !.wants.signal = DOMAIN class.signals, !.notify = class.notify]
RequestOne(kind, c) == [Request(kind, c) EXCEPT !.wants.value = {"one"}]

Described(s) ==
  [document |->
     [namespace |-> s.namespace,
      elements |-> {Element(s.namespace, c, s.classes[c]) : c \in DOMAIN s.classes}
                   \cup {Valued(s.namespace, "enumeration", "Align", Value("void")),
                         Valued(s.namespace, "record", "Area", Value("scalar"))}],
   selection |-> {RequestAll(c, s.classes[c]) : c \in DOMAIN s.classes}
                 \cup {RequestOne("enumeration", "Align"), RequestOne("layout", "Area")},
   supplied |-> {}]

(* The base namespace: a root, a class under it, an interface and a boxed  *)
(* record; the root has a signal and a failing method.                     *)
Gio ==
  [namespace |-> "gio",
   classes |-> [Object |-> [Class EXCEPT !.signals = Members(Takes(Value("string"))),
                                         !.methods = Members([Callable EXCEPT !.throws = TRUE])],
                Button |-> [Class EXCEPT !.parent = {<<"gio", "Object">>}],
                Actionable |-> Interface, Bytes |-> Record]]

(* A namespace over it.  GIR repeats inherited interfaces on a class.      *)
Gtk(button, iter, implements) ==
  [namespace |-> "gtk",
   classes |-> [Widget |-> [Class EXCEPT !.parent = {<<"gio", "Object">>}, !.interfaces = {<<"gtk", "Buildable">>}],
                Button |-> [button EXCEPT !.parent = {<<"gtk", "Widget">>}, !.interfaces = implements],
                Check |-> [Class EXCEPT !.parent = {<<"gtk", "Button">>}, !.interfaces = implements],
                Buildable |-> Interface, Actionable |-> Interface, Iter |-> iter]]

Interfaces == {<<"gtk", "Buildable">>, <<"gtk", "Actionable">>, <<"gio", "Actionable">>}

OverGio(described) == <<Described(Gio), [described EXCEPT !.supplied = {"gio"}]>>
Only(s) == <<Described(s)>>
Over(s) == OverGio(Described(s))
Both(s) == {Only(s), Over(s)}

(* One method, of a class and of a boxed record, of every combination.     *)
Objects == {Object(n, c) : <<n, c>> \in {<<"gtk", "Widget">>, <<"gtk", "Check">>, <<"gtk", "Iter">>,
                                         <<"gtk", "Actionable">>, <<"gio", "Object">>, <<"gio", "Button">>,
                                         <<"gio", "Bytes">>, <<"gio", "Lost">>}}
Values == {Named("enumeration", n, c) : <<n, c>> \in {<<"gtk", "Align">>, <<"gio", "Align">>, <<"gio", "Lost">>}}
Areas == {Named("layout", n, c) : <<n, c>> \in {<<"gtk", "Area">>, <<"gio", "Area">>, <<"gio", "Lost">>}}
Results == Values \cup {Value(k) : k \in {"void", "boolean", "scalar", "string", "vector", "other"}}
           \cup {Full(Value("string")), Nullable(Value("string")), Nullable(Value("scalar"))}
           \cup Objects \cup {Full(o) : o \in Objects}
           \cup {[Object("gtk", "Iter") EXCEPT !.exact = FALSE], [Value("void") EXCEPT !.plain = FALSE]}
Inputs1 == {Value(k) : k \in {"boolean", "scalar", "string", "vector"}}
           \cup Values \cup Areas \cup {Nullable(Named("enumeration", "gtk", "Align"))} \cup Objects \cup {Full(Object("gtk", "Check")), Nullable(Object("gtk", "Check")), Nullable(Value("scalar"))}
Outputs1 == {Out(Value("scalar")), Out(Value("string")),
             [Value("scalar") EXCEPT !.direction = "inout"]}
            \cup {Filled(o) : o \in Objects \cup Areas} \cup {Out(v) : v \in Values} \cup {Out(Object("gtk", "Iter"))}

Methods ==
  {Yields(r) : r \in Results}
  \cup {[Takes(v) EXCEPT !.gives = r] :
          <<v, r>> \in (Inputs1 \cup Outputs1) \X {Value("void"), Value("boolean"), Value("scalar"), Object("gtk", "Widget")}}
  \cup {[Callable EXCEPT !.takes = [p \in {"a", "b"} |-> IF p = "a" THEN o ELSE v], !.gives = Value("boolean")] :
          <<o, v>> \in {Out(Value("scalar")), Filled(Object("gtk", "Iter"))} \X Inputs1}
  \cup {[k EXCEPT !.throws = TRUE] : k \in {Yields(r) : r \in Results} \cup {Takes(v) : v \in Outputs1}}
  \cup {[Yields(Object("gtk", "Widget")) EXCEPT !.receiver = FALSE]}

MethodPlans ==
  UNION {Both(Gtk([Class EXCEPT !.methods = Members(k)], Record, {})) : k \in Methods}
  \cup {Over(Gtk(Class, [Record EXCEPT !.methods = Members(k)], {})) : k \in Methods}

(* Constructors and signals, and observers with and without a getter.      *)
Signals ==
  {[Takes(v) EXCEPT !.gives = r] :
     <<v, r>> \in (Inputs1 \cup {Nullable(Value("string"))}) \X {Value("void"), Value("boolean")}}
  \cup {Yields(Value("scalar")), [Callable EXCEPT !.detailed = TRUE]}
Constructors ==
  {[Takes(v) EXCEPT !.gives = r] : <<v, r>> \in Inputs1 \X {Object("gtk", "Button"), Full(Object("gtk", "Button"))}}
  \cup {[Yields(Object("gtk", "Button")) EXCEPT !.throws = TRUE]}

Getter(v) == [Yields(v) EXCEPT !.reads = {"label"}]
Setter(v) == [Takes(v) EXCEPT !.writes = {"label"}]
Accessing(get, set, other) ==
  [Class EXCEPT !.methods = [m \in {"get", "set", other} |->
                               IF m = "get" THEN get ELSE IF m = "set" THEN set ELSE Callable],
                !.notify = {"label"}]
AccessedValues == {Value("scalar"), Value("string"), Nullable(Value("string")), Object("gtk", "Widget"), Value("vector")}

MemberPlans ==
  UNION {Both(Gtk([Class EXCEPT !.signals = Members(k)], Record, {})) : k \in Signals}
  \cup UNION {Both(Gtk([Class EXCEPT !.constructors = Members(k)], Record, {})) : k \in Constructors}
  \cup {Only(Gtk(Accessing(Getter(v), w, other), Record, {})) :
          <<v, w, other>> \in AccessedValues
             \X {Setter(Value("scalar")), Setter(Value("string")), Setter(Object("gtk", "Widget")), Callable}
             \X {"label", "other", "dispose", "release"}}
  \cup {Only(Gtk(Accessing(Callable, Setter(Value("scalar")), "other"), Record, {})),
        Only(Gtk(Accessing(Getter(Value("scalar")), Getter(Value("scalar")), "other"), Record, {})),
        <<Described(Gio), Described(Gio)>>, <<Described(Gio), [Described(Gio) EXCEPT !.supplied = {"gio"}]>>,
        <<[Described(Gio) EXCEPT !.supplied = {"gtk"}]>>}

(* Every set of interfaces under every hierarchy.                          *)
HierarchyPlans == UNION {Both(Gtk(Class, Record, i)) : i \in SUBSET Interfaces}

(* What a document says of a record's duplicate and release, and which of  *)
(* its methods are selected as members.                                    *)
Counted(copy, free, methods) ==
  [Bare("gtk", "record", "Iter") EXCEPT !.copy = copy, !.free = free, !.members = methods]
Seen(m, b) == [m EXCEPT !.introspectable = b]
Referenced == {Duplicate("gtk", "Iter", "ref"), Release1("gtk", "Iter", "unref")}
Conventional(b) == {Duplicate("gtk", "Iter", "copy"), Seen(Release1("gtk", "Iter", "free"), b)}
Contracts ==
  {Counted(copy, free, methods) :
     <<copy, free, methods>> \in
       {{}, {<<"gtk", "Iter", "ref">>}, {<<"gtk", "Iter", "lost">>}}
         \X {{}, {<<"gtk", "Iter", "unref">>}}
         \X {Conventional(TRUE), Referenced, Conventional(TRUE) \cup Referenced, Conventional(FALSE) \cup Referenced}}
  \cup {Counted({}, {}, {Duplicate("gtk", "Iter", "copy"), Member("gtk", "Iter", "method", "free", k)}) :
          k \in {Yields(Value("boolean")), [Callable EXCEPT !.throws = TRUE], Takes(Value("scalar"))}}
  \cup {Counted({}, {}, {Member("gtk", "Iter", "method", "copy", k), Release1("gtk", "Iter", "free")}) :
          k \in {Yields(Object("gtk", "Iter")), Yields(Full(Nullable(Object("gtk", "Iter")))),
                 Yields(Full(Object("gtk", "Widget"))), Callable}}

Replaced(p, element, request) ==
  [p EXCEPT !.document.elements = {e \in p.document.elements : e.name # element.name} \cup {element},
            !.selection = {r \in p.selection : r.name # element.name} \cup {request}]
Plain == Described(Gtk(Class, Record, {}))
SelectingMethods(c, names) == [Request(c, "Iter") EXCEPT !.wants.method = names]
ContractPlans(names) ==
  {<<Replaced(Plain, e, SelectingMethods("boxed", n))>> : <<e, n>> \in Contracts \X SUBSET names}

(* Any part of what a namespace declares, and of the things that can be    *)
(* wrong with a selected element or member each alone.                     *)
PartialPlans ==
  {OverGio([Plain EXCEPT !.selection = {r \in Plain.selection : r.name \in names}]) :
     names \in SUBSET {"Widget", "Button", "Check", "Buildable", "Iter", "Area"}}

Probe == Member("gtk", "Check", "method", "probe", Callable)
Probed(e, members) == [e EXCEPT !.members = members]
Check == Element("gtk", "Check", [Class EXCEPT !.parent = {<<"gtk", "Button">>}])
Area == Valued("gtk", "record", "Area", Value("scalar"))
ProbeRequest == [Request("class", "Check") EXCEPT !.wants.method = {"probe"}]
FlawedPlans ==
  {<<Replaced(Plain, e, ProbeRequest)>> :
     e \in {Probed(Check, members) :
              members \in {{Probe}, {}, {Seen(Probe, FALSE)}, {[Probe EXCEPT !.shaped = FALSE]},
                           {[Probe EXCEPT !.self = 0]}, {[Probe EXCEPT !.self = 2]}, {Probe, [Probe EXCEPT !.callable.id = <<>>]},
                           {[Probe EXCEPT !.sort = "constructor"]}}}
          \cup {[Probed(Check, {Probe}) EXCEPT !.introspectable = FALSE], Bare("gtk", "class", "Check"),
                Bare("gtk", "interface", "Check")}}
  \cup {<<Replaced(Plain, e, RequestOne("layout", "Area"))>> :
          e \in {[Area EXCEPT !.transparent = FALSE], Valued("gtk", "record", "Area", Value("string"))}}
  \cup {<<[Plain EXCEPT !.selection = @ \cup {r}]>> :
          r \in {SelectingMethods("layout", {}), [RequestOne("class", "Widget") EXCEPT !.wants.value = {}], Request("class", "Lost")}}
  \cup {<<[Plain EXCEPT !.document.elements = @ \cup {Bare("gtk", "class", "Widget")}]>>}

SelectionPlans == ContractPlans({"copy", "ref", "free"}) \cup PartialPlans \cup FlawedPlans

(* A member that is the release itself, under the name the document gives. *)
ReleaseSelected == ContractPlans({"unref"})

AllPlans == MethodPlans \cup MemberPlans \cup HierarchyPlans \cup SelectionPlans
=============================================================================
