----------------------------- MODULE GirSnapshot -----------------------------
(***************************************************************************)
(* From one GIR document and what a project selects of it to the snapshot  *)
(* its package is generated from (ingestGir of bindgen-gir/src/gir.ts).    *)
(*                                                                         *)
(* A document d has its namespace and elements.  An element has its kind   *)
(* (class, interface, record or enumeration), name, introspectable,        *)
(* transparent (neither disguised, foreign, opaque nor a pointer), parent  *)
(* and interfaces (sets of references, at most one parent), copy and free  *)
(* (the C identifiers it names as its duplicate and release, sets of at    *)
(* most one) and members.  A member has its sort (constructor, method,     *)
(* signal, or value: an enumeration's member and a record's field), name,  *)
(* introspectable, shaped (its result, parameters and types have every     *)
(* annotation, well-formed, and no bit-field), self (how many instance     *)
(* parameters) and callable, with id, its C identifier (of a field: what   *)
(* it gives).                                                              *)
(*                                                                         *)
(* A selection is a set of requests: a kind (class, interface, enumeration,*)
(* boxed for a record by its methods, layout for one by its fields), a     *)
(* name, the names wanted of each sort, and the properties to notify of.   *)
(* XML, lexical forms, provenance and the digest are left out.             *)
(***************************************************************************)
EXTENDS Naturals, Sequences, FiniteSets, Functions

Sorts == {"constructor", "method", "signal", "value"}

(* parseDeclarationReference: a bare name is this namespace's; qualified   *)
(* with it, it is the same reference.                                      *)
Reference(d, raw) == IF Len(raw) = 1 THEN <<d.namespace, raw[1]>> ELSE raw

-----------------------------------------------------------------------------
(* normalizeSelections: a name is selected once of each kind of element,   *)
(* so a record crosses as a handle or as a layout, never as both.          *)
Tag(r) == IF r.kind \in {"boxed", "layout"} THEN "record" ELSE r.kind

SelectionFits(selection) ==
  \A r, q \in selection : r # q => <<Tag(r), r.name>> # <<Tag(q), q.name>>

Found(d, r) == {e \in d.elements : e.kind = Tag(r) /\ e.name = r.name}
ElementOf(d, r) == CHOOSE e \in Found(d, r) : TRUE

-----------------------------------------------------------------------------
(* A boxed record's duplicate and release are read whether or not they are *)
(* selected: those it states, or else, when it states neither, the methods *)
(* called copy and free; unless nobody can introspect them.                *)
Stated(e) == e.copy \cup e.free

Contract(e, m) ==
  /\ m.sort = "method" /\ m.introspectable
  /\ IF Stated(e) = {} THEN m.name \in {"copy", "free"} ELSE m.callable.id \in Stated(e)

Wanted(r, m) == m.name \in r.wants[m.sort]
Selected(e, r) == {m \in e.members : Wanted(r, m)}
Read(e, r) == Selected(e, r) \cup {m \in e.members : r.kind = "boxed" /\ Contract(e, m)}

(* Of those read, by the symbol stated for it, or its conventional name.   *)
Copies(e, r) ==
  {m \in Read(e, r) : m.sort = "method" /\ IF e.copy = {} THEN m.name = "copy" ELSE m.callable.id \in e.copy}
Frees(e, r) ==
  {m \in Read(e, r) : m.sort = "method" /\ IF e.free = {} THEN m.name = "free" ELSE m.callable.id \in e.free}

-----------------------------------------------------------------------------
(* Nothing about a selected element draws a diagnostic.                    *)
MemberFits(m) == m.shaped /\ m.self = IF m.sort = "method" THEN 1 ELSE 0

Twice(e, r) == \E m, n \in Selected(e, r) : m # n /\ m.sort = n.sort /\ m.name = n.name

Missing(e, r) == {w \in UNION {{t} \X r.wants[t] : t \in Sorts} :
                    \A m \in e.members : <<m.sort, m.name>> # w}

ElementFits(e, r) ==
  /\ e.introspectable
  /\ \A m \in Read(e, r) : MemberFits(m)
  /\ \A m \in Selected(e, r) : m.introspectable
  /\ ~ Twice(e, r) /\ Missing(e, r) = {}
  /\ r.kind = "boxed" => Copies(e, r) # {} /\ Frees(e, r) # {}
  /\ r.kind = "layout" => e.transparent

(* Without its parent a class would lose its ancestry silently; a parent   *)
(* in another namespace is where the snapshot ends.                        *)
ParentSelected(d, selection, e) ==
  \A p \in {Reference(d, raw) : raw \in e.parent} :
    p[1] = d.namespace => \E q \in selection : q.kind = "class" /\ q.name = p[2]

IngestRefuses(d, selection) ==
  \/ ~ SelectionFits(selection)
  \/ \E r \in selection :
       \/ Cardinality(Found(d, r)) # 1
       \/ ~ ElementFits(ElementOf(d, r), r)
       \/ r.kind = "class" /\ ~ ParentSelected(d, selection, ElementOf(d, r))

-----------------------------------------------------------------------------
(* What is kept of an element: the members selected, and of a boxed record *)
(* its duplicate and release.                                              *)
Kept(e, r, sort) ==
  LET of(n) == CHOOSE m \in e.members : m.sort = sort /\ m.name = n
  IN [n \in r.wants[sort] |-> of(n).callable]

Declaration(d, e, r) ==
  [kind |-> e.kind,
   parent |-> IF e.kind = "class" THEN {Reference(d, raw) : raw \in e.parent} ELSE {},
   interfaces |-> {Reference(d, raw) : raw \in e.interfaces},
   boxed |-> IF r.kind = "boxed"
             THEN {[copy |-> CHOOSE m \in Copies(e, r) : TRUE, free |-> CHOOSE m \in Frees(e, r) : TRUE]}
             ELSE {},
   constructors |-> Kept(e, r, "constructor"), methods |-> Kept(e, r, "method"),
   signals |-> Kept(e, r, "signal"), notify |-> r.notify]

Requests(selection, kinds) ==
  LET asked == {r \in selection : r.kind \in kinds}
  IN [n \in {r.name : r \in asked} |-> CHOOSE r \in asked : r.name = n]

GirSnapshotOf(d, selection) ==
  LET handles == Requests(selection, {"class", "interface", "boxed"})
      layouts == Requests(selection, {"layout"})
      enumerations == Requests(selection, {"enumeration"})
  IN [namespace |-> d.namespace,
      classes |-> [n \in DOMAIN handles |-> Declaration(d, ElementOf(d, handles[n]), handles[n])],
      layouts |-> [n \in DOMAIN layouts |-> Kept(ElementOf(d, layouts[n]), layouts[n], "value")],
      enumerations |-> [n \in DOMAIN enumerations |-> enumerations[n].wants["value"]]]
=============================================================================
