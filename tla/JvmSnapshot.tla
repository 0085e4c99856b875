----------------------------- MODULE JvmSnapshot -----------------------------
(***************************************************************************)
(* What is taken out of a set of Java class files                          *)
(* (bindgen-jvm/src/jvm.ts): a selection of classes and members, resolved  *)
(* against what the classes declare.                                       *)
(*                                                                         *)
(* Files are a function from class names to declarations:                  *)
(*   kind          class, enum, interface, annotation or module            *)
(*   super         a set of at most one name                               *)
(*   interfaces    names                                                   *)
(*   nesting       none, static, inner (has an enclosing instance), local  *)
(*   constructors  descriptor -> callable                                  *)
(*   methods       <<name, descriptor>> -> callable                        *)
(*   fields        name -> static, long and constant: none, carried (the   *)
(*                 manifest has a spelling for it) or other                *)
(* and final and initializes, which only a generated shell is read for.    *)
(* A callable has takes (a sequence of values), gives (a value), static,   *)
(* native and access.                                                      *)
(*                                                                         *)
(* A selection is a function from class names to what is asked of them:    *)
(* constructors (descriptors), names and exact (methods, by bare name or   *)
(* by key), callbacks (key -> what the caller states of it) and fields.    *)
(* Digests, logical paths and the class-file syntax are left out.          *)
(***************************************************************************)
EXTENDS Naturals, FiniteSets, Functions, SequencesExt

CONSTANTS
  Object, \* java/lang/Object
  NoArgs  \* the descriptor ()V

Unselected ==
  [constructors |-> {}, names |-> {}, exact |-> {}, callbacks |-> [k \in {} |-> {}], fields |-> {}]

(* normalizeMemberSelections: one name has one resolution rule.            *)
SelectionValid(selection) ==
  \A c \in DOMAIN selection : \A k \in selection[c].exact : k[1] \notin selection[c].names

-----------------------------------------------------------------------------
(* Only a class or an enum has a superclass worth the name; every          *)
(* interface records the root.                                             *)
Superclass(files, c) ==
  IF c \in DOMAIN files /\ files[c].kind \in {"class", "enum"} THEN files[c].super ELSE {}

(* The walk from a class up to the last one the files carry, which ends    *)
(* where it comes back to itself.                                          *)
Ancestry(files, c) ==
  LET walk[path \in Seq(DOMAIN files \cup {c})] ==
        LET next == (Superclass(files, Last(path)) \cap DOMAIN files) \ Range(path) IN
        IF next = {} THEN path ELSE walk[Append(path, CHOOSE s \in next : TRUE)]
  IN walk[<<c>>]

ClassesAbove(files, c) == Range(Tail(Ancestry(files, c)))

(* requiredJvmAncestry: what else to extract, so that ingestion sees it,   *)
(* and who needs a class that the archive does not have.                   *)
FaultyRequired(lookup, selected) ==
  UNION {Superclass(lookup, c) \cap DOMAIN lookup : c \in selected} \ selected
Required(lookup, selected) == UNION {ClassesAbove(lookup, c) : c \in selected} \ selected

Unavailable(lookup, selected) ==
  {<<b, s>> \in (DOMAIN lookup) \X UNION {Superclass(lookup, b) : b \in DOMAIN lookup} :
     /\ s \in Superclass(lookup, b) \ DOMAIN lookup
     /\ \E c \in selected : b = Last(Ancestry(lookup, c))}

-----------------------------------------------------------------------------
(* A class's ancestry comes with it, without members.                      *)
Implied(files, selection) ==
  LET ancestors == UNION {ClassesAbove(files, c) : c \in DOMAIN selection} IN
  [c \in DOMAIN selection \cup ancestors |->
     IF c \in DOMAIN selection THEN selection[c] ELSE Unselected]

Named(files, c, n) == {k \in DOMAIN files[c].methods : k[1] = n}

(* declaringAncestor: the nearest class that declares one of the keys, as  *)
(* a set of at most one.                                                   *)
DeclaringAncestor(files, c, Declares(_)) ==
  LET above == Tail(Ancestry(files, c))
      i == SelectInSeq(above, Declares)
  IN IF i = 0 THEN {} ELSE {above[i]}

FaultyNameOwner(files, c, n) ==
  LET declaring == SelectSeq(Tail(Ancestry(files, c)), LAMBDA a : Named(files, a, n) # {})
  IN IF declaring = <<>> THEN {} ELSE {Last(declaring)}
NameOwner(files, c, n) == DeclaringAncestor(files, c, LAMBDA a : Named(files, a, n) # {})
ExactOwner(files, c, k) == DeclaringAncestor(files, c, LAMBDA a : k \in DOMAIN files[a].methods)

(* A method that the class does not declare is asked of the one that does. *)
NamesMoved(files, selection, c) ==
  IF c \in DOMAIN files
  THEN {n \in selection[c].names : Named(files, c, n) = {} /\ NameOwner(files, c, n) # {}} ELSE {}
ExactMoved(files, selection, c) ==
  IF c \in DOMAIN files
  THEN {k \in selection[c].exact \ DOMAIN files[c].methods : ExactOwner(files, c, k) # {}} ELSE {}

MembersMoved(files, selection) ==
  [c \in DOMAIN selection |->
     [selection[c] EXCEPT
        !.names = (@ \ NamesMoved(files, selection, c))
                  \cup UNION {{n \in NamesMoved(files, selection, d) : NameOwner(files, d, n) = {c}} :
                                d \in DOMAIN selection},
        !.exact = (@ \ ExactMoved(files, selection, c))
                  \cup UNION {{k \in ExactMoved(files, selection, d) : ExactOwner(files, d, k) = {c}} :
                                d \in DOMAIN selection}]]

(* What ingestion resolves: every ancestor present, every member settled.  *)
Settled(files, selection) == MembersMoved(files, Implied(files, selection))

-----------------------------------------------------------------------------
(* resolveMembers keeps how a method was asked for: one that is asked for  *)
(* in both ways is there twice.                                            *)
ResolvedMethods(file, s) ==
  {<<"name", k>> : k \in {m \in DOMAIN file.methods : m[1] \in s.names}}
  \cup {<<"exact", k>> : k \in s.exact}

MethodsResolve(files, c, s) ==
  /\ \A n \in s.names : Cardinality(Named(files, c, n)) = 1
  /\ s.exact \subseteq DOMAIN files[c].methods

(* A generated shell holds a native method and nothing else, so that an    *)
(* emitter may put another class in its place.                             *)
GeneratedShell(file, k, interface) ==
  /\ file.kind = "class" /\ file.super = {Object} /\ file.interfaces = {interface}
  /\ file.final /\ ~ file.initializes
  /\ DOMAIN file.constructors = {NoArgs} /\ file.constructors[NoArgs].access = "public"
  /\ DOMAIN file.methods = {k} /\ file.methods[k].native /\ file.methods[k].access = "public"
  /\ DOMAIN file.fields = {}

CallbacksResolve(file, s) ==
  /\ DOMAIN s.callbacks \subseteq DOMAIN file.methods
  /\ \A k \in DOMAIN s.callbacks :
       /\ file.methods[k].native
       /\ k \notin {m[2] : m \in ResolvedMethods(file, s)}
       /\ s.callbacks[k].base \subseteq DOMAIN file.methods
       /\ \A i \in s.callbacks[k].shell : GeneratedShell(file, k, i)

ClassRefused(files, c, s) ==
  \/ c \notin DOMAIN files
  \/ files[c].kind = "module" \/ files[c].nesting = "local"
  \/ files[c].nesting = "inner" /\ files[c].kind # "interface" /\ s.constructors # {}
  \/ ~ s.constructors \subseteq DOMAIN files[c].constructors
  \/ ~ s.fields \subseteq DOMAIN files[c].fields
  \/ ~ MethodsResolve(files, c, s) \/ ~ CallbacksResolve(files[c], s)

(* isImpliedConstant: a constant comes with its class.                     *)
ImpliedConstants(file) == {f \in DOMAIN file.fields : file.fields[f].constant # "none"}

IngestedClass(file, s) ==
  [file |-> file, kind |-> file.kind,
   super |-> IF file.kind \in {"class", "enum"} THEN file.super ELSE {},
   interfaces |-> file.interfaces, constructors |-> s.constructors,
   methods |-> ResolvedMethods(file, s), callbacks |-> s.callbacks,
   fields |-> s.fields \cup ImpliedConstants(file), named |-> s.fields]

IngestRefuses(files, selection) ==
  \/ ~ SelectionValid(selection)
  \/ LET settled == Settled(files, selection) IN
       \E c \in DOMAIN settled : ClassRefused(files, c, settled[c])

Ingested(files, selection) ==
  LET settled == Settled(files, selection) IN
  [c \in DOMAIN settled |-> IngestedClass(files[c], settled[c])]
=============================================================================
