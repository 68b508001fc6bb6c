----------------------------- MODULE TypeLayout -----------------------------
(***************************************************************************)
(* How the types of a program become tags, field slots and method tables   *)
(* (src/crates/hulk-codegen/src/layout.rs, emit_program in emit.rs and     *)
(* build_type_tag in emit_mem.rs), and what the runtime reads from them:   *)
(* the collector the offsets of a tag (gc.c mark), is and as the chain of  *)
(* parents (builtins.c __hulk_is).                                         *)
(*                                                                         *)
(* The tags are built in an order found by walking up from each declared   *)
(* type until a type already placed, and reversing the walk: a tag can     *)
(* only point at a parent tag that exists.  That walk is the state         *)
(* machine; field slots and method tables are functions of the program.    *)
(***************************************************************************)
EXTENDS Naturals, Sequences, SequencesExt, FiniteSets

CONSTANTS Types,        \* the names of the program's types
          Fields,       \* the names of fields
          Methods,      \* the names of methods
          RefFields,    \* the fields that hold references
          None,         \* no type
          Protocol,     \* a parent that is not one of the program's types
          Programs      \* the programs to lay out

VARIABLES program,      \* [declared, parent, own, direct]
          next,         \* the declared type whose ancestors are being walked
          current,      \* where the walk is, or None
          chain,        \* the types it went through
          ordered,      \* the types in the order of their tags
          tags          \* the tags built so far: type -> [parent, offsets]

vars == <<program, next, current, chain, ordered, tags>>

ASSUME TypesAssumption ==
  /\ IsFiniteSet(Types)
  /\ RefFields \subseteq Fields
  /\ None \notin Types /\ Protocol \notin Types /\ None # Protocol

\* No type is above itself: of some types there is always one whose parent is
\* not among them.  The resolver rejects the rest (detect_inheritance_cycles).
Acyclic(parent) == \A S \in SUBSET Types : S # {} => \E T \in S : parent[T] \notin S

\* Nothing keeps a type from declaring a field twice (resolve_member).
ASSUME ProgramsAssumption ==
  \A p \in Programs :
    /\ p.declared \in Seq(Types) /\ Range(p.declared) = Types
    /\ p.parent \in [Types -> Types \cup {None, Protocol}] /\ Acyclic(p.parent)
    /\ p.own \in [Types -> Seq(Fields)]
    /\ p.direct \in [Types -> SUBSET Methods]

Declared == program.declared
Parent   == program.parent
Own      == program.own           \* the fields a type declares itself, in order
Direct   == program.direct        \* the methods it defines itself

\* The parent, when it is a type of the program (by_name.get).
KnownParent(T) == IF Parent[T] \in Types THEN Parent[T] ELSE None

-----------------------------------------------------------------------------
(* layout.rs, in program order.                                            *)

\* The type n levels above T, where up leads from a type to its parent; None
\* above the root.
Ancestor(up) ==
  LET at[n \in 0..Cardinality(Types)] ==
        [T \in Types \cup {None} |->
           IF n = 0 \/ T = None THEN T ELSE at[n - 1][up[T]]]
  IN  at

\* T and its ancestors, T first.
Lineage(T) ==
  LET at    == Ancestor([U \in Types |-> KnownParent(U)])
      depth == CHOOSE n \in 0..(Cardinality(Types) - 1) :
                 at[n][T] # None /\ at[n + 1][T] = None
  IN  [i \in 1..(depth + 1) |-> at[i - 1][T]]

\* The names in fs that are new, one after the other, after those seen.
AddNew(seen, fs) ==
  LET with[k \in 0..Len(fs)] ==
        IF k = 0 THEN seen
        ELSE IF fs[k] \in Range(with[k - 1]) THEN with[k - 1]
        ELSE Append(with[k - 1], fs[k])
  IN  with[Len(fs)]

\* The fields of some types in their order.
FieldsAlong(types) ==
  LET from[k \in 0..Len(types)] ==
        IF k = 0 THEN <<>> ELSE AddNew(from[k - 1], Own[types[k]])
  IN  from[Len(types)]

\* Wrong: a type's own fields before its ancestors'.
OwnFieldsFirst(T) == FieldsAlong(Lineage(T))

\* collect_fields: the oldest ancestor's first; a name that is already there
\* keeps its place.
AllFields(T) == FieldsAlong(Reverse(Lineage(T)))

\* field_index: slot 0 is the method table.
FieldIndex(T, f) == CHOOSE i \in DOMAIN AllFields(T) : AllFields(T)[i] = f

\* Wrong: the oldest definition.
OldestImplementation(T, m) ==
  LET up == Reverse(Lineage(T))
      i  == {j \in DOMAIN up : m \in Direct[up[j]]}
  IN  IF i = {} THEN None ELSE up[CHOOSE j \in i : \A k \in i : j <= k]

\* resolve_method_impl: the type whose definition of m fills T's slot.
Implementation(T, m) ==
  LET up == Lineage(T)
      i  == {j \in DOMAIN up : m \in Direct[up[j]]}
  IN  IF i = {} THEN None ELSE up[CHOOSE j \in i : \A k \in i : j <= k]

\* Wrong: the table of methods counted as no slot.
OffsetsFromZero(T) == {8 * (i - 1) : i \in {j \in DOMAIN Own[T] : Own[T][j] \in RefFields}}

\* build_type_tag: the offsets of T's own reference fields, counted from the
\* slot after the method table.
Offsets(T) == {8 * i : i \in {j \in DOMAIN Own[T] : Own[T][j] \in RefFields}}

-----------------------------------------------------------------------------
(* emit_program.                                                           *)

\* Where the walk for the n-th declaration starts.
WalkFrom(n) == IF n <= Len(Declared) THEN Declared[n] ELSE None

Init ==
  /\ program \in Programs
  /\ next = 1
  /\ current = WalkFrom(1)
  /\ chain = <<>> /\ ordered = <<>>
  /\ tags = [T \in {} |-> None]

Walking == next <= Len(Declared)

\* Wrong: the walk goes on to the root whatever has been placed.
ClimbPastPlaced ==
  /\ Walking
  /\ current # None
  /\ chain' = Append(chain, current)
  /\ current' = KnownParent(current)
  /\ UNCHANGED <<program, next, ordered, tags>>

\* One step up, unless the type has been placed.
Climb ==
  /\ Walking
  /\ current # None /\ current \notin Range(ordered)
  /\ chain' = Append(chain, current)
  /\ current' = KnownParent(current)
  /\ UNCHANGED <<program, next, ordered, tags>>

\* Wrong: the walk's order kept.
PlaceUnreversed ==
  /\ Walking
  /\ current = None \/ current \in Range(ordered)
  /\ ordered' = ordered \o chain
  /\ chain' = <<>>
  /\ next' = next + 1
  /\ current' = WalkFrom(next + 1)
  /\ UNCHANGED <<program, tags>>

\* Wrong: the next declaration is never taken.
PlaceForever ==
  /\ Walking
  /\ current = None \/ current \in Range(ordered)
  /\ ordered' = ordered \o Reverse(chain)
  /\ chain' = <<>>
  /\ current' = Declared[next]
  /\ UNCHANGED <<program, next, tags>>

\* The end of a walk: its types, oldest first, come next.
Place ==
  /\ Walking
  /\ current = None \/ current \in Range(ordered)
  /\ ordered' = ordered \o Reverse(chain)
  /\ chain' = <<>>
  /\ next' = next + 1
  /\ current' = WalkFrom(next + 1)
  /\ UNCHANGED <<program, tags>>

\* Wrong: the parent's tag is named without looking it up.
ParentByName ==
  /\ ~ Walking
  /\ Cardinality(DOMAIN tags) < Len(ordered)
  /\ LET T == ordered[Cardinality(DOMAIN tags) + 1]
     IN  tags' = [U \in DOMAIN tags \cup {T} |->
                    IF U # T THEN tags[U]
                    ELSE [parent |-> Parent[T], offsets |-> Offsets(T)]]
  /\ UNCHANGED <<program, next, current, chain, ordered>>

\* build_type_tag: a parent whose tag does not exist (yet) is NULL.
BuildTag ==
  /\ ~ Walking
  /\ Cardinality(DOMAIN tags) < Len(ordered)
  /\ LET T == ordered[Cardinality(DOMAIN tags) + 1]
     IN  tags' = [U \in DOMAIN tags \cup {T} |->
                    IF U # T THEN tags[U]
                    ELSE [parent  |-> IF Parent[T] \in DOMAIN tags THEN Parent[T]
                                      ELSE None,
                          offsets |-> Offsets(T)]]
  /\ UNCHANGED <<program, next, current, chain, ordered>>

Done == ~ Walking /\ Cardinality(DOMAIN tags) = Len(ordered)
Stop == Done /\ UNCHANGED vars

Next == Climb \/ Place \/ BuildTag \/ Stop

Spec     == Init /\ [][Next]_vars
FairSpec == Spec /\ WF_vars(Climb \/ Place \/ BuildTag)

-----------------------------------------------------------------------------
(* What the runtime reads.                                                 *)

\* __hulk_is: from the object's tag up the parents of tags.
Is(T, U) ==
  LET at == Ancestor([V \in DOMAIN tags |-> tags[V].parent])
  IN  \E n \in 0..Cardinality(Types) : at[n][T] = U

-----------------------------------------------------------------------------
(* Properties.                                                             *)

TypeOK ==
  /\ next \in 1..(Len(Declared) + 1)
  /\ current \in Types \cup {None}
  /\ Range(chain) \cup Range(ordered) \subseteq Types
  /\ DOMAIN tags \subseteq Range(ordered)
  /\ \A T \in DOMAIN tags : tags[T].parent \in DOMAIN tags \cup {None}

\* Whatever the order of the declarations, every type gets exactly one tag:
\* a second one would be another global, and the objects of a type would not
\* all carry the tag that is and as compare with (emit.rs emit_program).
EachTypeOnce ==
  /\ \A i, j \in DOMAIN ordered : i # j => ordered[i] # ordered[j]
  /\ Done => DOMAIN tags = Types

\* The runtime's test agrees with the declarations: x is U holds for an object
\* of type T exactly when U is T or one of its ancestors.
IsAgreesWithInheritance ==
  \A T \in DOMAIN tags, U \in Types : Is(T, U) <=> U \in Range(Lineage(T))

\* A method compiled for a type finds the fields it names in the objects of
\* every subtype: a parent's slots are the first slots of its children.
ChildrenExtendParents ==
  \A T \in Types : KnownParent(T) # None =>
    IsPrefix(AllFields(KnownParent(T)), AllFields(T))

\* A call through the method table runs the definition a reader of the program
\* expects: of the type itself, or else what the parent would run.
OverridesWin ==
  \A T \in Types, m \in Methods :
    Implementation(T, m) =
      IF m \in Direct[T] THEN T
      ELSE IF KnownParent(T) = None THEN None
      ELSE Implementation(KnownParent(T), m)

InheritsFields(T) == \E i \in DOMAIN Lineage(T) : i > 1 /\ Own[Lineage(T)[i]] # <<>>
RepeatsFields(T)  == \E i, j \in DOMAIN Own[T] : i # j /\ Own[T][i] = Own[T][j]

TracedExactly(T) ==
  tags[T].offsets =
    {8 * FieldIndex(T, f) : f \in Range(AllFields(T)) \cap RefFields}

\* In a type that inherits no field and declares none twice the collector
\* follows the reference fields, all of them and nothing else.
RootTypesAreTracedExactly ==
  \A T \in DOMAIN tags : ~ InheritsFields(T) /\ ~ RepeatsFields(T) => TracedExactly(T)

\* What gc.h says of a tag, for every type that declares no field twice: its
\* offsets are those of the pointer-typed fields of the payload.
EveryTypeIsTracedExactly ==
  \A T \in DOMAIN tags : ~ RepeatsFields(T) => TracedExactly(T)

\* The walks end, and every tag is built.
LayoutEnds == <>Done
=============================================================================
