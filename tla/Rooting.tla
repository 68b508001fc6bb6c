------------------------------ MODULE Rooting ------------------------------
(***************************************************************************)
(* Which references of BANNER code a collection finds.  A collection may   *)
(* start in any allocation, and keeps what the shadow stack reaches (gc.c  *)
(* mark), so code is safe if what it still uses after an allocation has    *)
(* been pushed (lowerer.rs emit_let), is a parameter whose argument has,   *)
(* or was read from a field of such an object; if what it uses before the  *)
(* next one is what it has just been given; if a constructor, whose object *)
(* is on no stack yet (emit_mem.rs emit_new), allocates nothing; and if    *)
(* the references an object holds are in the words its tag names           *)
(* (build_type_tag).  Like CodeShape, nothing here follows an execution:   *)
(* every instruction is looked at by itself, with what is known of the     *)
(* temporaries there.                                                      *)
(***************************************************************************)
EXTENDS CodeShape

LOCAL INSTANCE SequencesExt

-----------------------------------------------------------------------------
(* The words of an object.                                                 *)

\* collect_fields: the oldest ancestor's first, each name once.
Layout(c, T) ==
  LET Younger(fields, A) ==
        fields \o SelectSeq(c.types[A].fields, LAMBDA f : f \notin {fields[n] : n \in DOMAIN fields})
  IN  FoldLeft(Younger, <<>>, Reverse(Ancestry(c, T)))

FieldsOf(c, T) == {Layout(c, T)[n] : n \in DOMAIN Layout(c, T)}

\* build_type_tag: the offsets of a type's own pointers are counted from the
\* first word, where the inherited fields are.  The runtime's own tags have none.
Traced(c, T) ==
  IF T \in DOMAIN c.types
  THEN {Layout(c, T)[n] : n \in {n \in DOMAIN Layout(c, T) :
                                   n \in DOMAIN c.types[T].pointers /\ c.types[T].pointers[n]}}
  ELSE {}

-----------------------------------------------------------------------------
(* Calls and allocations.                                                  *)

\* A call of one of these functions of the runtime.
IsCallOf(i, fs) == i.op = "call" /\ i.f \in fs

\* The program's own functions an instruction may enter.
Callees(c, i) ==
  CASE i.op = "call"   -> {i.f} \ Runtime
    [] i.op = "static" -> {i.f}
    [] i.op = "new"    -> {i.f \o ".__init__"}
    [] i.op = "method" -> {T \o "." \o i.f : T \in {T \in DOMAIN c.types : i.f \in c.types[T].methods}}
    [] OTHER -> {}

\* The parameter an argument becomes; the object under construction is the first.
ParameterOf(i, a) == IF i.op = "new" THEN a ELSE a - 1

HasLiteral(i) == \E a \in 1..Len(i.args) : i.args[a].k = "str"
Allocators    == {"__hulk_concat", "hulk_number_to_string", "range", "__vec_new", "__arr_new",
                  "__objarr_new"}
Allocates(i)  == i.op = "new" \/ HasLiteral(i) \/ IsCallOf(i, Allocators)

\* The functions that allocate nothing, nor does what they call: what is left
\* when those that may are taken out, again and again.
StaysQuiet(c, quiet, fn) ==
  LET b == c.bodies[fn]
  IN  \A n \in 1..Len(b) : ~ Allocates(b[n]) /\ Callees(c, b[n]) \subseteq quiet

Quiet(c) ==
  LET less[n \in Nat] == IF n = 0 THEN DOMAIN c.bodies
                         ELSE LET last == less[n - 1]
                              IN  {fn \in last : StaysQuiet(c, last, fn)}
  IN  less[Cardinality(DOMAIN c.bodies)]

-----------------------------------------------------------------------------
(* Where numbers and references may be: a concatenation makes strings of   *)
(* numbers, which are on no stack, and a word holds either.                *)

\* Instructions whose result is their first operand, and those whose result is
\* no reference.
PassesOn(i) == i.op = "copy" \/ IsCallOf(i, {"__hulk_as", "__vec_push"})
Computes(i) == i.op \in {"bin", "un", "getindex"}
               \/ IsCallOf(i, {"__hulk_is", "__hulk_str_eq", "print"})

Sorts == {"num", "ref"}

\* held is [temps, fields, results], where values of a sort may be: temporaries
\* as <<fn, t>>, names of fields, and functions that may return one.
MayBe(sort, held, fn, v) ==
  \/ v.k = sort \/ (v.k = "str" /\ sort = "ref")
  \/ v.k = "temp" /\ <<fn, v.v>> \in held.temps

Gives(sort, c, held, fn, i) ==
  \/ sort = "num" /\ (Computes(i) \/ (i.op = "method" /\ i.f \in BuiltinMethods))
  \/ sort = "ref" /\ (i.op = "new" \/ IsCallOf(i, Allocators))
  \/ PassesOn(i) /\ MayBe(sort, held, fn, i.args[1])
  \/ i.op = "get" /\ i.f \in held.fields
  \/ i.op # "new" /\ Callees(c, i) \cap held.results # {}

\* Where they come to from where they may be already.
Given(sort, c, held) ==
  LET places == UNION {{<<fn, n>> : n \in 1..Len(c.bodies[fn])} : fn \in DOMAIN c.bodies}
      In(x)  == c.bodies[x[1]][x[2]]
      passed == UNION {{<<x[1], x[2], a>> : a \in {a \in 1..Len(In(x).args) :
                          MayBe(sort, held, x[1], In(x).args[a])}} : x \in places}
      made   == {x \in places : sort = "ref" /\ In(x).op = "new"}
  IN  [temps   |-> {<<x[1], In(x).dst>> : x \in {x \in places :
                       In(x).op \in Producers /\ Gives(sort, c, held, x[1], In(x))}}
                   \cup (UNION {{<<g, ParameterOf(In(x), x[3])>> : g \in Callees(c, In(x))} : x \in passed})
                   \cup (UNION {{<<g, 0>> : g \in Callees(c, In(x))} : x \in made}),
       fields  |-> {In(x).f : x \in {x \in passed : In(x).op = "set" /\ x[3] = 2}},
       results |-> {x[1] : x \in {x \in passed : In(x).op = "return"}}]

Held(sort, c) ==
  LET more[n \in Nat] ==
        IF n = 0 THEN [temps |-> {}, fields |-> {}, results |-> {}]
        ELSE LET last == more[n - 1] IN Given(sort, c, last)
  IN  more[4 * Cardinality(DOMAIN c.bodies) + 4]

\* A word its tag names holds no number, and every word that may hold a
\* reference is one of those.
TagsAreExact(c, held) ==
  \A T \in DOMAIN c.types : \A f \in FieldsOf(c, T) :
    IF f \in Traced(c, T) THEN f \notin held["num"].fields ELSE f \notin held["ref"].fields

-----------------------------------------------------------------------------
(* What is known of temporaries.                                           *)

\* A fact F is [kept, reached, live]: <<t, p>> is kept if what t refers to is
\* the p-th of what the body has on the shadow stack, or, for 0, on what its
\* callers have there; t is reached if the shadow stack reaches it, and live if
\* it has not been freed.
Temps(kept) == {x[1] : x \in kept}

IsConstant(v)   == v.k \in {"num", "null", "global"}
IsKept(F, v)    == IsConstant(v) \/ (v.k = "temp" /\ v.v \in Temps(F.kept))
IsReached(F, v) == IsConstant(v) \/ (v.k = "temp" /\ v.v \in F.reached)

\* A literal is allocated when it is loaded; the only one of an instruction is
\* there when it is executed.
OnlyLiteral(i, a) ==
  i.args[a].k = "str" /\ \A o \in 1..Len(i.args) : i.args[o].k = "str" => o = a

\* An operand that has not been freed when the instruction is executed.
IsSafe(F, i, a) ==
  LET v == i.args[a]
  IN  \/ IsReached(F, v)
      \/ v.k = "temp" /\ v.v \in F.live /\ ~ HasLiteral(i)
      \/ OnlyLiteral(i, a)

\* The operands an instruction follows, or leaves where a collection will.
Needs(fn, i) ==
  CASE i.op \in {"get", "getindex", "setindex", "method", "push"}
         \/ IsCallOf(i, {"__hulk_is", "__hulk_as", "__vec_push"}) -> {1}
    [] i.op = "set" \/ IsCallOf(i, {"__hulk_str_eq", "print"}) -> 1..Len(i.args)
    [] i.op = "return" /\ fn # MainName -> {1}
    [] OTHER -> {}

\* The arguments that are read.  A is what is known of the program: quiet,
\* held, and the parameters its functions read, as <<fn, t>>.
Used(c, A, i) ==
  {a \in 1..Len(i.args) : \E g \in Callees(c, i) : <<g, ParameterOf(i, a)>> \in A.inputs}

\* The elements of an array of objects are traced by no collection.
UsesSafely(c, A, fn, F, i) ==
  /\ \A a \in Needs(fn, i) : IsSafe(F, i, a)
  /\ IsCallOf(i, {"__hulk_concat"}) =>
       \A a \in 1..2 : IsReached(F, i.args[a]) /\ ~ MayBe("num", A.held["num"], fn, i.args[a])
  /\ ~ IsCallOf(i, {"__objarr_new"})
  /\ i.op = "new" =>
       /\ Callees(c, i) \subseteq A.quiet /\ ~ HasLiteral(i)
       /\ \A a \in Used(c, A, i) : IsReached(F, i.args[a])
  /\ i.op # "new" =>
       \A a \in Used(c, A, i) : IF Callees(c, i) \subseteq A.quiet THEN IsSafe(F, i, a)
                                ELSE IsKept(F, i.args[a])

\* What the n-th instruction of b leaves of what is known.
Left(c, A, b, n, F) ==
  LET i       == b[n]
      kept    == {x \in F.kept : i.op = "pop" => x[2] # DepthAt(b, n)}
                 \cup (IF i.op = "push" /\ i.args[1].k = "temp"
                       THEN {<<i.args[1].v, DepthAt(b, n) + 1>>} ELSE {})
      reached == Temps(kept)
                 \cup (IF i.op \in {"set", "pop"} \/ Callees(c, i) # {} THEN {} ELSE F.reached)
      live    == reached
                 \cup (IF Allocates(i) \/ ~ (Callees(c, i) \subseteq A.quiet) THEN {} ELSE F.live)
  IN  [kept |-> kept, reached |-> reached, live |-> live]

\* What is known of what it stores.
Places(F, i) ==
  CASE Computes(i) \/ (PassesOn(i) /\ IsConstant(i.args[1])) -> {0}
    [] PassesOn(i) /\ i.args[1].k = "temp" -> {x[2] : x \in {x \in F.kept : x[1] = i.args[1].v}}
    [] OTHER -> {}
GivesReached(F, i) == Computes(i) \/ ((PassesOn(i) \/ i.op = "get") /\ IsReached(F, i.args[1]))
GivesLive(F, i)    == PassesOn(i) => IsSafe(F, i, 1)

After(c, A, b, n, F) ==
  LET i    == b[n]
      left == Left(c, A, b, n, F)
  IN  IF i.op \notin Producers THEN left
      ELSE [kept    |-> {x \in left.kept : x[1] # i.dst} \cup {<<i.dst, p>> : p \in Places(F, i)},
            reached |-> (left.reached \ {i.dst}) \cup (IF GivesReached(F, i) THEN {i.dst} ELSE {}),
            live    |-> (left.live \ {i.dst}) \cup (IF GivesLive(F, i) THEN {i.dst} ELSE {})]

\* A parameter that is read is kept by the caller, if the function may allocate.
Entry(A, fn) ==
  LET ps == {x[2] : x \in {x \in A.inputs : x[1] = fn}}
  IN  [kept    |-> IF fn \in A.quiet THEN {} ELSE {<<t, 0>> : t \in ps},
       reached |-> IF fn \in A.quiet THEN {} ELSE ps,
       live    |-> ps]

\* F says no more than G.
Within(F, G) == F.kept \subseteq G.kept /\ F.reached \subseteq G.reached /\ F.live \subseteq G.live

\* What is known where paths meet.
Common(Fs) ==
  LET all(S(_)) == {x \in UNION {S(F) : F \in Fs} : \A F \in Fs : x \in S(F)}
  IN  [kept    |-> all(LAMBDA F : F.kept), reached |-> all(LAMBDA F : F.reached),
       live    |-> all(LAMBDA F : F.live)]

\* At the n-th instruction: what is known after all that lead to it, of those
\* before it by new, where the way along the body has come by, and else by old.
Met(c, A, fn, old, new, n) ==
  LET b       == c.bodies[fn]
      leading == {m \in 1..Len(b) : n \in Successors(b, m)}
  IN  Common({new[m] : m \in {m \in leading : m \in DOMAIN new}}
             \cup {old[m] : m \in {m \in leading : m \in DOMAIN old \ DOMAIN new}}
             \cup (IF n = 1 THEN {Entry(A, fn)} ELSE {}))

\* Found by going along the body, once and then once more for every loop: the
\* first time nothing is known of the ways back.
Facts(c, A, fn) ==
  LET b     == c.bodies[fn]
      heads == {n \in 1..Len(b) : \E m \in n..Len(b) : n \in Successors(b, m)}
      Along(old) ==
        LET way[n \in Nat] ==
              IF n = 0 THEN <<>>
              ELSE LET new == way[n - 1]
                   IN  Append(new, After(c, A, b, n, Met(c, A, fn, old, new, n)))
        IN  way[Len(b)]
      rounds[k \in Nat] == IF k = 0 THEN <<>> ELSE LET last == rounds[k - 1] IN Along(last)
      outs == rounds[1 + Cardinality(heads)]
  IN  [n \in 1..Len(b) |-> Met(c, A, fn, outs, outs, n)]

\* What is known is true on every path, and it is enough.
HoldsRoots(c, A, fn) ==
  LET b  == c.bodies[fn]
      Fs == Facts(c, A, fn)
  IN  /\ Within(Fs[1], Entry(A, fn))
      /\ \A n \in 1..Len(b) :
           /\ \A x \in Fs[n].kept : x[2] \in 0..DepthAt(b, n)
           /\ UsesSafely(c, A, fn, Fs[n], b[n])
           /\ \A m \in Successors(b, n) : Within(Fs[m], After(c, A, b, n, Fs[n]))

Analysis(c) == [quiet |-> Quiet(c), held |-> [sort \in Sorts |-> Held(sort, c)],
                inputs |-> UNION {{fn} \X Inputs(c.bodies[fn]) : fn \in DOMAIN c.bodies}]

\* Code whose references a collection always finds.
IsRooted(c) ==
  LET A == Analysis(c)
  IN  /\ \A fn \in A.quiet : StaysQuiet(c, A.quiet, fn)
      /\ \A sort \in Sorts :
           LET given == Given(sort, c, A.held[sort])
           IN  /\ given.temps \subseteq A.held[sort].temps
               /\ given.fields \subseteq A.held[sort].fields
               /\ given.results \subseteq A.held[sort].results
      /\ TagsAreExact(c, A.held)
      /\ \A fn \in DOMAIN c.bodies : HoldsRoots(c, A, fn)

HasObjectArrays(c) ==
  \E fn \in DOMAIN c.bodies : \E n \in 1..Len(c.bodies[fn]) :
    IsCallOf(c.bodies[fn][n], {"__objarr_new"})
=============================================================================
