# A TLA+ model of the HULK compiler and its runtime

This directory specifies the HULK compiler (`src/crates`, Rust) from the syntax
tree to the executable, and the runtime its programs are linked with
(`src/runtime`, C): name resolution, type inference, macro expansion,
desugaring, lowering, the layout of types, the inference of machine types, the
generated code as it runs, the garbage collector under it, and the compiler as
a process among others.  TLC checks small instances.  TLAPS proves, for every
instance, the collector with its accounting, the layout of types, the driver and
its files, what the execution of lawful code keeps: the shadow stack balanced and
every read of a temporary defined; and that code whose references are rooted,
and whose types' tags are exact, never follows one to a freed object.

    tlc -workers 2 -config HulkGC_graphs.cfg MCHulkGC      (see "Runs")
    tlapm RootingProofs.tla                                (see "Proofs")

## 1. The system

A compilation is a straight pipeline in one process, driven by
`hulk-driver/src/compile.rs`:

    source -> lexer -> parser -> resolver -> type inference -> HIR
           -> macros -> desugaring -> BANNER (three-address code) -> LLVM
           -> object file -> linker -> executable (with libhulkruntime)

| part | state it keeps | operations | what makes it correct |
|---|---|---|---|
| lexer, parser | cursor, diagnostics | one pass each, both go on after an error | every error is reported, with its kind |
| resolver (`hulk-semantic`) | scopes, symbol table, parents, methods | declare, resolve, check conformance, find cycles | a use is bound to the innermost binding; no cycle passes |
| type inference (`hulk-types`) | type of each node and symbol | bottom-up inference | a type decides what is a *reference*, hence what is a root |
| macros, desugaring | id counters, fresh names, placeholders, generated types | rewrite trees | the program means the same after as before; fresh names are fresh |
| BANNER lowering (`hulk-banner`) | code, next temporary and label, maps of locals, pushes of the current let | one case per expression | order of evaluation, defined temporaries, unique labels, balanced shadow stack, every reference in scope rooted |
| code generation (`hulk-codegen`) | tags, layouts, vtables, kinds of temporaries, signatures | fixpoints over the program, then one emitter per instruction | tags describe the objects; slots and tables agree along inheritance; kinds agree with the types, and callers with callees |
| collector (`gc.c`) | allocation list, byte count, threshold, mark bits, shadow stack | `hulk_alloc`, `hulk_gc`, push, pop | frees the unreachable and nothing else; accounts exactly |
| strings, built-ins | heap objects | concat, conversion, comparison, range, vectors, object arrays, `is`, `as` | operands survive the allocation of the result |
| driver and tools | diagnostics, phase; files on disk | compile, run, check, `hulk` | errors stop code generation; exit codes; the output is the source's |

The parts meet at five interfaces, and most of the hard behaviour is there:

* **generated code and collector**: any allocation may collect; the code must
  have every reference it will use on the shadow stack (`ShadowPush`/`Pop` of
  the lowerer) or reachable through fields the tag describes;
* **lowerer and code generator**: temporaries are uninitialised stack slots,
  labels are names, kinds are inferred again by fixpoint loops;
* **the rewriting passes and the maps by node and symbol id**: what a pass knows
  of a node is keyed by ids another pass gave out.  A node made later has no
  symbol and no type, a copied one has the symbol of the old, and the lowerer
  falls back to a map by name;
* **a call and what it may reach**: the signature a call is emitted with is
  looked up by names, the function it reaches is found in a table at run time;
* **processes and the file system**: every compilation writes the same temporary
  object file.

`PROJECT.json` lists every component with its sources and status, and under
`hazards` what is hard to test in each, with its line.

## 2. Modules

| module | models | state and actions |
|---|---|---|
| `Syntax` | the tree (`hulk-ast`) and the order in which its visitors walk it | constructors and walks; a node carries the symbol and the type recorded for it |
| `Scoping` | the resolver (`hulk-semantic`) | operators: an expression or declaration and a resolver state yield both anew |
| `Names` | `resolve_program`, over `Scoping`; and what scoping and hierarchies *are* | one action per declaration; lexical scoping and the graph of types defined apart from the code, and compared |
| `Inference` | `hulk-types`, as `infer_all` runs it | operators |
| `Macros` | `hulk-macros` | operators: renaming, substitution, placeholders, `match`, nested expansion |
| `Desugar` | `hulk-desugar` | operators: one per transform, in the order and with the ids of the code |
| `Banner` | `hulk-banner/src/ir.rs`, and the names of the runtime | operands and instructions |
| `Lowering` | `hulk-banner/src/lowerer.rs` | operators: an expression and a lowerer state yield code and an operand, or a panic |
| `Compiler` | `build_hir` and `compile` of compile.rs; the names the code generator must find, what it knows of the types, the verifier's check of calls | the composition of the five |
| `Numbers` | the arithmetic of emit_ops.rs on whole numbers | operators, for the compiled program and for `Semantics` |
| `Semantics` | what a program prints, by its syntax | an evaluator with environments; it is a reference, not a model of code |
| `CodeShape` | what the code generator takes for granted of a body and looks at nowhere: unique labels, balance, values before reads, arguments | conditions on the instructions, none of which follows an execution |
| `Rooting` | the words of an object and those its tag names; which references of the code a collection finds, and whether it uses no other | an analysis of the instructions, one after another; no execution here either |
| `Mutator` | the running program: emit*.rs, strings.c, builtins.c | frames, temporaries, heap, shadow stack, output; an action per operand load and per instruction |
| `Reachability` | reachability as the least closed set | operators |
| `ManagedHeap` | the *promise* of managed memory | live objects, edges, roots; allocate, mutate, collect |
| `HulkGC` | `runtime/gc.c` | every global of gc.c, the sweep cursor (`before`/`list`), and the activations of the recursive `mark` (`frames`); one action per loop turn, test, call and return |
| `TypeLayout` | the tags, field slots, vtables of emit.rs, emit_mem.rs, layout.rs; `__hulk_is` | the walk that orders the tags; slots and tables are functions |
| `TempKinds` | `infer_temp_kinds` of emit.rs | one action per pass over the instructions of one function |
| `Signatures` | `predeclare_all` of codegen.rs, over `TempKinds` | one action per turn of each loop: types of returned objects, four rounds over all functions, unification, emission |
| `Driver` | compile.rs, the tools, pipeline.rs, link.rs | one process per compilation: phase, diagnostics, exit code, and the shared files |
| `Lemmas` | | lemmas: induction over numbers; reachability |
| `HulkGCProofs`, `HulkGCAccounting` | | theorems about `HulkGC`: marking, sweeping and the refinement; recursion, bytes and thresholds |
| `TypeLayoutProofs`, `DriverProofs`, `MutatorProofs`, `SignaturesProofs` | | theorems about these modules; the last also about `TempKinds` |
| `RootingProofs` | | theorems about `Mutator` running code that `Rooting` accepts |
| `MC*` | | small instances for TLC |

How they compose:

* `Compiler` runs `Scoping`, `Inference`, `Macros`, `Desugar` and `Lowering` on a
  tree, as the driver does, and stops where the driver would stop: at a report,
  or at a panic.  `Mutator` executes what comes out, and `Semantics` says, from
  the tree as parsed, what must be printed.  So `PrintsWhatItSays` is about the
  whole pipeline: a captured variable, a stale symbol, a macro's name clash, a
  wrong jump or an operand evaluated twice all show as a wrong output.
* `Mutator` frees on an allocation whatever `Reachability` says the shadow stack
  does not reach through the words the objects' tags name (`Traced`, from
  `build_type_tag`: the type's own pointer fields, their offsets counted from the
  object's first word), in one step.  That one step is right is `HulkGC`'s
  `CollectionIsExact`; that it may come at any allocation stands for the byte
  count.  `HulkGC` has the most general client that keeps the contract of gc.h:
  it pushes and stores only live references.  `Mutator` is an actual client.
* `HulkGC` implements `ManagedHeap` (`ImplementsHeap`).
* `Lowering` writes `Banner`, `CodeShape` says what `Mutator` and the code
  generator rely on in it (`IsLawful`), and `Rooting` what the collector does
  (`IsRooted`).  A run checks the first of every program compiled, and the second
  of every one that runs with collections, but for those that make object arrays,
  whose elements no collection traces (`CodeIsLawful`); the theorems about
  `Mutator` start from them.
* `Names` makes each declaration a step, so that what is between two of them can
  be asked for (`BackAtTopLevel`).
* `Signatures` instantiates `TempKinds` once for each function and round.

Each module holds, under the comment *Wrong*, some definitions with a plausible
slip.  Nothing uses them; substituted for the right ones they show that a
property can fail.

### Abstractions

* A string is its length, a number a whole number, a Boolean 0 or 1, and PI 3; of
  a quotient the whole part is kept, in the compiled program and in `Semantics`
  alike (`Numbers`), so what rounding does is not asked about;
  text, spans and formatting are left out.  `%g` is the number of characters it
  prints.
* Symbols and types are fields of the node, where the code has maps keyed by
  node id.  A pass that makes a node leaves them empty, and one that copies an id
  copies them.
* `Mutator`: an object's fields are words by name, and a tag names some of them:
  those at the positions in the layout (`Layout`) where its offsets point.  A number
  in such a word, which `mark` would take for an address, is what
  `NoDanglingAccess` excludes.  An object's tag stands for what the code generator tracks of
  a temporary's static type.  A vector holds doubles: a reference stored in one
  is a number nobody can follow (`Element`).
* `Macros`: `MaxExpansions` (12) stands for the stack a macro that expands itself
  without end overflows.
* `Scoping`: the resolver never comes back from climbing a cycle; `stuck` is set
  where that happens, and `Names` then goes round for ever (`GoRound`).
* Where the generated code would fault (a null receiver, a field the object does
  not have, an index out of range), `Mutator` has no step: a program that comes
  there deadlocks, which the runs would report.
* `TypeLayout`: the resolver accepts a type that declares an attribute twice;
  `collect_fields` keeps one slot and `build_type_tag` counts two.
* `TempKinds`: an instruction is what it defines and uses.  The kinds of fields
  and of array elements are inputs.  `Signatures` gives every function one return,
  as the lowerer does, and main, which nothing calls, is not there.
* `Driver`: a source is what the phases will find in it, which of them never end on
  it (`endless`: the resolver on a cycle of parents, code generation on the programs
  of `signatures_unending`), and which end the process (`fatal`: a stack the resolver
  or the expansion of a macro overflows, a panic of the lowerer, which exits with 101
  and reports nothing).  Sources are not among the files: an `-o` that names a
  source, which the compiler would overwrite, is left out, as are usage errors (exit
  code 2 of hulkc).  Of two processes that write the object file at once, the one
  that ends last decides what is in it.

## 3. Runs

Deadlock is checked in all runs but the driver's, where the system stops when
all command lines are done.

| run | question | bounds |
|---|---|---|
| `gc_graphs` | is reachable memory kept and garbage freed, for every shape of the heap? | three objects (a cycle, a cycle with a tail, sharing), leaf and pair tags with offsets out of address order, capacity 2, the objects symmetric |
| `gc_calls` | is the accounting exact, who is refused memory, is the invariant of the proofs (`CompleteInv`) one, does the collector implement `ManagedHeap`, does every call return? | two objects, sizes below, at and far above the first threshold |
| `names_all` | is resolution lexical scoping, are hierarchies checked as graphs, is the resolver back at the top level between declarations, does it come back from every search, if there is no cycle? | every small expression over two names (bindings, loops, generators, lambdas, assignments, calls nested twice), as main and in functions, methods, attributes, macros and arguments of a parent; all hierarchies of three types; protocols that extend one another; what a method may ask of self, base and another type, in every order of declaration, with cycles: 9,263 programs, on nine of which the resolver is stuck |
| `mutator_rooted` | does compiled code print what the program says, touch no freed object, balance the shadow stack, read only what was written, is the code of each lawful and its references rooted, and does each end? | 2,722 programs with a collection at any allocation: every rooted one of depth 2 over lets, concatenations, branches, blocks and loops, and fifteen larger ones: recursion, objects, lambdas and functions passed on, vectors and generators, object arrays, iterators, macros with blocks, nested macros, `match`, every operator on numbers.  Twelve that are not rooted, inheritance over three types with `base`, `is` and `as` among them, run without a collection.  101,710 states |
| `mutator_unrooted` | (violated) are temporaries roots, and do tags name every reference? | those twelve, with collections |
| `mutator_shadowed` | (violated) does an outer for variable survive an inner one of the same name; is a vector there for a second loop? | two programs, no collection; each of them alone is a counterexample |
| `typelayout_all` | are tags, slots and method tables what inheritance means? | all hierarchies of three types, in all orders, unknown parents (protocols) included; a plain and a reference field; one method |
| `typelayout_offsets` | (violated) does a tag describe inherited fields? | the same |
| `signatures_sound` | do the inferences end, with the right kinds, and does every emitted call agree with what it may reach? | every well-typed function of three instructions (a definition, a copy in either direction, a use) and of two on a parameter of each kind, a program of three types in which a function's kind changes from round to round, and some 3,400 programs of two types, unrelated or in either order of declaration, with a method each, and two functions that call each other, the methods, and their bases, on parameters with and without annotations |
| `signatures_unending` | (violated) do they end on all programs the front end accepts? | three programs; each of them alone is a counterexample |
| `driver_sequence` | are files and exit codes those of the source, and does a compilation end that meets no endless phase? | two command lines in a row, all tools, all representations but `object`, output paths of their own, shared ones (`-o`) and that of the object file, all combinations of error kinds, sources on which a phase never ends or dies, each compilation possibly killed at any point; 174,044 states |
| `driver_together` | (violated) is the output what the options promise, also when two compile at once? | two processes; `hulk` in two directories, `hulkc run` of two files with one stem, and `--emit object`; each of the three alone is a counterexample |

The violated runs state what a comment or document of the repository says;
`findings` quotes it.  In short:

1. Operands, intermediate results and reassigned variables are no roots: a
   collection frees them while they are used.
2. A binding the desugarer makes is never restored: a for inside a for with one
   variable name changes the outer variable.
3. Offsets of inherited fields are missing from a tag, and those of a subtype's
   own fields point at the wrong words.  `typelayout_offsets` shows the tag;
   `mutator_unrooted` has what it does to a program: in `Inherited` an inherited
   string is freed and read, in `Misplaced` the collector is sent to a number.
4. Three fixpoint loops of the code generator may never end: the kinds of
   temporaries on a comparison used as a number; the unification of methods on
   two unrelated types (or two lambdas) whose methods of one name return a Number
   and a Boolean; the types of returned objects on a ring of functions.
5. Concurrent compilations share `hulk_out.o`.
6. `--emit object` leaves a linked executable, named `.o`.

Because of the first and the third, `mutator_rooted` covers with collections only
programs that keep their references in variables bound once and whose tags name
exactly the words that hold references (`TagsAreExact`), which leaves inheritance of
reference fields to runs without a collection; because of the third too,
`RootTypesAreTracedExactly` speaks of types without inherited fields (and without
a field declared twice, which has one slot and two offsets); because of
the fourth and of 4 to 6 of the code generator below, the programs of
`signatures_sound` are those `MCSignatures` calls settled, and `CompilationsEnd`
speaks of sources on which no phase the job needs is endless; because of the sixth
`driver_sequence` and `OutputsAreOwn` have no job that asks for an object.  What
holds there is
what the code gets right, and each restriction is named.

Why the bounds are enough.  In gc_graphs two objects make a cycle and a third
hangs from it or is garbage beside it, and a second collection follows the
first, so stale mark bits show.  Two pushes fill the shadow stack.  Two names are
what it takes for one to hide the other.  Three types are a grandparent, a parent
and a child, in every order of declaration.  Depth 2 puts every construct inside
every other, and a literal, which needs the shadow stack, inside and around a
binding.  Four functions need at most four rounds, which is what the code has.  A
second compilation is what it takes to meet the remains of a first.

### Fairness

Programs, the collector and the inference loops are sequential code with nothing
to wait for, so weak fairness of their next step is what running means: `HulkGC`
assumes it of the runtime's steps only (a client need never call), `Mutator`,
`TypeLayout`, `TempKinds` and `Signatures` of the whole step, `Driver` of each
compiler's own steps (nobody need start or kill one).  Each step of `Driver` is a
phase, so its fairness says that a phase that has begun ends.  Where one may not, the
model takes no step: `BuildHir`, `RunMiddleend`, `Lower` and `Generate` are enabled
only where the source lets the phase end (`Ends`), and fairness asks nothing of a
step that is not enabled.  `CompilationsEnd` says that nothing *else* keeps a
compilation from ending.

## 4. Proofs

Every theorem is `Spec => []P` (the refinement: `Spec => ImplementsHeap`), for all
values of the constants that meet the module's assumptions.  TLC evaluates the
assumptions in the runs of the module.

| module | assumptions | theorem | states |
|---|---|---|---|
| `HulkGCProofs` | `NullAssumption`, `TagAssumption`, `SizesAssumption`, `LimitsAssumption` | `TypeCorrect` | `TypeOK` |
| | | `InductiveInvariant` | `IInv` |
| | | `ReachableObjectsSurvive` | `ReachableIsLive` |
| | | `CollectionsAreExact` | `CollectionIsExact` |
| | | `NothingIsFreedTwice` | `NoDoubleFree` |
| | | `CollectorImplementsHeap` | `ImplementsHeap`: the refinement of `ManagedHeap` |
| `HulkGCAccounting` | the same | `MarkIsNotReentered` | `NoReentrantMark` |
| | | `CompleteInvariant` | `CompleteInv` |
| | | `BytesAreCounted` | `BytesAreExact` |
| | | `ThresholdBoundsHeap` | `HeapWithinThreshold` |
| | | `SmallRequestsSucceed` | `OnlyLargeRequestsFail` |
| `TypeLayoutProofs` | `TypesAssumption`, `ProgramsAssumption` | `InductiveInvariant` | `IInv` |
| | | `TypeCorrect` | `TypeOK` |
| | | `TypesGetOneTag` | `EachTypeOnce` |
| | | `IsMeansInheritance` | `IsAgreesWithInheritance` |
| | | `SlotsAreInherited` | `ChildrenExtendParents` |
| | | `MethodTablesOverride` | `OverridesWin` |
| | | `RootTypesTraced` | `RootTypesAreTracedExactly` |
| `DriverProofs` | `JobsAssumption` | `InductiveInvariant` | `IInv` |
| | | `TypeCorrect` | `TypeOK` |
| | | `ExitCodesTell` | `ExitCodeTellsTheError` |
| | | `OnlySoundCode` | `OnlySoundSourcesGetCode` |
| | and `Overlap = FALSE`, `NoObjectJobs` | `OutputsAreOwn` | `OutputIsOfItsSource` |
| `MutatorProofs` | `LawfulOnes` | `InductiveInvariant` | `IInv` |
| | | `TypeCorrect` | `TypeOK` |
| | | `ShadowStackBalanced` | `ShadowBalanced` |
| | | `ReadsFindStores` | `NoUndefinedRead` |
| `RootingProofs` | `LawfulOnes`, `RootedOnes` | `RootsHold` | `GInv` |
| | | `FreedIsNeverFollowed` | `NoDanglingAccess` |
| `SignaturesProofs` | `WellTypedOnes` | `InductiveInvariant` | `IInv` |
| | | `TypeCorrect` | `WellFormed` |
| | | `InferredKinds` | `KindsAreTheTypes` |
| | | `InferenceStopsAtFixpoint` | `StopsAtFixpoint` of `TempKinds` |
| | | `KindsStay` | `ConcreteKindsStay`, an action property |

`Lemmas` has lemmas only.  The library's induction
theorems take an operator as a parameter, which the provers cannot instantiate;
`Lemmas` proves the principle about *sets* of numbers, from the well-founded
order on finite sets, and that is enough for sums, walks and chains of ancestors.
From it comes also `Recursion`: a function defined along an interval exists when
every step leads from a set into the same set.  It gives the loops over lists of
instructions and of functions their values.

*The collector* (`HulkGCProofs`).  `ReachableIsLive` is not inductive: during the
mark phase nothing says that what is not yet marked will be.  `IInv` adds what
each phase has done so far.

* Marking (`Marking`): only reachable objects are marked; the roots before the
  loop index are; and a child of a marked object is marked or *pending*, that
  is, its parent has an activation of `mark` that has not come to it.  When no
  activation is left and all roots are done, the marked set is closed and holds
  the roots, so it is what can be reached (`StartSweepStep`).
* Sweeping (`Sweeping`): what was kept and what is still marked is what can be
  reached.  Freeing an unmarked object leaves reachability as it was, because
  only edges of unreachable objects change (`UnreachableEdgesDoNotMatter`,
  `SweepFreeStep`).
* Between collections (`ClosedHeap`): roots and edges stay within the list.  A
  client that pushed or stored a freed reference would break this, which is why
  `Mutator` checks it of generated code (`NoDanglingAccess`).

`NoDoubleFree` is part of the invariant because a list with a duplicate would
free a survivor.  For the refinement, `ClientRefines` and `RuntimeRefines` map
each step to a step of `ManagedHeap` or to a stutter: marking is a stutter,
`StartSweep`, `SweepKeep` too, `SweepFree` is `Release`, `FinishGC` is
`EndCollection`.

*Its accounting* (`HulkGCAccounting`).  An activation of `mark` begins on an object
whose bit is clear and sets it, so no object has two.  The byte counter is a sum
over `before` and `list` together; `Total` of a sequence is a recursive function,
and induction on its length gives the lemmas about appending and removing.  An
object keeps its size while it is in either, which is where `NoDoubleFree` comes
in again.  The threshold is at least the bytes outside the sweep, and the two tests
of `hulk_alloc` and the doubling after a collection give the rest.

*Layouts* (`TypeLayoutProofs`).  The walk of `emit_program` collects the ancestors
of a type that have no tag and then places them, oldest first.  `IInv` says that
the ancestors still to be placed are a chain of parents, have no tag yet, and are
disjoint from what is placed; that a placed type's parent is placed before it;
and that the tags built are those of a prefix of the order.  A chain without
repetitions of declared types is no longer than there are types, which gives that
the walk up a hierarchy (`Lineage`) and `__hulk_is`'s walk from tag to tag meet the
same types.  `ChildrenExtendParents` and `OverridesWin` are inductions along the
chain of ancestors.

*The driver* (`DriverProofs`).  `Knows(c)` says what a process in each phase knows of
its source (which gates it has passed, what is in its bag), and `ObjectThere` and
`OnlySoundSourcesGetCode` what any file can be made from: never a source with
errors, since only a process behind the gates writes code, and the linker copies
what another such process wrote.  This holds of processes that overlap.
`OutputIsOfItsSource` does not (`driver_together`), and it is false of a job that asks
for an object file, whatever else runs: `Wants` is what the options promise, and the
code links.  With one compilation at a time, killed ones among them, and no such job, `OwnObject` says that what a process links is what it
wrote; a process killed earlier leaves a file that the next one writes anew.

*The running program* (`MutatorProofs`).  `LawfulOnes` says that the code of every
program that has any meets `IsLawful` of `CodeShape`, a condition on its
instructions; the checks find it of everything `Lowering` makes of the programs of
`mutator_rooted`.  From it, for any
number of calls, objects and collections:

* The depth of the shadow stack is a sum over the calls under way: `DepthAt(b, n)`
  counts the pushes less the pops of a body before its n-th instruction, and the
  invariant says that each frame's base plus its `DepthAt` is the base of the next
  one, and of the innermost the length of the shadow stack.  `IsBalanced` makes
  every jump keep it, and a `return` finds `DepthAt` zero.
* A temporary has a value, or the place is one that `Before` has (a path may come
  to it without a store), and the temporary is none of the body's `Inputs`: then no
  instruction that reads it is in `Before`, so it has a value where it is read.  A
  caller passes the inputs (`CallsFit`); a waiting caller keeps its own.
* Values are numbers, NULL, or references to objects allocated, in temporaries, in
  loaded operands, in fields and in elements; `Grows` carries that over every
  allocation and every collection, which clears only `live`.

TLC has checked this `IInv` too, on the larger programs of `MCMutator` without the
2,700 small ones, with which it takes too long for a run.

*Its references* (`RootingProofs`).  `NoDanglingAccess` is false of some programs
(`mutator_unrooted`), so the theorem has to say of which code it is true, and to
say it of the text.  `IsRooted` (`Rooting`) does: going along a body it gathers for
each place three sets of temporaries, and asks that they suffice for what the
instruction there follows, stores, pushes or passes on.

* *kept*: what the temporary refers to is on the shadow stack, at a given depth of
  the body's own part of it, or below, where the callers put it.  A pop of that
  depth ends it, and nothing else does.
* *reached*: the shadow stack reaches it, as it does a field just read from
  something reached.  A store into a field, a pop or a call ends it; an allocation
  does not.
* *live*: it has not been freed, as a new object has not been.  An allocation ends
  it, as does a call of a function that may allocate (`Quiet` has those that may not).

`Held` follows what the words may hold: for either sort, numbers and references, the
temporaries, fields and results that may be of it, from where they are made through
copies, calls, fields and returns.  Two things are asked of it.  A number that meets a
concatenation becomes a string on no stack, so a rooted program concatenates none.
And a collection follows the words a tag names, so `TagsAreExact` asks that no such
word may hold a number and every word that may hold a reference is one.  A type that
inherits a reference field fails this, as it should (`Inherited`).

The inductive invariant `GInv` says that all of this is true of the run, with the
`IInv` above:

* `HInv`: the shadow stack and the objects not freed refer only to objects not
  freed, in any of their words.  Collections keep it (`Collected`: what was reached is
  reached and not freed after, and what is on the stack is as it was) because all the
  references of an object are in words its tag names; the steps that store or push keep
  it because what they store and push is live.
* `NInv`: a number or a reference is only in temporaries and fields where `Held` has
  one of its sort, and the built-in objects hold no reference where the runtime does
  not look for one; and what has been loaded of an instruction is what its operands
  stood for.  With `TagsAreExact` it gives what `HInv` needs: what a collection traces
  of the heap is all there is to trace (`HeapIsTraced`).
* `RInv`: the three sets hold of the innermost call, where it is (`InnermostOK`).
  The loads of an instruction's operands may allocate, so what is only live is
  given up from the second one on, but for the literal just made.  Of a call that
  waits (`WaitingOK`) only *kept* is claimed, since the ones above may allocate and
  pop only their own; while all of them are quiet, *live* as well.  That is what a
  call of `new` needs, whose object is on no stack until the constructor returns.

The three sets at a return are what the caller's analysis says follows the call
(`ReturnRooted`); at a call the callee's parameters have what `Entry` gives them,
because the caller's arguments were kept (`EnteringRooted`).  `GInv` implies
`NoDanglingAccess` because whatever an instruction touches is an operand `IsRooted`
has asked about (`TouchedLives`); of the words the tags name `HInv` says that
no reference there dangles, and `NInv` that no number is there.  What
an instruction touches is what it dereferences or pushes; that a function may *return*
a reference nothing has kept is no access, and the theorem does not speak of it.

The analysis is sound for code, not complete: code it rejects may still be safe.
Of the programs of `mutator_rooted` that run with collections it rejects only the
one with object arrays; of the twelve others it rejects `Inheriting`, which
happens to be safe, because a variable keeps what the tags leave out.  TLC has checked `GInv` on the larger rooted programs and
the small ones of depth 1; evaluating the analysis in every state takes too long
for a run.

*Signatures* (`SignaturesProofs`).  `WellTypedOnes` says that the bodies of each
program agree with *some* typing of its temporaries and of its short names: what
arithmetic takes and makes is a number, a copy has the type of its source, a call
that of the name it calls, and what is compared is a number or known to the
inference (it has a definition that is not a copy, or a copy of something that
has: `Grounded`).  Of the 8,546 programs of `signatures_sound` it holds of 7,862,
the 5,121 of a single function among them; the others have two methods of one
short name that return different kinds.  What holds then:

* A pass changes the kind of a temporary only from unknown or from pointer, and
  only to its type or to pointer (`StepKeepsToTypes`, along the instructions
  `PassKeepsToTypes`).  The backward pass, which takes whatever is compared for a
  number unless it is known, keeps this only because by then the forward pass has
  met every producer and the copies have carried it on: `InferenceInv` says, for
  each place between the passes, what has been found by then (`PassEffect`).
* The flag.  If a round has raised none so far, its passes have left the map as it
  was and would again (`Still`).  At the end that is all three passes, so the
  loop stops at a fixpoint.
* The maps of the program: every kind recorded is that of the typing or a pointer
  (`KindsFit`), whichever round recorded it.  Resolving a body against such a map
  yields one that fits the passes (`ResolvedBodyFits`), what it is found to return
  fits the map again (`ReturnKindFits`, `RecordedFits`), and so does a group once
  it is unified (`UnifiedFits`).  Of a turn over the groups the invariant says that
  no method is recorded in it that was not before, so the groups do not change
  under the loop.

`ConcreteKindsStay` follows: two concrete kinds of one name are both the typing's.
It is not an invariant of the rounds for functions and qualified methods, as a
program of `MCSignatures` shows (`LaterMethod`, 8. below).  TLC has checked this
`IInv` on those 7,862 programs.

Only model-checked:

* liveness (`CallsReturn`, `LayoutEnds`, `CompilationsEnd`, `SignaturesEnd`,
  `ProgramsEnd`): the provers do not do fairness;
* `Names`, `PrintsWhatItSays` and `CodeIsLawful`: they are about syntax trees, over
  modules (`Syntax`, `Scoping` to `Lowering`, `Semantics`) of recursive operators,
  which the prover cannot take.  That `Lowering` makes lawful code of *every* tree,
  and rooted code of which, is the missing link between the theorems about `Mutator`
  and the compiler;
* `NoDanglingAccess` of programs that run with collections and whose code is not
  `IsRooted`: `RootedOnes` excludes them.  Among them is the object array program of
  `mutator_rooted`, which is safe because a variable holds what its array does;
* `SignaturesAgree`: false of some programs (4. to 6. of the code generator below),
  and which ones depends on when the fourth round ends and the unification comes.
  Proved is that two concrete kinds never meet, which leaves only a pointer
  against a number;
* of `Signatures`, the programs with two methods of one short name that return
  different kinds, which `WellTypedOnes` excludes.

## 5. Divergences met while modelling

Each of these is in the model (or noted as not), read off the code, and kept out
of the passing runs' programs by name, or stated in the properties as what they are.
They are listed for whoever maintains the code; the six above are shown by runs.

*Resolver.*
1. `type_has_method` (inheritance.rs:86-99) and `ancestor_owns_attribute`
   (validation.rs:111-120) go round a cycle of parents for ever when the member is
   missing, and the cycle is never reported: REPORT.md:639-646 says of
   `detect_inheritance_cycles`, which would report it, that it prevents an infinite
   recursion further on.  Nine programs of `names_all` (`type A inherits B`, `type B
   inherits A { m() => self.n(); }`, and the like) end there; `ClimbsEnd` claims
   that without a cycle none does.
2. `self.m()` is rejected if m is declared later in the type, or in a parent
   declared later (decls.rs:170-181).
3. The arguments of the match intrinsics are never resolved (exprs.rs:297-311),
   nor is the attribute of a field assignment checked.
4. Constructor parameters are visible in methods, and a method's name as a plain
   function; both resolve, and neither has code.
5. A call through a variable that hides a function is checked against the
   function's arity.  `for (x in [])` is rejected.

*Macros.*
1. A for inside a macro's body: the binding is renamed, its uses are not.
2. A macro nested in its own block argument shares symbols with it.
3. A macro that calls itself is expanded without a bound (expander.rs:248).
4. `@symbol` parameters keep the macro's symbol, and `$placeholder` names get one
   the lowerer does not know: both panic.
5. A macro that matches on its parameter must have a default, whatever the
   argument.  (`Semantics` decides with the matcher of `Macros` whether an argument
   meets a pattern, so `PrintsWhatItSays` compares the expansion of a match, not the
   matcher.)
6. The simplification of a match's result (pattern.rs:303-311) gives the operand
   that is left the sum's id: a variable loses its symbol.

*Desugaring.*
1. In a lambda `self` is the lambda; an assignment to a captured variable is not
   rewritten, and bindings inside the body are rewritten as if they were captured.
2. An array generator evaluates its size in every turn.
3. Sugar in the subexpressions of an assignment's target and in the arguments for
   a parent's constructor is neither expanded nor desugared, and panics.
4. A function passed to a method or to `new` is not wrapped.

*Lowering and generated code.*
1. A variable used as an operand is its temporary, not a copy: in `n + (n := 5)`
   the left operand is read after the assignment.
2. The space of `@@`, an object under construction, the object a function is
   wrapped in, and the elements of an object array are no roots.
3. A vector holds doubles: a string in one comes back as a number or NULL.
4. A method called on a parameter is looked up by its short name, unless the
   parameter is annotated: with two unrelated types of which one returns a number and
   the other an object or its own parameter, the call is emitted with the number's
   signature.  With the annotation (`function f(b: B) => b.m()`) emission knows the type
   (`param_runtime_hints`, emit.rs:174-182) and looks the method up as B's, but the
   inference, which has no hints, still gives the result's slot the short name's kind:
   the comment at emit_call.rs:170-175 says the two "don't collide".
5. What a function returns is not inferred again after the unification: one that
   returns the result of a method whose kind was unified from pointer to number
   is declared to return a pointer, and returns null.
6. `predeclare_all` does four rounds: of five functions each calling the next one
   declared, the first still returns a pointer when the last returns a number.
7. Plain functions and short names of methods share a map: a method's result
   takes the type of the object a function of its name returns.
8. The rounds are not monotone.  A method whose own entry is not recorded yet is
   looked up by its short name, and may find the kind of another type's method;
   once its entry is there, with a pointer, the caller's kind goes back to
   pointer, and it takes a further round to recover it (`LaterMethod`).
9. An operand of a comparison that nothing is known of counts as a number: a
   parameter, or a copy of one, that holds an object or a string and is compared
   (`MCSignatures`, `KnownWhereCompared`).
10. A type two generations below the one with the parameters, with none declared in
   between, passes its parent's constructor nothing (lowerer.rs:136-155 looks one
   generation up): LLVM's verifier rejects the module (`Verifies`), so the program does
   not compile.  A third generation with parameters of its own does
   (`Inheriting`).
11. A vector is its own iterator and is never rewound: a second loop over it has no
   turns (`TwiceOver`, `mutator_shadowed`).  The test `complex_vector_processing`
   (hulk-driver/tests/language_features.rs:1055-1074) iterates one vector twice, and stops at the
   HIR.

## 6. Plan

Done, the parts where a fault is silent first: collector; generated code over
it; tags and layouts; kinds; driver; then the whole of lowering, desugaring,
macros, inference and resolution, composed into the compiler and judged by what
the compiled program prints; and the signatures of functions.  Then proofs:
the collector, its accounting, layouts, the driver, the execution of lawful
code, the signatures of well-typed programs, and the references of rooted code.
What is left:

1. `Lowering` as functions on a tree, without recursive operators, so that
   `IsLawful` can be proved of what it makes;
2. `Names`: `BackAtTopLevel`, which needs the resolver (`Scoping`) written without
   recursive operators, one lemma for each kind of expression.

## 7. Not modelled

* Lexer, parser, spans, tokens, printers, rendering of diagnostics: characters
  and layout, which the models abstract away.  Every model starts from the tree.
* `symbol_inferer.rs`: refines the types of unannotated parameters; the driver
  does not call it.
* The kinds of fields (`field_kinds`, `build_field_kind_map`) and the hints for
  parameters as far as they select an offset or a runtime function: the object's tag
  stands for them in `Mutator`, and the kinds are inputs of `TempKinds`.  Whether a
  field holds references is modelled (`HoldsReferences`), and so is what the hints mean
  for the signature of a call (`EmittedTags`).  A field
  access on a static type the generator does not know (`resolve_field`) is an
  error of the code generator the models do not have.
* The mathematical functions, and the readers of strings (`size`, `charAt`,
  `substring`).
* The LLVM library and the linker are external: they fail or do what they are
  asked.  The prelude and the examples are HULK programs.
