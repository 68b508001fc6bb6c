----------------------------- MODULE TempKinds -----------------------------
(***************************************************************************)
(* How the code generator finds the machine type of every temporary        *)
(* (src/crates/hulk-codegen/src/emit.rs, infer_temp_kinds): a double, a    *)
(* bit or a pointer.  Three passes over the instructions of a function,    *)
(* forward from producers, along copies, and backward from uses, repeated  *)
(* while any of them changes something.  One action is one pass.           *)
(*                                                                         *)
(* An instruction is [op, d, args, kind]: what it defines (or 0), the      *)
(* temporaries it uses, and for the producers whose kind comes from        *)
(* elsewhere (a constant, a call's or a field's declared kind, the element *)
(* of an array) that kind.  A negation is an arith without operands here,  *)
(* a not a compare: the code demands nothing of theirs.                    *)
(* The map of structs, which only selects that kind, is not modelled.      *)
(***************************************************************************)
EXTENDS Naturals, Sequences, SequencesExt

CONSTANT Functions        \* each [instrs, types], types the temporaries' types

VARIABLES fn,             \* the function under inference
          kinds,          \* temporary -> F64, I1, Ptr or Unknown
          changed,        \* has this round changed anything
          phase           \* the pass that comes next, or "done"

vars == <<fn, kinds, changed, phase>>

Unknown == "unknown"
Kinds   == {"F64", "I1", "Ptr"}

Temps == DOMAIN fn.types

-----------------------------------------------------------------------------
(* The passes.                                                             *)

\* insert, and entry().or_insert.
Insert(ks, t, k)   == [ks EXCEPT ![t] = k]
OrInsert(ks, t, k) == IF ks[t] = Unknown THEN Insert(ks, t, k) ELSE ks

\* The forward pass, one instruction.
Classify(ks, i) ==
  CASE i.op = "arith"   -> Insert(ks, i.d, "F64")
    [] i.op = "compare" -> Insert(ks, i.d, "I1")
    [] i.op = "index"   -> Insert(ks, i.d, i.kind)
    [] i.op = "produce" -> OrInsert(ks, i.d, i.kind)
    [] i.op \in {"copy", "store"} -> ks

\* Wrong: a copy that overwrites a concrete kind with its source's.
CopyOverwrites(ks, i) ==
  IF i.op = "copy" /\ ks[i.args[1]] # Unknown
  THEN Insert(ks, i.d, ks[i.args[1]])
  ELSE ks

\* Copy propagation: a pointer is promoted, a concrete kind stays.
Propagate(ks, i) ==
  IF /\ i.op = "copy" /\ ks[i.args[1]] # Unknown
     /\ \/ ks[i.d] = Unknown
        \/ ks[i.d] = "Ptr" /\ ks[i.args[1]] # "Ptr"
  THEN Insert(ks, i.d, ks[i.args[1]])
  ELSE ks

\* Wrong: an operand of arithmetic that is known to be a pointer stays one.
DemandFills(ks, i) ==
  IF i.op \in {"produce", "copy"} THEN ks
  ELSE [t \in DOMAIN ks |-> IF t \in Range(i.args) /\ ks[t] = Unknown
                            THEN "F64" ELSE ks[t]]

\* The backward pass, one instruction: the operands of arithmetic, the
\* indices, and what goes into a numeric field must be doubles; those of a
\* comparison are when nothing else is known.
Demand(ks, i) ==
  CASE i.op \in {"arith", "index", "store"} ->
         [t \in DOMAIN ks |-> IF t \in Range(i.args) THEN "F64" ELSE ks[t]]
    [] i.op = "compare" ->
         [t \in DOMAIN ks |-> IF t \in Range(i.args) /\ ks[t] = Unknown
                              THEN "F64" ELSE ks[t]]
    [] i.op \in {"produce", "copy"} -> ks

\* What a pass does with an instruction.
Step(pass, ks, i) ==
  CASE pass = "forward"  -> Classify(ks, i)
    [] pass = "copies"   -> Propagate(ks, i)
    [] pass = "backward" -> Demand(ks, i)

\* The kinds after the first instructions of a pass.
After(pass) ==
  LET after[n \in 0..Len(fn.instrs)] ==
        IF n = 0 THEN kinds ELSE Step(pass, after[n - 1], fn.instrs[n])
  IN  after

\* The flag is raised by an insertion that changes the map.  In the forward
\* pass it compares the map before and after each instruction.
Touches(pass) == \E n \in 1..Len(fn.instrs) : After(pass)[n] # After(pass)[n - 1]

Pass(now, then) ==
  /\ phase = now
  /\ kinds' = After(now)[Len(fn.instrs)]
  /\ changed' = (changed \/ Touches(now))
  /\ phase' = then
  /\ UNCHANGED fn

-----------------------------------------------------------------------------
Init ==
  /\ fn \in Functions
  /\ kinds = [t \in DOMAIN fn.types |-> Unknown]
  /\ changed = FALSE
  /\ phase = "forward"

Forward  == Pass("forward", "copies")
Copies   == Pass("copies", "backward")
Backward == Pass("backward", "test")

\* Wrong: one round, as if no pass fed an earlier one.
OneRound ==
  /\ phase = "test"
  /\ phase' = "done"
  /\ changed' = FALSE
  /\ UNCHANGED <<fn, kinds>>

\* Wrong: the flag is not reset between rounds.
KeepFlag ==
  /\ phase = "test"
  /\ phase' = IF changed THEN "forward" ELSE "done"
  /\ UNCHANGED <<fn, kinds, changed>>

\* while changed
Test ==
  /\ phase = "test"
  /\ phase' = IF changed THEN "forward" ELSE "done"
  /\ changed' = FALSE
  /\ UNCHANGED <<fn, kinds>>

Done == phase = "done"
Stop == Done /\ UNCHANGED vars

Next == Forward \/ Copies \/ Backward \/ Test \/ Stop

Spec     == Init /\ [][Next]_vars
FairSpec == Spec /\ WF_vars(Forward \/ Copies \/ Backward \/ Test)

-----------------------------------------------------------------------------
(* Properties.                                                             *)

TypeOK ==
  /\ kinds \in [Temps -> Kinds \cup {Unknown}]
  /\ phase \in {"forward", "copies", "backward", "test", "done"}
  /\ changed \in BOOLEAN
  /\ phase \in {"forward", "done"} => ~ changed

\* The loop ends (emit.rs: until stable).
InferenceEnds == <>Done

\* For a function whose instructions agree with a typing, what is found is
\* that typing, up to temporaries whose producer was not known and which stay
\* pointers, and parameters and copies of them nothing is known of, which count
\* as pointers; and neither are ever operands of arithmetic or indices.
KindsAreTheTypes ==
  Done => /\ \A t \in Temps :
               \/ kinds[t] \in {fn.types[t], "Ptr"}
               \/ kinds[t] = Unknown /\ \A i \in Range(fn.instrs) :
                    i.d = t => i.op = "copy" /\ kinds[i.args[1]] = Unknown
          /\ \A i \in Range(fn.instrs) :
               i.op \in {"arith", "index", "store"} =>
                 \A t \in Range(i.args) : kinds[t] = "F64"

\* No pass takes back a concrete kind: two passes that did would undo each
\* other's work for ever.
ConcreteKindsStay ==
  [][\A t \in DOMAIN kinds : kinds[t] \in {"F64", "I1"} => kinds'[t] = kinds[t]]_vars

\* The loop stops only where another round would change nothing.
StopsAtFixpoint ==
  Done => ~ Touches("forward") /\ ~ Touches("copies") /\ ~ Touches("backward")
=============================================================================
