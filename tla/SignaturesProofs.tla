-------------------------- MODULE SignaturesProofs --------------------------
(***************************************************************************)
(* Proofs about Signatures and the inference of kinds in TempKinds, for    *)
(* programs of any size whose bodies agree with a typing.                  *)
(***************************************************************************)
EXTENDS Signatures, Lemmas

-----------------------------------------------------------------------------
(* Programs that agree with a typing.                                      *)

Basic == {"arith", "compare", "index", "produce", "copy", "store"}

AnyInstruction ==
  [op : Basic \cup Calls, d : Nat, args : Seq(Nat), kind : K!Kinds \cup {""},
   name : STRING \X STRING]

\* Where temporaries are first defined (0: nowhere): a copy after its source.
Orders(f) ==
  {first \in [DOMAIN f.types -> 0..Len(f.instrs)] :
     \A t \in DOMAIN f.types : first[t] # 0 =>
       LET i == f.instrs[first[t]]
       IN  /\ i.d = t /\ i.op # "store"
           /\ i.op = "copy" => first[i.args[1]] \in 1..(first[t] - 1)}

\* The temporaries that do not only hold what a parameter holds.
Grounded(f) == {t \in DOMAIN f.types : \E first \in Orders(f) : first[t] # 0}

BasicFits(f, i) ==
  /\ IF i.op = "store" THEN i.d = 0 ELSE i.d \in DOMAIN f.types
  /\ Range(i.args) \subseteq DOMAIN f.types
  /\ i.op = "arith"   => f.types[i.d] = "F64"
  /\ i.op = "compare" => f.types[i.d] = "I1"
  /\ i.op = "index"   => f.types[i.d] = i.kind
  /\ i.op = "produce" => i.kind \in {f.types[i.d], "Ptr"}
  /\ i.op = "copy"    => /\ i.args[1] \in DOMAIN f.types
                         /\ f.types[i.args[1]] = f.types[i.d]
  /\ i.op \in {"arith", "index", "store"} =>
       \A t \in Range(i.args) : f.types[t] = "F64"
  /\ i.op = "compare" =>
       \A t \in Range(i.args) : f.types[t] = "F64" \/ t \in Grounded(f)

\* sig gives every short name one kind.
CallFits(p, sig, f, i) ==
  /\ i.d \in DOMAIN f.types
  /\ Range(i.args) \subseteq DOMAIN f.types
  /\ i.op \in {"new", "cast"} => i.name[1] \in {p.types[n].name : n \in 1..Len(p.types)}
  /\ i.op \in {"call", "static", "method"} =>
       i.name[2] \in DOMAIN sig /\ f.types[i.d] = sig[i.name[2]]

\* A body after its calls are resolved.
BodyFits(f) ==
  /\ f.types \in Seq(K!Kinds)
  /\ f.instrs \in Seq(AnyInstruction)
  /\ \A n \in 1..Len(f.instrs) : f.instrs[n].op \in Basic /\ BasicFits(f, f.instrs[n])

FunctionFits(p, sig, f) ==
  /\ f.types \in Seq(K!Kinds)
  /\ f.instrs \in Seq(AnyInstruction)
  /\ f.result \in DOMAIN f.types /\ f.types[f.result] = sig[f.name]
  /\ \A n \in 1..Len(f.instrs) :
       /\ f.instrs[n].op \in Basic => BasicFits(f, f.instrs[n])
       /\ f.instrs[n].op \in Calls => CallFits(p, sig, f, f.instrs[n])

FunctionsOf(p) == Range(p.methods) \cup Range(p.functions)

Shorts(p) == {"next", "current", "size"} \cup {f.name : f \in FunctionsOf(p)}

Fits(p, sig) ==
  /\ sig["next"] = "I1" /\ sig["current"] = "F64" /\ sig["size"] = "F64"
  /\ \A f \in FunctionsOf(p) : FunctionFits(p, sig, f)

\* A program has functions and methods, which agree with a typing of its short
\* names: a program in which methods of one name, or a method and a function of
\* one name, return different kinds is not among them.
WellTypedProgram(p) ==
  /\ \E S : p.methods \in Seq(S) /\ p.functions \in Seq(S) /\ p.types \in Seq(S)
  /\ FunctionsOf(p) # {}
  /\ \A f \in Range(p.methods) : f.owner # ""
  /\ \E sig \in [Shorts(p) -> K!Kinds] : Fits(p, sig)

WellTypedOnes == \A p \in Programs : WellTypedProgram(p)

Typing == CHOOSE sig \in [Shorts(prog) -> K!Kinds] : Fits(prog, sig)

-----------------------------------------------------------------------------
(* The passes over one function.                                           *)

Inferred == K!Kinds \cup {K!Unknown}

\* The maps of kinds that agree with a function's types.
KindMaps(f) ==
  {ks \in [DOMAIN f.types -> Inferred] :
     \A t \in DOMAIN f.types : ks[t] \in {f.types[t], "Ptr", K!Unknown}}

\* What is known stays known, and what is concrete as it is.
Keeps(ks, ls) ==
  \A t \in DOMAIN ks : /\ ks[t] # K!Unknown => ls[t] # K!Unknown
                       /\ ks[t] \in {"F64", "I1"} => ls[t] = ks[t]

\* The passes, and what the last of them has to find.
Passes == {"forward", "copies", "backward"}
Ready(f, ks, pass) == pass = "backward" => \A t \in Grounded(f) : ks[t] # K!Unknown

\* An instruction of a pass keeps to the types, and to what was found.
LEMMA StepKeepsToTypes ==
  ASSUME NEW f, BodyFits(f), NEW n \in 1..Len(f.instrs), NEW pass \in Passes,
         NEW ks \in KindMaps(f), Ready(f, ks, pass)
  PROVE  /\ K!Step(pass, ks, f.instrs[n]) \in KindMaps(f)
         /\ Keeps(ks, K!Step(pass, ks, f.instrs[n]))
<1> DEFINE i == f.instrs[n]
           ls == K!Step(pass, ks, i)
<1>1. i \in AnyInstruction /\ i.op \in Basic /\ BasicFits(f, i)
  BY DEF BodyFits
<1>2. ks \in [DOMAIN f.types -> Inferred] /\ DOMAIN ks = DOMAIN f.types
      /\ \A t \in DOMAIN f.types : ks[t] \in {f.types[t], "Ptr", K!Unknown}
  BY DEF KindMaps
<1>3. \A t \in DOMAIN f.types : f.types[t] \in {"F64", "I1", "Ptr"}
  BY DEF BodyFits, K!Kinds
<1>4. \A k \in K!Kinds : k # K!Unknown
  BY DEF K!Kinds, K!Unknown
<1> SUFFICES ls \in KindMaps(f) /\ Keeps(ks, ls)
  OBVIOUS
<1> HIDE DEF i
<1>0. ks \in KindMaps(f)
  OBVIOUS
<1>r. K!Range(i.args) = Range(i.args)
  BY DEF K!Range, Range
<1>5. CASE ls = ks
  BY <1>0, <1>5 DEF Keeps
<1>6. ASSUME NEW d \in DOMAIN f.types, NEW k \in {f.types[d], "Ptr"},
             ls = [ks EXCEPT ![d] = k], k = f.types[d] \/ ks[d] = K!Unknown
      PROVE  ls \in KindMaps(f) /\ Keeps(ks, ls)
  <2>1. k \in K!Kinds /\ k # K!Unknown
    BY <1>3, <1>4, <1>6 DEF K!Kinds
  <2>2. ls \in [DOMAIN f.types -> Inferred] /\ ls[d] = k
        /\ \A t \in DOMAIN f.types : t # d => ls[t] = ks[t]
    BY <1>2, <1>6, <2>1 DEF Inferred
  <2>3. ks[d] \in {"F64", "I1"} => k = ks[d]
    BY <1>2, <1>6 DEF K!Unknown
  <2> HIDE DEF ls
  <2>4. ls \in KindMaps(f)
    BY <1>2, <1>6, <2>2 DEF KindMaps
  <2>5. Keeps(ks, ls)
    BY <1>2, <2>1, <2>2, <2>3 DEF Keeps
  <2> QED
    BY <2>4, <2>5
<1>7. CASE pass = "forward"
  <2>1. ls = K!Classify(ks, i)
    BY <1>7 DEF K!Step
  <2>2. \/ ls = ks
        \/ \E d \in DOMAIN f.types : \E k \in {f.types[d], "Ptr"} :
              ls = [ks EXCEPT ![d] = k] /\ (k = f.types[d] \/ ks[d] = K!Unknown)
    <3>1. CASE i.op = "arith"
      BY <1>1, <2>1, <3>1 DEF K!Classify, K!Insert, BasicFits
    <3>2. CASE i.op = "compare"
      BY <1>1, <2>1, <3>2 DEF K!Classify, K!Insert, BasicFits
    <3>3. CASE i.op = "index"
      BY <1>1, <2>1, <3>3 DEF K!Classify, K!Insert, BasicFits
    <3>4. CASE i.op = "produce"
      BY <1>1, <2>1, <3>4 DEF K!Classify, K!Insert, K!OrInsert, BasicFits
    <3>5. CASE i.op \in {"copy", "store"}
      BY <2>1, <3>5 DEF K!Classify
    <3> QED
      BY <1>1, <3>1, <3>2, <3>3, <3>4, <3>5 DEF Basic
  <2> HIDE DEF ls
  <2> QED
    BY <1>5, <1>6, <2>2
<1>8. CASE pass = "copies"
  <2>1. ls = K!Propagate(ks, i)
    BY <1>8 DEF K!Step
  <2>2. CASE i.op = "copy" /\ ks[i.args[1]] # K!Unknown /\ ls # ks
    <3> DEFINE s == i.args[1]
    <3>1. s \in DOMAIN f.types /\ i.d \in DOMAIN f.types /\ f.types[s] = f.types[i.d]
      BY <1>1, <2>2 DEF BasicFits
    <3>2. ls = [ks EXCEPT ![i.d] = ks[s]]
          /\ (ks[i.d] = K!Unknown \/ (ks[i.d] = "Ptr" /\ ks[s] # "Ptr"))
      BY <2>1, <2>2 DEF K!Propagate, K!Insert
    <3>3. ks[s] \in {f.types[i.d], "Ptr"} /\ (ks[s] # "Ptr" => ks[s] = f.types[i.d])
      BY <1>2, <2>2, <3>1
    <3> HIDE DEF ls
    <3> QED
      BY <1>6, <3>1, <3>2, <3>3
  <2>3. CASE ~ (i.op = "copy" /\ ks[i.args[1]] # K!Unknown)
    BY <1>5, <2>1, <2>3 DEF K!Propagate
  <2> QED
    BY <1>5, <2>2, <2>3
<1>9. CASE pass = "backward"
  <2>1. ls = K!Demand(ks, i)
    BY <1>9 DEF K!Step
  <2>2. CASE i.op \in {"produce", "copy"}
    BY <1>5, <2>1, <2>2 DEF K!Demand
  <2>3. CASE i.op \in {"arith", "index", "store", "compare"}
    <3>1. ls = [t \in DOMAIN ks |-> IF t \in Range(i.args)
                                       /\ (i.op = "compare" => ks[t] = K!Unknown)
                                    THEN "F64" ELSE ks[t]]
      <4>1. CASE i.op = "compare"
        <5>1. ls = [t \in DOMAIN ks |-> IF t \in Range(i.args) /\ ks[t] = K!Unknown
                                        THEN "F64" ELSE ks[t]]
          BY <1>r, <2>1, <4>1 DEF K!Demand
        <5> HIDE DEF ls
        <5> QED
          BY <4>1, <5>1
      <4>2. CASE i.op \in {"arith", "index", "store"}
        <5>1. ls = [t \in DOMAIN ks |-> IF t \in Range(i.args) THEN "F64" ELSE ks[t]]
          BY <1>r, <2>1, <4>2 DEF K!Demand
        <5>2. i.op # "compare"
          BY <4>2
        <5> HIDE DEF ls
        <5> QED
          BY <5>1, <5>2
      <4> QED
        BY <2>3, <4>1, <4>2
    <3>2. ASSUME NEW t \in DOMAIN ks, t \in Range(i.args),
                 i.op = "compare" => ks[t] = K!Unknown
          PROVE  f.types[t] = "F64"
      <4>1. t \in DOMAIN f.types
        BY <1>2
      <4>2. CASE i.op = "compare"
        BY <1>1, <1>9, <3>2, <4>1, <4>2 DEF BasicFits, Ready
      <4>3. CASE i.op # "compare"
        BY <1>1, <2>3, <3>2, <4>3 DEF BasicFits
      <4> QED
        BY <4>2, <4>3
    <3> HIDE DEF ls
    <3>3. ASSUME NEW t \in DOMAIN ks
          PROVE  /\ ls[t] \in Inferred /\ ls[t] \in {f.types[t], "Ptr", K!Unknown}
                 /\ ks[t] # K!Unknown => ls[t] # K!Unknown
                 /\ ks[t] \in {"F64", "I1"} => ls[t] = ks[t]
      <4>1. CASE t \in Range(i.args) /\ (i.op = "compare" => ks[t] = K!Unknown)
        <5>1. f.types[t] = "F64" /\ ls[t] = "F64"
          BY <3>1, <3>2, <4>1
        <5>2. ks[t] \in {"F64", "Ptr", K!Unknown}
          BY <1>2, <5>1
        <5> QED
          BY <5>1, <5>2 DEF Inferred, K!Kinds, K!Unknown
      <4>2. CASE ~ (t \in Range(i.args) /\ (i.op = "compare" => ks[t] = K!Unknown))
        BY <1>2, <3>1, <4>2
      <4> QED
        BY <4>1, <4>2
    <3>4. ls \in KindMaps(f)
      BY <1>2, <3>1, <3>3 DEF KindMaps
    <3>5. Keeps(ks, ls)
      BY <3>3 DEF Keeps
    <3> QED
      BY <3>4, <3>5
  <2> QED
    BY <1>1, <2>2, <2>3 DEF Basic
<1> QED
  BY <1>7, <1>8, <1>9 DEF Passes

\* An instruction of a pass makes a map of kinds of one.
LEMMA StepMakesMaps ==
  ASSUME NEW f, BodyFits(f), NEW n \in 1..Len(f.instrs), NEW pass \in Passes,
         NEW ks \in [DOMAIN f.types -> Inferred]
  PROVE  K!Step(pass, ks, f.instrs[n]) \in [DOMAIN f.types -> Inferred]
<1> DEFINE i == f.instrs[n]
<1>1. i \in AnyInstruction /\ i.op \in Basic /\ BasicFits(f, i)
  BY DEF BodyFits
<1>2. \A t \in DOMAIN f.types : f.types[t] \in {"F64", "I1", "Ptr"}
  BY DEF BodyFits, K!Kinds
<1>3. {"F64", "I1", "Ptr"} \subseteq Inferred
  BY DEF Inferred, K!Kinds
<1>0. ks \in [DOMAIN f.types -> Inferred]
  OBVIOUS
<1> HIDE DEF i
<1> SUFFICES K!Step(pass, ks, i) \in [DOMAIN f.types -> Inferred]
  BY DEF i
<1>4. CASE pass = "forward"
  <2>1. K!Step(pass, ks, i) = K!Classify(ks, i)
    BY <1>4 DEF K!Step
  <2>2. i.op = "index" \/ i.op = "produce" => i.kind \in Inferred
    BY <1>1, <1>2, <1>3 DEF BasicFits
  <2>3. CASE i.op = "arith"
    BY <1>0, <1>3, <2>1, <2>3 DEF K!Classify, K!Insert
  <2>4. CASE i.op = "compare"
    BY <1>0, <1>3, <2>1, <2>4 DEF K!Classify, K!Insert
  <2>5. CASE i.op = "index"
    BY <1>0, <2>1, <2>2, <2>5 DEF K!Classify, K!Insert
  <2>6. CASE i.op = "produce"
    BY <1>0, <2>1, <2>2, <2>6 DEF K!Classify, K!OrInsert, K!Insert
  <2>7. CASE i.op \in {"copy", "store"}
    BY <1>0, <2>1, <2>7 DEF K!Classify
  <2> QED
    BY <1>1, <2>3, <2>4, <2>5, <2>6, <2>7 DEF Basic
<1>5. CASE pass = "copies"
  <2>1. K!Step(pass, ks, i) = K!Propagate(ks, i)
    BY <1>5 DEF K!Step
  <2>2. i.op = "copy" => ks[i.args[1]] \in Inferred
    BY <1>0, <1>1 DEF BasicFits
  <2> QED
    BY <1>0, <2>1, <2>2 DEF K!Propagate, K!Insert
<1>6. CASE pass = "backward"
  <2>1. K!Step(pass, ks, i) = K!Demand(ks, i)
    BY <1>6 DEF K!Step
  <2>2. CASE i.op \in {"arith", "index", "store"}
    BY <1>0, <1>3, <2>1, <2>2 DEF K!Demand
  <2>3. CASE i.op = "compare"
    BY <1>0, <1>3, <2>1, <2>3 DEF K!Demand
  <2>4. CASE i.op \in {"produce", "copy"}
    BY <1>0, <2>1, <2>4 DEF K!Demand
  <2> QED
    BY <1>1, <2>2, <2>3, <2>4 DEF Basic
<1> QED
  BY <1>4, <1>5, <1>6 DEF Passes

\* The recursion that defines After has a solution, and is it.
LEMMA AfterSteps ==
  ASSUME BodyFits(fn), kinds \in [DOMAIN fn.types -> Inferred], NEW pass \in Passes
  PROVE  /\ K!After(pass)[0] = kinds
         /\ \A n \in 1..Len(fn.instrs) :
              K!After(pass)[n] = K!Step(pass, K!After(pass)[n - 1], fn.instrs[n])
<1> DEFINE Solves(g) == g = [n \in 0..Len(fn.instrs) |->
                               IF n = 0 THEN kinds
                               ELSE K!Step(pass, g[n - 1], fn.instrs[n])]
           S    == [DOMAIN fn.types -> Inferred]
           step == [n \in 1..Len(fn.instrs) |-> [ks \in S |-> K!Step(pass, ks, fn.instrs[n])]]
<1>1. K!After(pass) = CHOOSE g : Solves(g)
  BY Zenon DEF K!After
<1>2. Len(fn.instrs) \in Nat
  BY DEF BodyFits
<1>3. \E g : Solves(g)
  <2>1. step \in [1..Len(fn.instrs) -> [S -> S]]
    BY StepMakesMaps
  <2>2. PICK g \in [0..Len(fn.instrs) -> S] :
               g[0] = kinds /\ \A n \in 1..Len(fn.instrs) : g[n] = step[n][g[n - 1]]
    <3> HIDE DEF step, S
    <3>1. kinds \in S
      BY DEF S
    <3>2. PICK N \in Nat : N = Len(fn.instrs)
      BY <1>2
    <3>3. PICK T : T = S
      OBVIOUS
    <3>4. PICK a \in T : a = kinds
      BY <3>1, <3>3
    <3>5. PICK st \in Steps(N, T) : st = step
      BY <2>1, <3>2, <3>3 DEF Steps
    <3>6. \E g \in [0..N -> T] : Follows(g, N, a, st)
      BY Recursion
    <3> QED
      BY <3>2, <3>3, <3>4, <3>5, <3>6 DEF Follows
  <2>3. ASSUME NEW n \in 0..Len(fn.instrs)
        PROVE  g[n] = IF n = 0 THEN kinds ELSE K!Step(pass, g[n - 1], fn.instrs[n])
    <3>1. CASE n # 0
      <4>1. n \in 1..Len(fn.instrs) /\ n - 1 \in 0..Len(fn.instrs)
        BY <1>2, <3>1
      <4>2. g[n - 1] \in S /\ g[n] = step[n][g[n - 1]]
        BY <2>2, <4>1
      <4> QED
        BY <3>1, <4>1, <4>2
    <3> QED
      BY <2>2, <3>1
  <2>4. Solves(g)
    <3> HIDE DEF step, S
    <3> QED
      BY <2>3
  <2> QED
    BY <2>4
<1>4. Solves(K!After(pass))
  <2> HIDE DEF Solves
  <2> QED
    BY <1>1, <1>3
<1> QED
  BY <1>2, <1>4

\* During a pass the kinds keep to the types, and what was found stays.
LEMMA PassKeepsToTypes ==
  ASSUME BodyFits(fn), kinds \in KindMaps(fn), NEW pass \in Passes, Ready(fn, kinds, pass)
  PROVE  \A n \in 0..Len(fn.instrs) :
           /\ K!After(pass)[n] \in KindMaps(fn)
           /\ Ready(fn, K!After(pass)[n], pass)
           /\ \A m \in 0..n : Keeps(K!After(pass)[m], K!After(pass)[n])
<1> DEFINE A == K!After(pass)
           N == Len(fn.instrs)
           G == {ks \in KindMaps(fn) : Ready(fn, ks, pass)}
           S == {n \in Nat : \A m \in 0..n : n <= N => Keeps(A[m], A[n])}
<1>1. N \in Nat
  BY DEF BodyFits
<1>2. /\ A[0] = kinds
      /\ \A n \in 1..N : A[n] = K!Step(pass, A[n - 1], fn.instrs[n])
  BY AfterSteps DEF KindMaps
<1>0. BodyFits(fn) /\ kinds \in KindMaps(fn) /\ Ready(fn, kinds, pass) /\ pass \in Passes
  OBVIOUS
<1> HIDE DEF A, N
<1>3. ASSUME NEW n \in 1..N, A[n - 1] \in G PROVE A[n] \in G /\ Keeps(A[n - 1], A[n])
  <2>1. PICK ks \in KindMaps(fn) : ks = A[n - 1] /\ Ready(fn, ks, pass)
    BY <1>3
  <2>2. PICK ls : ls = K!Step(pass, ks, fn.instrs[n])
    OBVIOUS
  <2>3. ls \in KindMaps(fn) /\ Keeps(ks, ls)
    BY <1>0, <2>1, <2>2, StepKeepsToTypes DEF N
  <2>4. Ready(fn, ls, pass)
    BY <2>1, <2>3 DEF Ready, Keeps, Grounded, KindMaps
  <2>5. A[n] = ls
    BY <1>2, <2>1, <2>2
  <2> QED
    BY <2>1, <2>3, <2>4, <2>5
<1>4. \A n \in 0..N : A[n] \in G
  <2>1. A[0] \in G
    BY <1>0, <1>2
  <2> HIDE DEF G
  <2> QED
    BY <1>1, <1>3, <2>1, Onward
<1>5. 0..N \subseteq S
  <2>1. 0 \in S
    <3>1. Keeps(A[0], A[0])
      BY DEF Keeps
    <3> QED
      BY <3>1
  <2>2. ASSUME NEW n \in S, n < N PROVE n + 1 \in S
    <3>1. n \in Nat /\ n + 1 \in 1..N /\ (n + 1) - 1 = n /\ n \in 0..N
      BY <1>1, <2>2
    <3>2. A[n] \in G
      BY <1>4, <3>1
    <3>3. Keeps(A[n], A[n + 1])
      BY <1>3, <3>1, <3>2
    <3>4. ASSUME NEW m \in 0..(n + 1) PROVE Keeps(A[m], A[n + 1])
      <4>1. CASE m = n + 1
        BY <4>1 DEF Keeps
      <4>2. CASE m # n + 1
        <5>1. m \in 0..n /\ m \in 0..N
          BY <1>1, <2>2, <3>1, <4>2
        <5>2. Keeps(A[m], A[n])
          BY <2>2, <3>1, <5>1
        <5>3. DOMAIN A[m] = DOMAIN A[n]
          BY <1>4, <3>2, <5>1 DEF KindMaps
        <5> QED
          BY <3>3, <5>2, <5>3 DEF Keeps
      <4> QED
        BY <4>1, <4>2
    <3> QED
      BY <3>1, <3>4
  <2> HIDE DEF S
  <2>3. S \in SUBSET Nat
    BY DEF S
  <2> QED
    BY <1>1, <2>1, <2>2, <2>3, BoundedInduction
<1> QED
  BY <1>4, <1>5 DEF A, N

-----------------------------------------------------------------------------
(* What each pass finds.                                                   *)

ProducersKnown(ks) ==
  \A n \in 1..Len(fn.instrs) :
    fn.instrs[n].op \notin {"copy", "store"} => ks[fn.instrs[n].d] # K!Unknown

GroundedKnown(ks) == \A t \in Grounded(fn) : ks[t] # K!Unknown

OperandsAreNumbers(ks) ==
  \A n \in 1..Len(fn.instrs) :
    fn.instrs[n].op \in {"arith", "index", "store"} =>
      \A t \in Range(fn.instrs[n].args) : ks[t] = "F64"

\* No instruction of a pass changes these kinds.
Still(pass, ks) == \A n \in 1..Len(fn.instrs) : K!Step(pass, ks, fn.instrs[n]) = ks

\* A producer's result is known once the forward pass has met it.
LEMMA ClassifyFinds ==
  ASSUME NEW f, BodyFits(f), NEW n \in 1..Len(f.instrs), NEW ks \in KindMaps(f),
         f.instrs[n].op \notin {"copy", "store"}
  PROVE  K!Step("forward", ks, f.instrs[n])[f.instrs[n].d] # K!Unknown
<1> DEFINE i == f.instrs[n]
<1>1. i.op \in Basic /\ BasicFits(f, i) /\ i.op \notin {"copy", "store"}
  BY DEF BodyFits
<1>2. i.d \in DOMAIN f.types /\ DOMAIN ks = DOMAIN f.types
  BY <1>1 DEF BasicFits, KindMaps
<1>3. f.types[i.d] \in {"F64", "I1", "Ptr"}
  BY <1>2 DEF BodyFits, K!Kinds
<1>4. K!Step("forward", ks, i) = K!Classify(ks, i)
  BY DEF K!Step
<1> SUFFICES K!Step("forward", ks, i)[i.d] # K!Unknown
  OBVIOUS
<1> HIDE DEF i
<1>5. CASE i.op = "arith"
  BY <1>2, <1>4, <1>5 DEF K!Classify, K!Insert, K!Unknown
<1>6. CASE i.op = "compare"
  BY <1>2, <1>4, <1>6 DEF K!Classify, K!Insert, K!Unknown
<1>7. CASE i.op = "index"
  BY <1>1, <1>2, <1>3, <1>4, <1>7 DEF K!Classify, K!Insert, K!Unknown, BasicFits
<1>8. CASE i.op = "produce"
  BY <1>1, <1>2, <1>3, <1>4, <1>8
     DEF K!Classify, K!OrInsert, K!Insert, K!Unknown, BasicFits
<1> QED
  BY <1>1, <1>5, <1>6, <1>7, <1>8 DEF Basic

\* A copy of something known is known once the copies have been followed to it.
LEMMA PropagateFinds ==
  ASSUME NEW f, BodyFits(f), NEW n \in 1..Len(f.instrs), NEW ks \in KindMaps(f),
         f.instrs[n].op = "copy", ks[f.instrs[n].args[1]] # K!Unknown
  PROVE  K!Step("copies", ks, f.instrs[n])[f.instrs[n].d] # K!Unknown
<1> DEFINE i == f.instrs[n]
<1>1. BasicFits(f, i) /\ i.op = "copy" /\ ks[i.args[1]] # K!Unknown
  BY DEF BodyFits
<1>2. i.d \in DOMAIN f.types /\ DOMAIN ks = DOMAIN f.types
  BY <1>1 DEF BasicFits, KindMaps
<1>3. K!Step("copies", ks, i) = K!Propagate(ks, i)
  BY DEF K!Step
<1> HIDE DEF i
<1>4. K!Step("copies", ks, i)[i.d] # K!Unknown
  BY <1>1, <1>2, <1>3 DEF K!Propagate, K!Insert
<1> QED
  BY <1>4 DEF i

\* Operands of arithmetic are numbers once the backward pass has met them.
LEMMA DemandFinds ==
  ASSUME NEW f, BodyFits(f), NEW n \in 1..Len(f.instrs), NEW ks \in KindMaps(f),
         f.instrs[n].op \in {"arith", "index", "store"},
         NEW t \in Range(f.instrs[n].args)
  PROVE  K!Step("backward", ks, f.instrs[n])[t] = "F64"
<1> DEFINE i == f.instrs[n]
<1>1. BasicFits(f, i) /\ i.op \in {"arith", "index", "store"} /\ t \in Range(i.args)
  BY DEF BodyFits
<1>2. t \in DOMAIN ks
  BY <1>1 DEF BasicFits, KindMaps
<1>3. K!Step("backward", ks, i) = K!Demand(ks, i) /\ K!Range(i.args) = Range(i.args)
  BY DEF K!Step, K!Range, Range
<1> HIDE DEF i
<1>4. K!Step("backward", ks, i)[t] = "F64"
  BY <1>1, <1>2, <1>3 DEF K!Demand
<1> QED
  BY <1>4 DEF i

\* A pass as a whole.
LEMMA PassEffect ==
  ASSUME BodyFits(fn), kinds \in KindMaps(fn), changed \in BOOLEAN,
         NEW pass \in Passes, NEW then, Ready(fn, kinds, pass), K!Pass(pass, then)
  PROVE  /\ kinds' \in KindMaps(fn) /\ Keeps(kinds, kinds')
         /\ changed' \in BOOLEAN
         /\ ~ changed' => ~ changed /\ kinds' = kinds /\ Still(pass, kinds)
         /\ pass = "forward" => ProducersKnown(kinds')
         /\ pass = "copies" /\ ProducersKnown(kinds) => GroundedKnown(kinds')
         /\ pass = "backward" => OperandsAreNumbers(kinds')
<1> DEFINE A == K!After(pass)
           N == Len(fn.instrs)
<1>1. N \in Nat
  BY DEF BodyFits
<1>2. kinds' = A[N] /\ changed' = (changed \/ K!Touches(pass))
  BY DEF K!Pass
<1>3. /\ A[0] = kinds
      /\ \A n \in 1..N : A[n] = K!Step(pass, A[n - 1], fn.instrs[n])
  BY AfterSteps DEF KindMaps
<1>4. \A n \in 0..N : /\ A[n] \in KindMaps(fn)
                      /\ \A m \in 0..n : Keeps(A[m], A[n])
  BY PassKeepsToTypes
<1>5. kinds' \in KindMaps(fn) /\ Keeps(kinds, kinds')
  BY <1>1, <1>2, <1>3, <1>4
<1>6. changed' \in BOOLEAN
  BY <1>2 DEF K!Touches
<1>7. ASSUME ~ changed' PROVE ~ changed /\ kinds' = kinds /\ Still(pass, kinds)
  <2>1. ~ changed /\ \A n \in 1..N : A[n] = A[n - 1]
    BY <1>2, <1>7 DEF K!Touches
  <2> HIDE DEF A, N
  <2>2. \A n \in 0..N : A[n] \in {kinds}
    <3>1. A[0] \in {kinds} /\ \A n \in 1..N : A[n - 1] \in {kinds} => A[n] \in {kinds}
      BY <1>3, <2>1
    <3>2. PICK S : S = {kinds}
      OBVIOUS
    <3>3. A[0] \in S /\ \A n \in 1..N : A[n - 1] \in S => A[n] \in S
      BY <3>1, <3>2
    <3>4. \A n \in 0..N : A[n] \in S
      BY <1>1, <3>3, Onward
    <3> QED
      BY <3>2, <3>4
  <2>3. kinds' = kinds
    BY <1>1, <1>2, <2>2
  <2>4. ASSUME NEW n \in 1..N PROVE K!Step(pass, kinds, fn.instrs[n]) = kinds
    <3>1. n - 1 \in 0..N /\ n \in 0..N
      BY <1>1
    <3> QED
      BY <1>3, <2>2, <3>1
  <2> QED
    BY <2>1, <2>3, <2>4 DEF Still, N
<1>8. ASSUME NEW n \in 1..N
      PROVE  /\ A[n - 1] \in KindMaps(fn) /\ DOMAIN A[n] = DOMAIN fn.types
             /\ Keeps(A[n], kinds')
             /\ A[n] = K!Step(pass, A[n - 1], fn.instrs[n])
             /\ fn.instrs[n].op \in Basic /\ BasicFits(fn, fn.instrs[n])
  <2>1. n - 1 \in 0..N /\ n \in 0..N /\ N \in 0..N
    BY <1>1
  <2>2. A[n] \in KindMaps(fn) /\ Keeps(A[n], A[N])
    BY <1>4, <2>1
  <2>3. DOMAIN A[n] = DOMAIN fn.types
    BY <2>2 DEF KindMaps
  <2> QED
    BY <1>2, <1>3, <1>4, <2>1, <2>2, <2>3 DEF BodyFits
<1> HIDE DEF A
<1>9. ASSUME pass = "forward" PROVE ProducersKnown(kinds')
  <2> SUFFICES ASSUME NEW n \in 1..N, fn.instrs[n].op \notin {"copy", "store"}
               PROVE  kinds'[fn.instrs[n].d] # K!Unknown
    BY DEF ProducersKnown
  <2>1. fn.instrs[n].d \in DOMAIN A[n]
    BY <1>8 DEF BasicFits
  <2>2. A[n][fn.instrs[n].d] # K!Unknown
    <3>1. PICK ks \in KindMaps(fn) : ks = A[n - 1]
      BY <1>8
    <3>2. K!Step("forward", ks, fn.instrs[n])[fn.instrs[n].d] # K!Unknown
      BY ClassifyFinds
    <3> QED
      BY <1>8, <1>9, <3>1, <3>2
  <2> QED
    BY <1>8, <2>1, <2>2 DEF Keeps
<1>10. ASSUME pass = "backward" PROVE OperandsAreNumbers(kinds')
  <2> SUFFICES ASSUME NEW n \in 1..N, fn.instrs[n].op \in {"arith", "index", "store"},
                      NEW t \in Range(fn.instrs[n].args)
               PROVE  kinds'[t] = "F64"
    BY DEF OperandsAreNumbers
  <2>1. t \in DOMAIN A[n]
    BY <1>8 DEF BasicFits
  <2>2. A[n][t] = "F64"
    <3>1. PICK ks \in KindMaps(fn) : ks = A[n - 1]
      BY <1>8
    <3>2. K!Step("backward", ks, fn.instrs[n])[t] = "F64"
      BY DemandFinds
    <3> QED
      BY <1>8, <1>10, <3>1, <3>2
  <2> QED
    BY <1>8, <2>1, <2>2 DEF Keeps
<1>11. ASSUME pass = "copies", ProducersKnown(kinds) PROVE GroundedKnown(kinds')
  <2> SUFFICES ASSUME NEW u \in Grounded(fn) PROVE kinds'[u] # K!Unknown
    BY DEF GroundedKnown
  <2>1. PICK first \in Orders(fn) : first[u] # 0
    BY DEF Grounded
  <2> DEFINE Known(n) == \A t \in DOMAIN fn.types : first[t] \in 1..n => A[n][t] # K!Unknown
             S == {n \in Nat : n <= N => Known(n)}
  <2>2. ASSUME NEW t \in DOMAIN fn.types, first[t] # 0
        PROVE  /\ first[t] \in 1..N
               /\ fn.instrs[first[t]].d = t /\ fn.instrs[first[t]].op # "store"
               /\ fn.instrs[first[t]].op = "copy" =>
                    first[fn.instrs[first[t]].args[1]] \in 1..(first[t] - 1)
    <3>1. first[t] \in 0..N
      BY DEF Orders
    <3> QED
      BY <1>1, <2>2, <3>1 DEF Orders
  <2>3. 0 \in S
    OBVIOUS
  <2>4. ASSUME NEW n \in S, n < N PROVE n + 1 \in S
    <3>1. n \in Nat /\ n + 1 \in 1..N /\ (n + 1) - 1 = n /\ n \in 0..N /\ n + 1 \in 0..N
          /\ n \in 0..(n + 1) /\ 0 \in 0..(n + 1)
      BY <1>1, <2>4
    <3>2. Known(n)
      BY <2>4, <3>1
    <3>3. ASSUME NEW t \in DOMAIN fn.types, first[t] \in 1..(n + 1)
          PROVE  A[n + 1][t] # K!Unknown
      <4>1. CASE first[t] \in 1..n
        <5>1. A[n][t] # K!Unknown /\ Keeps(A[n], A[n + 1]) /\ A[n] \in KindMaps(fn)
          BY <1>4, <3>1, <3>2, <4>1
        <5>2. t \in DOMAIN A[n]
          BY <5>1 DEF KindMaps
        <5> QED
          BY <5>1, <5>2 DEF Keeps
      <4>2. CASE first[t] = n + 1
        <5> DEFINE i == fn.instrs[n + 1]
        <5>1. /\ i.d = t /\ i.op # "store"
              /\ i.op = "copy" => first[i.args[1]] \in 1..n
          <6>1. first[t] # 0 /\ first[t] - 1 = n
            BY <3>1, <4>2
          <6> QED
            BY <2>2, <4>2, <6>1
        <5>2. CASE i.op = "copy"
          <6>1. i.args[1] \in DOMAIN fn.types
            BY <1>8, <3>1, <5>2 DEF BasicFits
          <6>2. A[n][i.args[1]] # K!Unknown
            BY <3>2, <5>1, <5>2, <6>1
          <6>3. PICK ks \in KindMaps(fn) : ks = A[n]
            BY <1>4, <3>1
          <6>4. K!Step("copies", ks, fn.instrs[n + 1])[fn.instrs[n + 1].d] # K!Unknown
            BY <3>1, <5>2, <6>2, <6>3, PropagateFinds
          <6>5. A[n + 1] = K!Step(pass, A[(n + 1) - 1], fn.instrs[n + 1])
            BY <1>3, <3>1
          <6> QED
            BY <1>11, <3>1, <5>1, <6>3, <6>4, <6>5
        <5>3. CASE i.op # "copy"
          <6>1. kinds[t] # K!Unknown
            BY <1>11, <3>1, <5>1, <5>3 DEF ProducersKnown
          <6>2. Keeps(A[0], A[n + 1]) /\ t \in DOMAIN A[0]
            BY <1>3, <1>4, <3>1 DEF KindMaps
          <6> QED
            BY <1>3, <6>1, <6>2 DEF Keeps
        <5> QED
          BY <5>2, <5>3
      <4> QED
        BY <3>1, <3>3, <4>1, <4>2
    <3> QED
      BY <3>1, <3>3
  <2>5. N \in S
    <3>1. S \in SUBSET Nat
      OBVIOUS
    <3> HIDE DEF S
    <3>2. 0..N \subseteq S
      BY <1>1, <2>3, <2>4, <3>1, BoundedInduction
    <3> QED
      BY <1>1, <3>2
  <2>6. u \in DOMAIN fn.types /\ first[u] \in 1..N
    BY <2>1, <2>2 DEF Grounded
  <2> QED
    BY <1>1, <1>2, <2>5, <2>6 DEF A
<1> QED
  BY <1>5, <1>6, <1>7, <1>9, <1>10, <1>11

-----------------------------------------------------------------------------
(* The inference of one function.                                          *)

\* What is known of the kinds before each pass: the flag says whether this
\* round has changed anything, and if it has not its passes have nothing left
\* to change.
InferenceInv ==
  /\ BodyFits(fn)
  /\ kinds \in KindMaps(fn)
  /\ phase \in Passes \cup {"test", "done"} /\ changed \in BOOLEAN
  /\ phase \in {"forward", "done"} => ~ changed
  /\ phase # "forward" => ProducersKnown(kinds)
  /\ phase \in {"backward", "test", "done"} => GroundedKnown(kinds)
  /\ phase \in {"test", "done"} => OperandsAreNumbers(kinds)
  /\ ~ changed /\ phase # "forward" => Still("forward", kinds)
  /\ ~ changed /\ phase \in {"backward", "test", "done"} => Still("copies", kinds)
  /\ ~ changed /\ phase \in {"test", "done"} => Still("backward", kinds)

\* The invariant before a pass, after it, and what the pass keeps.
LEMMA PassesKeepInvariant ==
  ASSUME InferenceInv, K!Forward \/ K!Copies \/ K!Backward \/ K!Test
  PROVE  InferenceInv' /\ Keeps(kinds, kinds')
<1>0. /\ BodyFits(fn) /\ kinds \in KindMaps(fn) /\ changed \in BOOLEAN
      /\ DOMAIN kinds = DOMAIN fn.types
  BY DEF InferenceInv, KindMaps
<1>1. fn' = fn /\ (BodyFits(fn))'
  <2>1. fn' = fn
    BY DEF K!Forward, K!Copies, K!Backward, K!Pass, K!Test
  <2> QED
    BY <1>0, <2>1
<1>2. ASSUME NEW ks, ProducersKnown(ks), Keeps(ks, kinds'), DOMAIN ks = DOMAIN fn.types
      PROVE  ProducersKnown(kinds')
  BY <1>0, <1>2 DEF ProducersKnown, Keeps, BodyFits, BasicFits
<1>3. ASSUME NEW ks, GroundedKnown(ks), Keeps(ks, kinds'), DOMAIN ks = DOMAIN fn.types
      PROVE  GroundedKnown(kinds')
  BY <1>3 DEF GroundedKnown, Keeps, Grounded
<1>p. /\ (ProducersKnown(kinds))' <=> ProducersKnown(kinds')
      /\ (GroundedKnown(kinds))' <=> GroundedKnown(kinds')
      /\ (OperandsAreNumbers(kinds))' <=> OperandsAreNumbers(kinds')
      /\ \A pass \in Passes : (Still(pass, kinds))' <=> Still(pass, kinds')
  BY <1>1 DEF ProducersKnown, GroundedKnown, OperandsAreNumbers, Still
<1>k. (kinds \in KindMaps(fn))' <=> kinds' \in KindMaps(fn)
  BY <1>1
<1>4. CASE K!Forward
  <2>1. phase = "forward" /\ phase' = "copies" /\ K!Pass("forward", "copies")
    BY <1>4 DEF K!Forward, K!Pass
  <2>2. "forward" \in Passes /\ Ready(fn, kinds, "forward")
    BY DEF Passes, Ready
  <2>3. /\ kinds' \in KindMaps(fn) /\ Keeps(kinds, kinds') /\ changed' \in BOOLEAN
        /\ ~ changed' => ~ changed /\ kinds' = kinds /\ Still("forward", kinds)
        /\ ProducersKnown(kinds')
    BY <1>0, <2>1, <2>2, PassEffect
  <2> QED
    BY <1>1, <1>p, <1>k, <2>1, <2>2, <2>3 DEF InferenceInv, Passes
<1>5. CASE K!Copies
  <2>1. phase = "copies" /\ phase' = "backward" /\ K!Pass("copies", "backward")
    BY <1>5 DEF K!Copies, K!Pass
  <2>2. "copies" \in Passes /\ Ready(fn, kinds, "copies") /\ "forward" \in Passes
    BY DEF Passes, Ready
  <2>3. ProducersKnown(kinds) /\ (~ changed => Still("forward", kinds))
    BY <2>1 DEF InferenceInv
  <2>4. /\ kinds' \in KindMaps(fn) /\ Keeps(kinds, kinds') /\ changed' \in BOOLEAN
        /\ ~ changed' => ~ changed /\ kinds' = kinds /\ Still("copies", kinds)
        /\ GroundedKnown(kinds')
    BY <1>0, <2>1, <2>2, <2>3, PassEffect
  <2>5. ProducersKnown(kinds')
    BY <1>0, <1>2, <2>3, <2>4
  <2> QED
    BY <1>1, <1>p, <1>k, <2>1, <2>2, <2>3, <2>4, <2>5 DEF InferenceInv, Passes
<1>6. CASE K!Backward
  <2>1. phase = "backward" /\ phase' = "test" /\ K!Pass("backward", "test")
    BY <1>6 DEF K!Backward, K!Pass
  <2>2. /\ ProducersKnown(kinds) /\ GroundedKnown(kinds)
        /\ ~ changed => Still("forward", kinds) /\ Still("copies", kinds)
    BY <2>1 DEF InferenceInv
  <2>3. Passes = {"forward", "copies", "backward"} /\ Ready(fn, kinds, "backward")
    BY <2>2 DEF Passes, Ready, GroundedKnown
  <2>4. /\ kinds' \in KindMaps(fn) /\ Keeps(kinds, kinds') /\ changed' \in BOOLEAN
        /\ ~ changed' => ~ changed /\ kinds' = kinds /\ Still("backward", kinds)
        /\ OperandsAreNumbers(kinds')
    BY <1>0, <2>1, <2>2, <2>3, PassEffect
  <2>5. ProducersKnown(kinds') /\ GroundedKnown(kinds')
    BY <1>0, <1>2, <1>3, <2>2, <2>4
  <2> QED
    BY <1>1, <1>p, <1>k, <2>1, <2>2, <2>3, <2>4, <2>5 DEF InferenceInv
<1>7. CASE K!Test
  <2>1. /\ phase = "test" /\ changed' = FALSE /\ kinds' = kinds
        /\ phase' = IF changed THEN "forward" ELSE "done"
    BY <1>7 DEF K!Test
  <2>2. /\ ProducersKnown(kinds) /\ GroundedKnown(kinds) /\ OperandsAreNumbers(kinds)
        /\ ~ changed => /\ Still("forward", kinds) /\ Still("copies", kinds)
                        /\ Still("backward", kinds)
    BY <2>1 DEF InferenceInv
  <2>3. Keeps(kinds, kinds') /\ Passes = {"forward", "copies", "backward"}
    BY <2>1 DEF Keeps, Passes
  <2> QED
    BY <1>0, <1>1, <1>p, <1>k, <2>1, <2>2, <2>3 DEF InferenceInv
<1> QED
  BY <1>4, <1>5, <1>6, <1>7

\* What the invariant says of a finished inference: KindsAreTheTypes.
LEMMA FinishedKindsAreTheTypes ==
  ASSUME InferenceInv PROVE KindsAreTheTypes
<1> SUFFICES ASSUME phase = "done"
             PROVE  /\ \A t \in DOMAIN fn.types :
                         \/ kinds[t] \in {fn.types[t], "Ptr"}
                         \/ kinds[t] = K!Unknown /\ \A i \in K!Range(fn.instrs) :
                              i.d = t => i.op = "copy" /\ kinds[i.args[1]] = K!Unknown
                    /\ \A i \in K!Range(fn.instrs) :
                         i.op \in {"arith", "index", "store"} =>
                           \A t \in K!Range(i.args) : kinds[t] = "F64"
  BY DEF KindsAreTheTypes, K!KindsAreTheTypes, K!Done, K!Temps
<1>1. /\ BodyFits(fn) /\ kinds \in KindMaps(fn)
      /\ ProducersKnown(kinds) /\ OperandsAreNumbers(kinds) /\ Still("copies", kinds)
  BY DEF InferenceInv
<1>2. \A i \in K!Range(fn.instrs) : \E n \in 1..Len(fn.instrs) : i = fn.instrs[n]
  BY <1>1 DEF BodyFits, K!Range
<1>3. ASSUME NEW t \in DOMAIN fn.types, kinds[t] \notin {fn.types[t], "Ptr"},
             NEW i \in K!Range(fn.instrs), i.d = t
      PROVE  kinds[t] = K!Unknown /\ i.op = "copy" /\ kinds[i.args[1]] = K!Unknown
  <2>1. kinds[t] = K!Unknown /\ DOMAIN kinds = DOMAIN fn.types
    BY <1>1, <1>3 DEF KindMaps
  <2>2. PICK n \in 1..Len(fn.instrs) : i = fn.instrs[n]
    BY <1>2
  <2>3. i.op \in {"copy", "store"}
    BY <1>1, <1>3, <2>1, <2>2 DEF ProducersKnown
  <2>4. i.op # "store"
    <3>1. 0 \notin DOMAIN fn.types
      BY <1>1 DEF BodyFits
    <3> QED
      BY <1>1, <1>3, <2>2, <3>1 DEF BodyFits, BasicFits
  <2>5. kinds[i.args[1]] = K!Unknown
    <3>1. PICK ks \in KindMaps(fn) : ks = kinds
      BY <1>1
    <3> SUFFICES ASSUME ks[fn.instrs[n].args[1]] # K!Unknown PROVE FALSE
      BY <2>2, <3>1
    <3>2. K!Step("copies", ks, fn.instrs[n])[fn.instrs[n].d] # K!Unknown
      BY <1>1, <2>2, <2>3, <2>4, PropagateFinds
    <3>3. K!Step("copies", ks, fn.instrs[n]) = ks
      BY <1>1, <3>1 DEF Still
    <3> QED
      BY <1>3, <2>1, <2>2, <3>1, <3>2, <3>3
  <2> QED
    BY <2>1, <2>3, <2>4, <2>5
<1>4. ASSUME NEW i \in K!Range(fn.instrs), i.op \in {"arith", "index", "store"},
             NEW t \in K!Range(i.args)
      PROVE  kinds[t] = "F64"
  <2>1. t \in Range(i.args)
    BY DEF K!Range, Range
  <2> QED
    BY <1>1, <1>2, <1>4, <2>1 DEF OperandsAreNumbers
<1> QED
  BY <1>1, <1>3, <1>4 DEF KindMaps

\* Where the invariant says so, another pass would touch nothing.
LEMMA FinishedIsAFixpoint ==
  ASSUME InferenceInv PROVE K!StopsAtFixpoint
<1> SUFFICES ASSUME phase = "done", NEW pass \in Passes PROVE ~ K!Touches(pass)
  BY DEF K!StopsAtFixpoint, K!Done, Passes
<1> DEFINE A == K!After(pass)
           N == Len(fn.instrs)
<1>1. BodyFits(fn) /\ kinds \in [DOMAIN fn.types -> Inferred] /\ N \in Nat
  BY DEF InferenceInv, KindMaps, BodyFits
<1>2. /\ A[0] = kinds
      /\ \A n \in 1..N : A[n] = K!Step(pass, A[n - 1], fn.instrs[n])
  BY <1>1, AfterSteps
<1>3. \A n \in 1..N : K!Step(pass, kinds, fn.instrs[n]) = kinds
  BY DEF InferenceInv, Still, Passes
<1> HIDE DEF A, N
<1>4. \A n \in 0..N : A[n] \in {kinds}
  <2>1. PICK S : S = {kinds}
    OBVIOUS
  <2>2. A[0] \in S /\ \A n \in 1..N : A[n - 1] \in S => A[n] \in S
    BY <1>2, <1>3, <2>1
  <2>3. \A n \in 0..N : A[n] \in S
    BY <1>1, <2>2, Onward
  <2> QED
    BY <2>1, <2>3
<1>5. ASSUME NEW n \in 1..N PROVE A[n] = A[n - 1]
  <2>1. n \in 0..N /\ n - 1 \in 0..N
    BY <1>1
  <2> QED
    BY <1>4, <2>1
<1> QED
  BY <1>5 DEF K!Touches, A, N

-----------------------------------------------------------------------------
(* Resolving the calls of a body.                                          *)

\* The kinds recorded for names agree with a typing.
KindsFit(r, sig) ==
  \A n \in DOMAIN r : n[2] \in DOMAIN sig /\ r[n] \in {sig[n[2]], "Ptr"}

\* A lookup by one short name, under whatever owners, finds a kind of the
\* typing, or a pointer.
LEMMA FirstKnownFits ==
  ASSUME NEW r, NEW sig, KindsFit(r, sig), NEW m \in DOMAIN sig,
         NEW names, DOMAIN names \in SUBSET Nat, \A n \in DOMAIN names : names[n][2] = m
  PROVE  FirstKnown(r, names) \in {sig[m], "Ptr"}
<1> DEFINE known == {n \in DOMAIN names : names[n] \in DOMAIN r}
<1>1. CASE known = {}
  BY <1>1 DEF FirstKnown
<1>2. CASE known # {}
  <2>1. known \in SUBSET Nat
    OBVIOUS
  <2>2. \E n \in known : \A p \in known : n <= p
    <3> HIDE DEF known
    <3> QED
      BY <1>2, <2>1, LeastNumber
  <2>3. Min(known) \in known
    <3> HIDE DEF known
    <3> QED
      BY <2>2 DEF Min
  <2>4. FirstKnown(r, names) = r[names[Min(known)]]
    BY <1>2 DEF FirstKnown
  <2> QED
    BY <2>3, <2>4 DEF KindsFit
<1> QED
  BY <1>1, <1>2

\* An instruction whose kind has come from elsewhere.
LEMMA MadeProducer ==
  ASSUME NEW i \in AnyInstruction, NEW k \in K!Kinds
  PROVE  LET j == [i EXCEPT !.op = "produce", !.kind = k]
         IN  /\ j \in AnyInstruction /\ j.op = "produce" /\ j.kind = k
             /\ j.d = i.d /\ j.args = i.args
<1> DEFINE x == [i EXCEPT !.op = "produce"]
<1>1. "produce" \in Basic \cup Calls /\ k \in K!Kinds \cup {""}
  BY DEF Basic
<1>2. /\ x \in AnyInstruction /\ x.op = "produce" /\ x.d = i.d /\ x.args = i.args
  BY <1>1 DEF AnyInstruction
<1>3. [i EXCEPT !.op = "produce", !.kind = k] = [x EXCEPT !.kind = k]
  OBVIOUS
<1> HIDE DEF x
<1>4. LET j == [x EXCEPT !.kind = k]
      IN  /\ j \in AnyInstruction /\ j.op = x.op /\ j.kind = k
          /\ j.d = x.d /\ j.args = x.args
  BY <1>1, <1>2 DEF AnyInstruction
<1> QED
  BY <1>2, <1>3, <1>4

\* The kind a call is given is that of its result, or a pointer.
LEMMA ReturnedFits ==
  ASSUME NEW p, NEW sig, NEW f, FunctionFits(p, sig, f),
         NEW r, KindsFit(r, sig), NEW ts,
         NEW n \in 1..Len(f.instrs), f.instrs[n].op \in Calls
  PROVE  Returned(r, ts, f.instrs[n]) \in {f.types[f.instrs[n].d], "Ptr"}
<1> DEFINE i == f.instrs[n]
<1>1. CallFits(p, sig, f, i) /\ i \in AnyInstruction /\ i.op \in Calls
  BY DEF FunctionFits
<1> HIDE DEF i
<1>s. SUFFICES Returned(r, ts, i) \in {f.types[i.d], "Ptr"}
  BY DEF i
<1>2. CASE i.op \in {"new", "cast"}
  BY <1>2 DEF Returned
<1>3. CASE i.op \in {"call", "static", "method"}
  <2>1. i.name[2] \in DOMAIN sig /\ f.types[i.d] = sig[i.name[2]]
    BY <1>1, <1>3 DEF CallFits
  <2>2. PICK m \in DOMAIN sig : m = i.name[2]
    BY <2>1
  <2>3. CASE i.op = "method"
    <3>1. PICK names : names = <<<<ts[i.args[1]], i.name[2]>>, Short(i.name)>>
      OBVIOUS
    <3>2. DOMAIN names \in SUBSET Nat /\ \A k \in DOMAIN names : names[k][2] = m
      <4>1. names[1][2] = m /\ names[2][2] = m
        BY <2>2, <3>1 DEF Short
      <4>2. DOMAIN names = 1..2
        BY <3>1
      <4> QED
        BY <4>1, <4>2
    <3>3. FirstKnown(r, names) \in {sig[m], "Ptr"}
      BY <3>2, FirstKnownFits
    <3> QED
      BY <2>1, <2>2, <2>3, <3>1, <3>3 DEF Returned
  <2>4. CASE i.op = "static"
    <3>1. PICK names : names = <<i.name, Short(i.name)>>
      OBVIOUS
    <3>2. DOMAIN names \in SUBSET Nat /\ \A k \in DOMAIN names : names[k][2] = m
      <4>1. names[1][2] = m /\ names[2][2] = m
        BY <2>2, <3>1 DEF Short
      <4>2. DOMAIN names = 1..2
        BY <3>1
      <4> QED
        BY <4>1, <4>2
    <3>3. FirstKnown(r, names) \in {sig[m], "Ptr"}
      BY <3>2, FirstKnownFits
    <3> QED
      BY <2>1, <2>2, <2>4, <3>1, <3>3 DEF Returned
  <2>5. CASE i.op = "call"
    <3>1. PICK names : names = <<i.name>>
      OBVIOUS
    <3>2. DOMAIN names \in SUBSET Nat /\ \A k \in DOMAIN names : names[k][2] = m
      BY <2>2, <3>1
    <3>3. FirstKnown(r, names) \in {sig[m], "Ptr"}
      BY <3>2, FirstKnownFits
    <3> QED
      BY <2>1, <2>2, <2>5, <3>1, <3>3 DEF Returned
  <2> QED
    BY <1>3, <2>3, <2>4, <2>5
<1> QED
  BY <1>1, <1>2, <1>3 DEF Calls

\* A body that fits its program fits the inference once its calls are resolved.
LEMMA ResolvedBodyFits ==
  ASSUME NEW p, NEW sig, NEW f, FunctionFits(p, sig, f),
         NEW r, KindsFit(r, sig), NEW s
  PROVE  BodyFits(Resolve(r, s, f)) /\ Resolve(r, s, f).types = f.types
<1> DEFINE N   == Len(f.instrs)
           ts  == TempStructs(s, f)
           is  == [n \in DOMAIN f.instrs |->
                     IF f.instrs[n].op \in Calls
                     THEN [f.instrs[n] EXCEPT !.op = "produce",
                                              !.kind = Returned(r, ts, f.instrs[n])]
                     ELSE f.instrs[n]]
           g   == Resolve(r, s, f)
<1>0. f.types \in Seq(K!Kinds) /\ f.instrs \in Seq(AnyInstruction) /\ N \in Nat
      /\ DOMAIN f.instrs = 1..N
  BY DEF FunctionFits
<1>1. g = [instrs |-> is, types |-> f.types]
  BY DEF Resolve
<1> HIDE DEF ts, g
<1>2. g.instrs = is /\ g.types = f.types
  BY <1>1
<1>3. ASSUME NEW n \in 1..N
      PROVE  /\ is[n] \in AnyInstruction /\ is[n].d = f.instrs[n].d
             /\ is[n].args = f.instrs[n].args
             /\ IF f.instrs[n].op \in Calls
                THEN is[n].op = "produce" /\ is[n].kind = Returned(r, ts, f.instrs[n])
                ELSE is[n] = f.instrs[n]
  <2>1. f.instrs[n] \in AnyInstruction /\ n \in DOMAIN f.instrs
    BY <1>0
  <2>2. CASE f.instrs[n].op \in Calls
    <3>1. PICK i \in AnyInstruction : i = f.instrs[n]
      BY <2>1
    <3>2. Returned(r, ts, f.instrs[n]) \in {f.types[f.instrs[n].d], "Ptr"}
      BY <2>2, ReturnedFits
    <3>3. f.types[f.instrs[n].d] \in K!Kinds
      BY <1>0, <2>2 DEF FunctionFits, CallFits
    <3>4. PICK k \in K!Kinds : k = Returned(r, ts, f.instrs[n])
      BY <3>2, <3>3 DEF K!Kinds
    <3>5. is[n] = [i EXCEPT !.op = "produce", !.kind = k]
      BY <2>1, <2>2, <3>1, <3>4
    <3> HIDE DEF is
    <3>6. LET j == [i EXCEPT !.op = "produce", !.kind = k]
          IN  /\ j \in AnyInstruction /\ j.op = "produce" /\ j.kind = k
              /\ j.d = i.d /\ j.args = i.args
      BY MadeProducer
    <3> QED
      BY <2>2, <3>1, <3>4, <3>5, <3>6
  <2>3. CASE f.instrs[n].op \notin Calls
    BY <2>1, <2>3
  <2> QED
    BY <2>2, <2>3
<1>4. is \in Seq(AnyInstruction) /\ Len(is) = N
  <2>1. is \in [1..N -> AnyInstruction]
    <3>1. DOMAIN is = 1..N /\ is = [n \in 1..N |-> is[n]]
      BY <1>0
    <3> HIDE DEF is
    <3> QED
      BY <1>3, <3>1
  <2> HIDE DEF is, N
  <2> QED
    BY <1>0, <2>1
<1> HIDE DEF is
<1>5. Calls \cap {"copy", "store", "arith", "index", "compare", "produce"} = {}
  BY DEF Calls
<1>6. Grounded(f) \subseteq Grounded(g)
  <2>1. ASSUME NEW first \in Orders(f) PROVE first \in Orders(g)
    <3>1. first \in [DOMAIN g.types -> 0..Len(g.instrs)]
      BY <1>2, <1>4 DEF Orders
    <3>2. ASSUME NEW t \in DOMAIN g.types, first[t] # 0
          PROVE  /\ g.instrs[first[t]].d = t /\ g.instrs[first[t]].op # "store"
                 /\ g.instrs[first[t]].op = "copy" =>
                      first[g.instrs[first[t]].args[1]] \in 1..(first[t] - 1)
      <4>1. PICK n \in 1..N : n = first[t]
        BY <1>0, <1>2, <1>4, <3>1, <3>2
      <4>2. /\ f.instrs[n].d = t /\ f.instrs[n].op # "store"
            /\ f.instrs[n].op = "copy" => first[f.instrs[n].args[1]] \in 1..(n - 1)
        BY <1>2, <3>2, <4>1 DEF Orders
      <4>3. CASE f.instrs[n].op \in Calls
        BY <1>2, <1>3, <4>1, <4>2, <4>3
      <4>4. CASE f.instrs[n].op \notin Calls
        BY <1>2, <1>3, <4>1, <4>2, <4>4
      <4> QED
        BY <4>3, <4>4
    <3> QED
      BY <3>1, <3>2 DEF Orders
  <2> QED
    BY <1>2, <2>1 DEF Grounded
<1>7. ASSUME NEW n \in 1..N PROVE is[n].op \in Basic /\ BasicFits(g, is[n])
  <2>1. CASE f.instrs[n].op \in Calls
    <3>1. CallFits(p, sig, f, f.instrs[n])
      BY <2>1 DEF FunctionFits
    <3>2. Returned(r, ts, f.instrs[n]) \in {f.types[f.instrs[n].d], "Ptr"}
      BY <2>1, ReturnedFits
    <3>3. is[n].op = "produce" /\ is[n].kind \in {g.types[is[n].d], "Ptr"}
      BY <1>2, <1>3, <2>1, <3>2
    <3>4. is[n].d \in DOMAIN g.types /\ Range(is[n].args) \subseteq DOMAIN g.types
      BY <1>2, <1>3, <3>1 DEF CallFits
    <3> QED
      BY <3>3, <3>4 DEF Basic, BasicFits
  <2>2. CASE f.instrs[n].op \notin Calls
    <3>1. is[n] = f.instrs[n] /\ f.instrs[n] \in AnyInstruction
      BY <1>0, <1>3, <2>2
    <3>2. f.instrs[n].op \in Basic
      BY <2>2, <3>1 DEF AnyInstruction
    <3>3. BasicFits(f, f.instrs[n])
      BY <3>2 DEF FunctionFits
    <3> QED
      BY <1>2, <1>6, <3>1, <3>2, <3>3 DEF BasicFits
  <2> QED
    BY <2>1, <2>2
<1> QED
  BY <1>0, <1>2, <1>4, <1>7 DEF BodyFits, g

-----------------------------------------------------------------------------
(* Recording kinds.                                                        *)

\* A name that only methods are looked up under, as far as f is concerned.
NotOf(f, n) == n[1] = "" /\ (f.owner = "" => f.name # n[2])

\* What is recorded agrees with the typing, and a method's short name keeps a
\* concrete kind.
LEMMA RecordedFits ==
  ASSUME NEW r, NEW sig, KindsFit(r, sig), NEW f, f.name \in DOMAIN sig,
         NEW k \in {sig[f.name], "Ptr"}
  PROVE  /\ KindsFit(Recorded(r, f, k), sig)
         /\ \A n \in DOMAIN r : r[n] \in {"F64", "I1"} /\ NotOf(f, n) =>
              n \in DOMAIN Recorded(r, f, k) /\ Recorded(r, f, k)[n] = r[n]
<1> DEFINE own  == Enter(r, Name(f), k)
           both == Enter(own, Short(Name(f)), k)
           new  == Recorded(r, f, k)
<1>1. /\ Name(f)[2] = f.name /\ Short(Name(f))[2] = f.name
      /\ Name(f)[1] = f.owner /\ Short(Name(f))[1] = ""
  BY DEF Name, Short
<1>2. /\ DOMAIN own = DOMAIN r \cup {Name(f)} /\ own[Name(f)] = k
      /\ \A n \in DOMAIN r : n # Name(f) => own[n] = r[n]
  BY DEF Enter
<1>3. /\ DOMAIN both = DOMAIN own \cup {Short(Name(f))} /\ both[Short(Name(f))] = k
      /\ \A n \in DOMAIN own : n # Short(Name(f)) => both[n] = own[n]
  BY DEF Enter
<1>4. /\ new = own \/ new = both
      /\ new = both /\ new # own => f.owner # "" /\ Find(own, Short(Name(f)), "Ptr") = "Ptr"
  BY DEF Recorded
<1> HIDE DEF own, both, new
<1>5. KindsFit(own, sig)
  BY <1>1, <1>2 DEF KindsFit
<1>6. KindsFit(both, sig)
  BY <1>1, <1>3, <1>5 DEF KindsFit
<1>7. ASSUME NEW n \in DOMAIN r, r[n] \in {"F64", "I1"}, NotOf(f, n)
      PROVE  n \in DOMAIN new /\ new[n] = r[n]
  <2>1. n # Name(f)
    BY <1>1, <1>7 DEF NotOf
  <2>2. n \in DOMAIN own /\ own[n] = r[n]
    BY <1>2, <2>1
  <2>3. CASE new = own
    BY <2>2, <2>3
  <2>4. CASE new = both /\ new # own
    <3>1. n # Short(Name(f))
      BY <1>4, <1>7, <2>2, <2>4 DEF Find
    <3> QED
      BY <1>3, <2>2, <2>4, <3>1
  <2> QED
    BY <1>4, <2>3, <2>4
<1> QED
  BY <1>4, <1>5, <1>6, <1>7 DEF new

\* The kind of a group is that of the typing, or nothing is known.
LEMMA BestFits ==
  ASSUME NEW r, NEW sig, KindsFit(r, sig), NEW g, NEW m, Best(r, g, m) # "Ptr"
  PROVE  m \in DOMAIN sig /\ Best(r, g, m) = sig[m]
<1>1. PICK x : Best(r, g, m) = Find(r, <<x, m>>, "Ptr")
  BY DEF Best
<1>2. <<x, m>> \in DOMAIN r /\ Best(r, g, m) = r[<<x, m>>]
  BY <1>1 DEF Find
<1> QED
  BY <1>2 DEF KindsFit

\* Unifying a group agrees with the typing, and changes no concrete kind.
LEMMA UnifiedFits ==
  ASSUME NEW r, NEW sig, KindsFit(r, sig), NEW g, NEW m
  PROVE  /\ KindsFit(UnifyGroup(r, g, m), sig)
         /\ DOMAIN r \subseteq DOMAIN UnifyGroup(r, g, m)
         /\ DOMAIN UnifyGroup(r, g, m) \subseteq DOMAIN r \cup {<<"", m>>}
         /\ \A n \in DOMAIN r : r[n] \in {"F64", "I1"} => UnifyGroup(r, g, m)[n] = r[n]
<1> DEFINE new == UnifyGroup(r, g, m)
<1>1. CASE Best(r, g, m) = "Ptr"
  BY <1>1 DEF UnifyGroup
<1>2. CASE Best(r, g, m) # "Ptr"
  <2>1. m \in DOMAIN sig /\ Best(r, g, m) = sig[m]
    BY <1>2, BestFits
  <2>2. new = [n \in DOMAIN r \cup {<<"", m>>} |->
                 IF n[2] = m /\ n[1] \in Range(g) \cup {""} THEN sig[m] ELSE r[n]]
    BY <1>2, <2>1 DEF UnifyGroup
  <2> HIDE DEF new
  <2>3. DOMAIN new = DOMAIN r \cup {<<"", m>>}
    BY <2>2
  <2>4. ASSUME NEW n \in DOMAIN new
        PROVE  n[2] \in DOMAIN sig /\ new[n] \in {sig[n[2]], "Ptr"}
    <3>1. CASE n[2] = m /\ n[1] \in Range(g) \cup {""}
      BY <2>1, <2>2, <2>3, <3>1
    <3>2. CASE ~ (n[2] = m /\ n[1] \in Range(g) \cup {""})
      <4>0. <<"", m>>[2] = m /\ <<"", m>>[1] = "" /\ "" \in Range(g) \cup {""}
        OBVIOUS
      <4>1. n # <<"", m>>
        BY <3>2, <4>0
      <4>2. n \in DOMAIN r /\ new[n] = r[n]
        BY <2>2, <2>3, <3>2, <4>1
      <4> QED
        BY <4>2 DEF KindsFit
    <3> QED
      BY <3>1, <3>2
  <2>5. ASSUME NEW n \in DOMAIN r, r[n] \in {"F64", "I1"} PROVE new[n] = r[n]
    <3>1. r[n] = sig[n[2]]
      BY <2>5 DEF KindsFit
    <3> QED
      BY <2>2, <2>5, <3>1
  <2> QED
    BY <2>3, <2>4, <2>5 DEF KindsFit, new
<1> QED
  BY <1>1, <1>2

-----------------------------------------------------------------------------
(* The types of returned objects.                                          *)

TypesOf(p) == DOMAIN Parents(p.types)

\* Maps of names of functions to types.
StructMaps(p) == UNION {[X -> TypesOf(p)] : X \in SUBSET {Name(f) : f \in FunctionsOf(p)}}

\* A member of two lists put together is a member of one of them.
LEMMA InConcatenation ==
  ASSUME NEW S, NEW a \in Seq(S), NEW b \in Seq(S)
  PROVE  /\ Len(a \o b) \in Nat
         /\ \A n \in 1..Len(a \o b) : (a \o b)[n] \in Range(a) \cup Range(b)
<1>1. /\ Len(a) \in Nat /\ Len(b) \in Nat /\ Len(a \o b) = Len(a) + Len(b)
      /\ DOMAIN a = 1..Len(a) /\ DOMAIN b = 1..Len(b)
  OBVIOUS
<1>2. ASSUME NEW n \in 1..Len(a \o b) PROVE (a \o b)[n] \in Range(a) \cup Range(b)
  <2>1. CASE n <= Len(a)
    <3>1. (a \o b)[n] = a[n] /\ n \in DOMAIN a
      BY <1>1, <2>1
    <3> QED
      BY <3>1 DEF Range
  <2>2. CASE ~ (n <= Len(a))
    <3>1. (a \o b)[n] = b[n - Len(a)] /\ n - Len(a) \in DOMAIN b
      BY <1>1, <2>2
    <3> QED
      BY <3>1 DEF Range
  <2> QED
    BY <2>1, <2>2
<1> QED
  BY <1>1, <1>2

\* An instruction tags temporaries with types of the program only.
LEMMA TaggedFits ==
  ASSUME NEW p, NEW sig, NEW f, FunctionFits(p, sig, f), NEW s \in StructMaps(p),
         NEW n \in 1..Len(f.instrs),
         NEW ts \in [DOMAIN f.types -> TypesOf(p) \cup {""}]
  PROVE  Tagged(s, ts, f.instrs[n]) \in [DOMAIN f.types -> TypesOf(p) \cup {""}]
<1> DEFINE i == f.instrs[n]
<1>1. /\ i.op \in Basic => BasicFits(f, i)
      /\ i.op \in Calls => CallFits(p, sig, f, i)
  BY DEF FunctionFits
<1>2. \A name : Find(s, name, "") \in TypesOf(p) \cup {""}
  BY DEF StructMaps, Find
<1> HIDE DEF i
<1>3. StructMade(s, ts, i) \in TypesOf(p) \cup {""}
  <2>1. CASE i.op = "new"
    <3>1. i.name[1] \in TypesOf(p)
      BY <1>1, <2>1 DEF Calls, CallFits, TypesOf, Parents
    <3> QED
      BY <2>1, <3>1 DEF StructMade
  <2>2. CASE i.op = "copy"
    <3>1. i.args[1] \in DOMAIN f.types
      BY <1>1, <2>2 DEF Basic, BasicFits
    <3> QED
      BY <2>2, <3>1 DEF StructMade
  <2>3. CASE i.op = "static"
    BY <1>2, <2>3 DEF StructMade
  <2>4. CASE i.op \in {"call", "method"}
    BY <1>2, <2>4 DEF StructMade
  <2>5. CASE i.op \notin {"new", "copy", "static", "call", "method"}
    BY <2>5 DEF StructMade
  <2> QED
    BY <2>1, <2>2, <2>3, <2>4, <2>5
<1>4. Tagged(s, ts, i) \in [DOMAIN f.types -> TypesOf(p) \cup {""}]
  <2>1. PICK made \in TypesOf(p) \cup {""} : made = StructMade(s, ts, i)
    BY <1>3
  <2>2. Tagged(s, ts, i) = IF made = "" THEN ts ELSE [ts EXCEPT ![i.d] = made]
    BY <2>1 DEF Tagged, Tag
  <2> QED
    BY <2>2
<1> QED
  BY <1>4 DEF i

\* What a function is found to return is a type of the program, or nothing.
LEMMA ReturnStructFits ==
  ASSUME NEW p, NEW sig, NEW f, FunctionFits(p, sig, f), NEW s \in StructMaps(p)
  PROVE  ReturnStruct(s, f) \in TypesOf(p) \cup {""}
<1> DEFINE N    == Len(f.instrs)
           S    == [DOMAIN f.types -> TypesOf(p) \cup {""}]
           a    == [t \in DOMAIN f.types |-> ""]
           Solves(g) == g = [n \in 0..N |->
                               IF n = 0 THEN a ELSE Tagged(s, g[n - 1], f.instrs[n])]
           step == [n \in 1..N |-> [ts \in S |-> Tagged(s, ts, f.instrs[n])]]
           tags == CHOOSE g : Solves(g)
<1>1. ReturnStruct(s, f) = tags[N][f.result]
  BY Zenon DEF ReturnStruct
<1>2. N \in Nat
  BY DEF FunctionFits
<1>r. f.result \in DOMAIN f.types
  BY DEF FunctionFits
<1>t. ASSUME NEW n \in 1..N, NEW ts \in S PROVE Tagged(s, ts, f.instrs[n]) \in S
  <2>1. n \in 1..Len(f.instrs) /\ ts \in [DOMAIN f.types -> TypesOf(p) \cup {""}]
    OBVIOUS
  <2> QED
    BY <2>1, TaggedFits
<1>z. a \in S /\ \A ts \in S : ts[f.result] \in TypesOf(p) \cup {""}
  BY <1>r
<1> HIDE DEF N, S, a
<1>3. step \in Steps(N, S)
  BY <1>t DEF Steps
<1>4. PICK g \in [0..N -> S] : Follows(g, N, a, step)
  <2> HIDE DEF step
  <2> QED
    BY <1>2, <1>3, <1>z, Recursion
<1>5. ASSUME NEW n \in 0..N
      PROVE  g[n] = IF n = 0 THEN a ELSE Tagged(s, g[n - 1], f.instrs[n])
  <2>1. CASE n # 0
    <3>1. n \in 1..N /\ n - 1 \in 0..N
      BY <1>2, <2>1
    <3>2. g[n - 1] \in S /\ g[n] = step[n][g[n - 1]]
      BY <1>4, <3>1 DEF Follows
    <3> QED
      BY <2>1, <3>1, <3>2
  <2> QED
    BY <1>4, <2>1 DEF Follows
<1>6. Solves(g)
  <2> HIDE DEF step
  <2> QED
    BY <1>5
<1>7. Solves(tags)
  <2> HIDE DEF Solves
  <2> QED
    BY <1>6
<1> HIDE DEF tags
<1>8. \A n \in 0..N : tags[n] \in S
  <2>1. tags[0] \in S
    <3>1. 0 \in 0..N
      BY <1>2
    <3>2. tags[0] = a
      BY <1>7, <3>1
    <3> QED
      BY <1>z, <3>2
  <2>2. ASSUME NEW n \in 1..N, tags[n - 1] \in S PROVE tags[n] \in S
    <3>1. n \in 0..N /\ n # 0
      BY <1>2
    <3>2. tags[n] = Tagged(s, tags[n - 1], f.instrs[n])
      BY <1>7, <3>1
    <3> QED
      BY <1>t, <2>2, <3>2
  <2> QED
    BY <1>2, <2>1, <2>2, Onward
<1>9. tags[N] \in S
  BY <1>2, <1>8
<1> QED
  BY <1>1, <1>z, <1>9

\* A turn over all functions learns types of the program.
LEMMA LearnStructsFits ==
  ASSUME NEW sig, Fits(prog, sig), NEW Q,
         prog.methods \in Seq(Q), prog.functions \in Seq(Q),
         structs \in StructMaps(prog)
  PROVE  LearnStructs(structs) \in StructMaps(prog)
<1> DEFINE all  == prog.functions \o prog.methods
           S    == StructMaps(prog)
           Solves(g) == g = [n \in 0..Len(all) |->
                               IF n = 0 THEN structs ELSE LearnStruct(g[n - 1], all[n])]
           step == [n \in 1..Len(all) |-> [s \in S |-> LearnStruct(s, all[n])]]
           learned == CHOOSE g : Solves(g)
<1>1. LearnStructs(structs) = learned[Len(all)]
  BY Zenon DEF LearnStructs
<1>2. Len(all) \in Nat /\ \A n \in 1..Len(all) : all[n] \in FunctionsOf(prog)
  <2>1. PICK a \in Seq(Q), b \in Seq(Q) : a = prog.functions /\ b = prog.methods
    OBVIOUS
  <2>2. Len(a \o b) \in Nat /\ \A n \in 1..Len(a \o b) : (a \o b)[n] \in Range(a) \cup Range(b)
    BY InConcatenation
  <2> QED
    BY <2>1, <2>2 DEF FunctionsOf
<1> HIDE DEF all
<1>3. ASSUME NEW n \in 1..Len(all), NEW s \in S PROVE LearnStruct(s, all[n]) \in S
  <2>1. PICK f \in FunctionsOf(prog) : f = all[n]
    BY <1>2
  <2>2. PICK p : p = prog
    OBVIOUS
  <2>3. FunctionFits(p, sig, f) /\ s \in StructMaps(p)
    BY <2>2 DEF Fits
  <2>4. PICK made \in TypesOf(p) \cup {""} : made = ReturnStruct(s, f)
    BY <2>3, ReturnStructFits
  <2>5. CASE made = ""
    BY <2>1, <2>4, <2>5 DEF LearnStruct
  <2>6. CASE made # ""
    <3>1. PICK X \in SUBSET {Name(h) : h \in FunctionsOf(p)} : s \in [X -> TypesOf(p)]
      BY <2>3 DEF StructMaps
    <3>2. LearnStruct(s, f) = Enter(s, Name(f), made)
      BY <2>4, <2>6 DEF LearnStruct
    <3>3. X \cup {Name(f)} \in SUBSET {Name(h) : h \in FunctionsOf(p)}
      BY <2>1, <2>2
    <3>4. Enter(s, Name(f), made) \in [X \cup {Name(f)} -> TypesOf(p)]
      BY <2>6, <3>1 DEF Enter
    <3>5. LearnStruct(s, f) \in StructMaps(p)
      BY <3>2, <3>3, <3>4 DEF StructMaps
    <3> QED
      BY <2>1, <2>2, <3>5
  <2> QED
    BY <2>5, <2>6
<1>4. PICK g \in [0..Len(all) -> S] : Follows(g, Len(all), structs, step)
  <2>1. step \in Steps(Len(all), S)
    BY <1>3 DEF Steps
  <2> HIDE DEF step
  <2>2. PICK N \in Nat : N = Len(all)
    BY <1>2
  <2>3. PICK T : T = S
    OBVIOUS
  <2>4. PICK a \in T : a = structs
    BY <2>3
  <2>5. PICK st \in Steps(N, T) : st = step
    BY <2>1, <2>2, <2>3
  <2>6. \E g \in [0..N -> T] : Follows(g, N, a, st)
    BY Recursion
  <2> QED
    BY <2>2, <2>3, <2>4, <2>5, <2>6
<1>5. ASSUME NEW n \in 0..Len(all)
      PROVE  g[n] = IF n = 0 THEN structs ELSE LearnStruct(g[n - 1], all[n])
  <2>1. CASE n # 0
    <3>1. n \in 1..Len(all) /\ n - 1 \in 0..Len(all)
      BY <1>2, <2>1
    <3>2. g[n - 1] \in S /\ g[n] = step[n][g[n - 1]]
      BY <1>4, <3>1 DEF Follows
    <3> QED
      BY <2>1, <3>1, <3>2
  <2> QED
    BY <1>4, <2>1 DEF Follows
<1>6. Solves(g)
  <2> HIDE DEF step, S
  <2> QED
    BY <1>5
<1>7. Solves(learned)
  <2> HIDE DEF Solves
  <2> QED
    BY <1>6
<1> HIDE DEF learned
<1>8. \A n \in 0..Len(all) : learned[n] \in S
  <2>1. learned[0] \in S
    BY <1>2, <1>7
  <2>2. ASSUME NEW n \in 1..Len(all), learned[n - 1] \in S PROVE learned[n] \in S
    <3>1. n \in 0..Len(all) /\ n # 0
      BY <1>2
    <3>2. learned[n] = LearnStruct(learned[n - 1], all[n])
      BY <1>7, <3>1
    <3> QED
      BY <1>3, <2>2, <3>2
  <2> HIDE DEF S
  <2>3. PICK N \in Nat : N = Len(all)
    BY <1>2
  <2>4. PICK T, h : T = S /\ h = learned
    OBVIOUS
  <2>5. \A n \in 0..N : h[n] \in T
    BY <2>1, <2>2, <2>3, <2>4, Onward
  <2> QED
    BY <2>3, <2>4, <2>5
<1> QED
  BY <1>1, <1>2, <1>8

-----------------------------------------------------------------------------
(* The inductive invariant.                                                *)

\* Where the turns over functions and groups stand, and the rounds.
PlaceInv ==
  /\ stage # "unify" => at \in 1..Len(Order)
  /\ stage = "structs" => at = 1
  /\ stage = "unify" => at \in Nat /\ (at = 1 \/ at - 1 \in DOMAIN Components)

RoundInv ==
  /\ round \in 1..Rounds + 1
  /\ stage \in {"structs", "infer"} => round <= Rounds

PlacesInv ==
  /\ stage \in {"structs", "infer", "unify", "emit", "declared"}
  /\ PlaceInv
  /\ RoundInv
  /\ again \in BOOLEAN /\ (again => stage = "unify")

\* A function is under inference in two stages, and has the types of Current.
StageInv ==
  IF stage \in {"infer", "emit"} THEN fn.types = Current.types ELSE phase = "done"

IInv ==
  /\ prog \in Programs
  /\ structs \in StructMaps(prog)
  /\ KindsFit(ret, Typing)
  /\ InferenceInv
  /\ PlacesInv
  /\ StageInv

\* A program's typing agrees with it.
LEMMA TypingFits ==
  ASSUME WellTypedOnes, prog \in Programs
  PROVE  /\ Typing \in [Shorts(prog) -> K!Kinds] /\ Fits(prog, Typing)
         /\ \E S : prog.methods \in Seq(S) /\ prog.functions \in Seq(S)
         /\ FunctionsOf(prog) # {}
         /\ \A f \in Range(prog.methods) : f.owner # ""
<1>1. WellTypedProgram(prog)
  BY DEF WellTypedOnes
<1> QED
  BY <1>1 DEF WellTypedProgram, Typing

\* The functions in the order of a round.
LEMMA OrderFits ==
  ASSUME WellTypedOnes, prog \in Programs
  PROVE  /\ Len(Order) \in Nat /\ Len(Order) >= 1
         /\ \A n \in 1..Len(Order) : Order[n] \in FunctionsOf(prog)
<1>1. PICK S : prog.methods \in Seq(S) /\ prog.functions \in Seq(S)
  BY TypingFits
<1>2. PICK a \in Seq(S), b \in Seq(S) : a = prog.methods /\ b = prog.functions
  BY <1>1
<1>3. /\ Len(a \o b) \in Nat
      /\ \A n \in 1..Len(a \o b) : (a \o b)[n] \in Range(a) \cup Range(b)
  BY InConcatenation
<1>4. Len(a) \in Nat /\ Len(b) \in Nat /\ Len(a \o b) = Len(a) + Len(b)
  OBVIOUS
<1>5. Len(a) # 0 \/ Len(b) # 0
  <2>1. Range(a) \cup Range(b) # {}
    BY <1>2, TypingFits DEF FunctionsOf
  <2>2. Len(a) = 0 => Range(a) = {}
    BY DEF Range
  <2>3. Len(b) = 0 => Range(b) = {}
    BY DEF Range
  <2> QED
    BY <2>1, <2>2, <2>3
<1>6. Len(a \o b) >= 1
  BY <1>4, <1>5
<1> QED
  BY <1>2, <1>3, <1>6 DEF Order, FunctionsOf

\* A function whose inference begins: its body fits, and nothing is known.
LEMMA InferBegins ==
  ASSUME WellTypedOnes, prog \in Programs, NEW r, KindsFit(r, Typing),
         NEW f \in FunctionsOf(prog), Infer(r, f)
  PROVE  InferenceInv' /\ fn'.types = f.types /\ phase' = "forward"
<1>1. PICK p, sig : p = prog /\ sig = Typing
  OBVIOUS
<1>2. FunctionFits(p, sig, f) /\ KindsFit(r, sig)
  BY <1>1, TypingFits DEF Fits
<1>3. PICK s : s = structs'
  OBVIOUS
<1>4. BodyFits(Resolve(r, s, f)) /\ Resolve(r, s, f).types = f.types
  BY <1>2, ResolvedBodyFits
<1>5. /\ fn' = Resolve(r, s, f) /\ kinds' = [t \in DOMAIN f.types |-> K!Unknown]
      /\ changed' = FALSE /\ phase' = "forward"
  BY <1>3 DEF Infer
<1>6. PICK g : g = fn'
  OBVIOUS
<1>7. BodyFits(g) /\ g.types = f.types
  BY <1>4, <1>5, <1>6
<1>8. kinds' \in KindMaps(g)
  BY <1>5, <1>7 DEF KindMaps, Inferred
<1>9. (BodyFits(fn))' /\ (kinds \in KindMaps(fn))'
  BY <1>6, <1>7, <1>8
<1> QED
  BY <1>5, <1>6, <1>7, <1>9 DEF InferenceInv, Passes

\* What a function is found to return agrees with the typing.
LEMMA ReturnKindFits ==
  ASSUME WellTypedOnes, IInv, stage = "infer"
  PROVE  /\ Current \in FunctionsOf(prog) /\ Current.name \in DOMAIN Typing
         /\ ReturnKind(Current) \in {Typing[Current.name], "Ptr"}
<1>1. Current \in FunctionsOf(prog)
  BY OrderFits DEF IInv, PlacesInv, PlaceInv, Current
<1>2. PICK p, sig, f : p = prog /\ sig = Typing /\ f = Current
  OBVIOUS
<1>3. FunctionFits(p, sig, f) /\ f.name \in DOMAIN sig
  BY <1>1, <1>2, TypingFits DEF IInv, Fits, Shorts
<1>4. kinds \in KindMaps(fn) /\ fn.types = f.types
  BY <1>2 DEF IInv, InferenceInv, StageInv
<1>5. f.result \in DOMAIN f.types /\ f.types[f.result] = sig[f.name]
  BY <1>3 DEF FunctionFits
<1>6. kinds[f.result] \in {sig[f.name], "Ptr", K!Unknown}
  BY <1>4, <1>5 DEF KindMaps
<1>7. ReturnKind(f) \in {sig[f.name], "Ptr"}
  BY <1>6 DEF ReturnKind
<1> QED
  BY <1>1, <1>2, <1>3, <1>7

\* The invariant holds at first: nothing is inferred, and what Range and
\* Vector have is as the typing has it.
LEMMA Initially ==
  ASSUME WellTypedOnes, Init
  PROVE  IInv
<1>1. prog \in Programs
  BY DEF Init
<1>2. structs \in StructMaps(prog)
  <2>1. structs \in [{} -> TypesOf(prog)]
    BY DEF Init
  <2> QED
    BY <2>1 DEF StructMaps
<1>3. KindsFit(ret, Typing)
  <2>1. PICK sig : sig = Typing
    OBVIOUS
  <2>2. /\ sig["next"] = "I1" /\ sig["current"] = "F64" /\ sig["size"] = "F64"
        /\ {"next", "current", "size"} \subseteq DOMAIN sig
    BY <1>1, <2>1, TypingFits DEF Fits, Shorts
  <2>3. ASSUME NEW n \in DOMAIN Seeds
        PROVE  n[2] \in DOMAIN sig /\ Seeds[n] \in {sig[n[2]], "Ptr"}
    <3>1. n \in {<<"", "next">>, <<"", "current">>, <<"", "size">>}
      BY DEF Seeds
    <3>2. Seeds[n] = IF n = <<"", "next">> THEN "I1" ELSE "F64"
      BY <3>1 DEF Seeds
    <3>3. CASE n = <<"", "next">>
      BY <2>2, <3>2, <3>3
    <3>4. CASE n # <<"", "next">>
      <4>1. <<"", "current">>[2] = "current" /\ <<"", "size">>[2] = "size"
        OBVIOUS
      <4>2. n[2] \in {"current", "size"}
        BY <3>1, <3>4, <4>1
      <4> QED
        BY <2>2, <3>2, <3>4, <4>2
    <3> QED
      BY <3>3, <3>4
  <2>4. KindsFit(Seeds, sig)
    BY <2>3 DEF KindsFit
  <2> QED
    BY <2>1, <2>4 DEF Init
<1>4. InferenceInv
  <2>1. /\ fn.instrs = <<>> /\ fn.types = <<>> /\ kinds = <<>>
        /\ changed = FALSE /\ phase = "done"
    BY DEF Init
  <2>2. BodyFits(fn)
    BY <2>1 DEF BodyFits
  <2>3. kinds \in KindMaps(fn)
    BY <2>1 DEF KindMaps
  <2>4. Len(fn.instrs) = 0 /\ DOMAIN fn.types = {}
    BY <2>1
  <2>5. GroundedKnown(kinds)
    BY <2>4 DEF GroundedKnown, Grounded
  <2>6. /\ ProducersKnown(kinds) /\ OperandsAreNumbers(kinds)
        /\ \A pass \in Passes : Still(pass, kinds)
    BY <2>4 DEF ProducersKnown, OperandsAreNumbers, Still
  <2> QED
    BY <2>1, <2>2, <2>3, <2>5, <2>6 DEF InferenceInv, Passes
<1>5. PlacesInv
  <2>1. stage = "structs" /\ round = 1 /\ at = 1 /\ again = FALSE
    BY DEF Init
  <2>2. 1 \in 1..Len(Order)
    BY <1>1, OrderFits
  <2>3. PlaceInv
    BY <2>1, <2>2 DEF PlaceInv
  <2>4. RoundInv
    BY <2>1 DEF RoundInv, Rounds
  <2> QED
    BY <2>1, <2>3, <2>4 DEF PlacesInv
<1>6. StageInv
  BY DEF Init, StageInv
<1> QED
  BY <1>1, <1>2, <1>3, <1>4, <1>5, <1>6 DEF IInv

\* Steps that leave the inference alone keep its invariant.
LEMMA UnchangedInference ==
  ASSUME InferenceInv, UNCHANGED <<fn, kinds, changed, phase>>
  PROVE  InferenceInv'
BY DEF InferenceInv, ProducersKnown, GroundedKnown, OperandsAreNumbers, Still

\* A turn that looks for the types of returned objects.
LEMMA StructPassKeeps ==
  ASSUME WellTypedOnes, IInv, StructPass
  PROVE  IInv'
<1>0. /\ prog \in Programs /\ stage = "structs" /\ phase = "done"
      /\ InferenceInv /\ KindsFit(ret, Typing)
  BY DEF IInv, StageInv, StructPass
<1>1. prog' = prog /\ ret' = ret /\ Typing' = Typing
  BY DEF StructPass, Typing
<1>2. structs' \in StructMaps(prog)
  <2>1. PICK Q : prog.methods \in Seq(Q) /\ prog.functions \in Seq(Q)
    BY <1>0, TypingFits
  <2>2. PICK sig : sig = Typing
    OBVIOUS
  <2>3. Fits(prog, sig)
    BY <1>0, <2>2, TypingFits
  <2>4. LearnStructs(structs) \in StructMaps(prog)
    BY <2>1, <2>3, LearnStructsFits DEF IInv
  <2> QED
    BY <2>4 DEF StructPass
<1>3. (structs \in StructMaps(prog))' /\ (KindsFit(ret, Typing))'
  BY <1>0, <1>1, <1>2
<1>4. CASE structs' = structs
  <2>1. /\ stage' = "infer" /\ Infer(ret, Order[1])
        /\ round' = round /\ at' = at /\ again' = again
    BY <1>4 DEF StructPass
  <2>2. at = 1 /\ round \in 1..Rounds /\ again = FALSE /\ 1 \in 1..Len(Order)
    BY <1>0, OrderFits DEF IInv, PlacesInv, PlaceInv, RoundInv, Rounds
  <2>3. Order' = Order /\ Current' = Order[1]
    BY <1>1, <2>1, <2>2 DEF Order, Current
  <2>4. Order[1] \in FunctionsOf(prog)
    BY <1>0, <2>2, OrderFits
  <2>5. InferenceInv' /\ fn'.types = Order[1].types
    BY <1>0, <2>1, <2>4, InferBegins
  <2>6. PlacesInv'
    <3>1. PlaceInv'
      BY <2>1, <2>2, <2>3 DEF PlaceInv
    <3>2. RoundInv'
      BY <2>1, <2>2 DEF RoundInv, Rounds
    <3> QED
      BY <2>1, <2>2, <3>1, <3>2 DEF PlacesInv
  <2>7. StageInv'
    BY <2>1, <2>3, <2>5 DEF StageInv
  <2> QED
    BY <1>0, <1>1, <1>3, <2>5, <2>6, <2>7 DEF IInv
<1>5. CASE structs' # structs
  <2>1. UNCHANGED <<stage, round, at, again, fn, kinds, changed, phase>>
    BY <1>5 DEF StructPass, inference
  <2>2. InferenceInv' /\ StageInv'
    BY <1>0, <2>1, UnchangedInference DEF StageInv
  <2>3. Order' = Order
    BY <1>1 DEF Order
  <2>4. PlacesInv'
    BY <1>0, <2>1, <2>3 DEF IInv, PlacesInv, PlaceInv, RoundInv
  <2> QED
    BY <1>0, <1>1, <1>3, <2>2, <2>4 DEF IInv
<1> QED
  BY <1>4, <1>5

\* A pass over the current function.
LEMMA InferencePassKeeps ==
  ASSUME WellTypedOnes, IInv, InferencePass
  PROVE  IInv' /\ Keeps(kinds, kinds')
<1>1. /\ K!Forward \/ K!Copies \/ K!Backward \/ K!Test
      /\ UNCHANGED <<prog, structs, ret, stage, round, at, again>>
  BY DEF InferencePass
<1>2. InferenceInv' /\ Keeps(kinds, kinds')
  BY <1>1, PassesKeepInvariant DEF IInv
<1>3. fn' = fn /\ phase # "done"
  BY <1>1 DEF K!Forward, K!Copies, K!Backward, K!Pass, K!Test
<1>4. StageInv'
  <2>1. stage \in {"infer", "emit"} /\ fn.types = Current.types
    BY <1>3 DEF IInv, StageInv
  <2>2. Current' = Current
    BY <1>1 DEF Current, Order
  <2> QED
    BY <1>1, <1>3, <2>1, <2>2 DEF StageInv
<1>5. PlacesInv'
  <2>1. Order' = Order /\ Components' = Components
    BY <1>1 DEF Order, Components
  <2> QED
    BY <1>1, <2>1 DEF IInv, PlacesInv, PlaceInv, RoundInv
<1>6. (structs \in StructMaps(prog))' /\ (KindsFit(ret, Typing))' /\ (prog \in Programs)'
  <2>1. Typing' = Typing
    BY <1>1 DEF Typing
  <2> QED
    BY <1>1, <2>1 DEF IInv
<1> QED
  BY <1>2, <1>4, <1>5, <1>6 DEF IInv

\* A function's kind is recorded, and the next one's inference begins.
LEMMA RecordKeeps ==
  ASSUME WellTypedOnes, IInv, Record
  PROVE  IInv'
<1>0. /\ prog \in Programs /\ stage = "infer" /\ phase = "done"
      /\ InferenceInv /\ KindsFit(ret, Typing)
  BY DEF IInv, Record
<1>1. prog' = prog /\ structs' = structs /\ again' = again /\ Typing' = Typing
  BY DEF Record, Typing
<1>2. KindsFit(ret', Typing)
  <2>1. PICK f, sig, k, r : f = Current /\ sig = Typing /\ k = ReturnKind(f) /\ r = ret
    OBVIOUS
  <2>2. f.name \in DOMAIN sig /\ k \in {sig[f.name], "Ptr"}
    BY <1>0, <2>1, ReturnKindFits
  <2>3. KindsFit(Recorded(r, f, k), sig)
    BY <1>0, <2>1, <2>2, RecordedFits
  <2> QED
    BY <2>1, <2>3 DEF Record
<1>3. /\ (structs \in StructMaps(prog))' /\ (KindsFit(ret, Typing))' /\ (prog \in Programs)'
  BY <1>0, <1>1, <1>2 DEF IInv
<1>4. /\ at \in 1..Len(Order) /\ round \in 1..Rounds /\ again = FALSE
      /\ Len(Order) \in Nat /\ 1 \in 1..Len(Order)
  BY <1>0, OrderFits DEF IInv, PlacesInv, PlaceInv, RoundInv, Rounds
<1>5. /\ at' = IF at = Len(Order) THEN 1 ELSE at + 1
      /\ round' = IF at = Len(Order) THEN round + 1 ELSE round
      /\ stage' = IF round' > Rounds THEN "unify" ELSE "infer"
      /\ IF stage' = "infer" THEN Infer(ret', Order[at']) ELSE UNCHANGED inference
  BY DEF Record
<1>6. at' \in 1..Len(Order) /\ Order' = Order
  <2>1. Order' = Order
    BY <1>1 DEF Order
  <2>2. PICK N \in Nat : N = Len(Order)
    BY <1>4
  <2>3. at' \in 1..N
    BY <1>4, <1>5, <2>2
  <2> QED
    BY <2>1, <2>2, <2>3
<1>7. PlacesInv'
  <2>1. round' \in 1..Rounds + 1 /\ (round' > Rounds => at' = 1)
    BY <1>4, <1>5 DEF Rounds
  <2>2. stage' \in {"infer", "unify"} /\ again' = FALSE
    BY <1>1, <1>4, <1>5
  <2>3. RoundInv'
    BY <1>5, <2>1, <2>2 DEF RoundInv, Rounds
  <2>4. PlaceInv'
    BY <1>5, <1>6, <2>1, <2>2 DEF PlaceInv
  <2> QED
    BY <2>2, <2>3, <2>4 DEF PlacesInv
<1>8. CASE stage' = "infer"
  <2>1. Order[at'] \in FunctionsOf(prog) /\ Current' = Order[at']
    BY <1>0, <1>6, OrderFits DEF Current
  <2>2. PICK r, f : r = ret' /\ f = Order[at']
    OBVIOUS
  <2>3. InferenceInv' /\ fn'.types = f.types
    BY <1>0, <1>2, <1>5, <1>8, <2>1, <2>2, InferBegins
  <2>4. StageInv'
    BY <1>8, <2>1, <2>2, <2>3 DEF StageInv
  <2> QED
    BY <1>3, <1>7, <2>3, <2>4 DEF IInv
<1>9. CASE stage' = "unify"
  <2>1. UNCHANGED <<fn, kinds, changed, phase>>
    BY <1>5, <1>9 DEF inference
  <2>2. InferenceInv' /\ StageInv'
    BY <1>0, <1>9, <2>1, UnchangedInference DEF StageInv
  <2> QED
    BY <1>3, <1>7, <2>2 DEF IInv
<1> QED
  BY <1>5, <1>8, <1>9

\* A group is unified: its kinds are still the typing's, and the groups are
\* the same, as no method is recorded that was not before.
LEMMA UnifyKeeps ==
  ASSUME WellTypedOnes, IInv, Unify
  PROVE  /\ IInv'
         /\ \A n \in DOMAIN ret : ret[n] \in {"F64", "I1"} => ret'[n] = ret[n]
<1>0. /\ prog \in Programs /\ stage = "unify" /\ phase = "done"
      /\ InferenceInv /\ KindsFit(ret, Typing) /\ at \in Nat
  BY DEF IInv, StageInv, PlacesInv, PlaceInv, Unify
<1>1. /\ prog' = prog /\ structs' = structs /\ stage' = stage /\ round' = round
      /\ Typing' = Typing /\ UNCHANGED <<fn, kinds, changed, phase>>
  BY DEF Unify, Typing, inference
<1>2. PICK c : ret' = UnifyGroup(ret, c[1], c[2])
  BY DEF Unify
<1>3. PICK r, sig, g, m : r = ret /\ sig = Typing /\ g = c[1] /\ m = c[2]
  OBVIOUS
<1>4. /\ KindsFit(UnifyGroup(r, g, m), sig)
      /\ DOMAIN r \subseteq DOMAIN UnifyGroup(r, g, m)
      /\ DOMAIN UnifyGroup(r, g, m) \subseteq DOMAIN r \cup {<<"", m>>}
      /\ \A n \in DOMAIN r : r[n] \in {"F64", "I1"} => UnifyGroup(r, g, m)[n] = r[n]
  <2>1. KindsFit(r, sig)
    BY <1>0, <1>3
  <2> QED
    BY <2>1, UnifiedFits
<1>5. PICK s : s = UnifyGroup(r, g, m) /\ s = ret'
  BY <1>2, <1>3
<1>6. {n \in DOMAIN s : n[1] # ""} = {n \in DOMAIN r : n[1] # ""}
  <2>1. <<"", m>>[1] = ""
    OBVIOUS
  <2> QED
    BY <1>4, <1>5, <2>1
<1>7. Components' = Components
  BY <1>1, <1>3, <1>5, <1>6 DEF Components
<1>8. PlacesInv'
  <2>1. at' = at + 1 /\ at \in DOMAIN Components /\ again' = (again \/ ret' # ret)
    BY DEF Unify
  <2>2. again' \in BOOLEAN
    BY <2>1
  <2>3. at' \in Nat /\ at' - 1 \in DOMAIN Components'
    BY <1>0, <1>7, <2>1
  <2>4. PlaceInv' /\ RoundInv'
    BY <1>0, <1>1, <2>3 DEF IInv, PlacesInv, PlaceInv, RoundInv
  <2> QED
    BY <1>0, <1>1, <2>2, <2>4 DEF PlacesInv
<1>9. InferenceInv' /\ StageInv'
  BY <1>0, <1>1, UnchangedInference DEF StageInv
<1>10. (KindsFit(ret, Typing))' /\ (structs \in StructMaps(prog))' /\ (prog \in Programs)'
  BY <1>0, <1>1, <1>3, <1>4, <1>5 DEF IInv
<1>11. \A n \in DOMAIN ret : ret[n] \in {"F64", "I1"} => ret'[n] = ret[n]
  BY <1>3, <1>4, <1>5
<1> QED
  BY <1>8, <1>9, <1>10, <1>11 DEF IInv

\* The end of a turn of the unification: another one, or the functions are
\* inferred again to be emitted.
LEMMA EndOfTurnKeeps ==
  ASSUME WellTypedOnes, IInv, EndOfTurn
  PROVE  IInv'
<1>0. /\ prog \in Programs /\ stage = "unify" /\ phase = "done"
      /\ InferenceInv /\ KindsFit(ret, Typing) /\ again \in BOOLEAN
  BY DEF IInv, StageInv, PlacesInv, EndOfTurn
<1>1. /\ prog' = prog /\ structs' = structs /\ ret' = ret /\ round' = round
      /\ Typing' = Typing /\ at' = 1 /\ again' = FALSE
  BY DEF EndOfTurn, Typing
<1>2. (KindsFit(ret, Typing))' /\ (structs \in StructMaps(prog))' /\ (prog \in Programs)'
  BY <1>0, <1>1 DEF IInv
<1>3. Order' = Order /\ 1 \in 1..Len(Order) /\ Order[1] \in FunctionsOf(prog)
  <2>1. Order' = Order
    BY <1>1 DEF Order
  <2>2. 1 \in 1..Len(Order)
    BY <1>0, OrderFits
  <2> QED
    BY <1>0, <2>1, <2>2, OrderFits
<1>4. ASSUME stage' \in {"unify", "emit"} PROVE PlacesInv'
  <2>1. PlaceInv' /\ RoundInv'
    BY <1>1, <1>3, <1>4 DEF IInv, PlacesInv, PlaceInv, RoundInv
  <2> QED
    BY <1>1, <1>4, <2>1 DEF PlacesInv
<1>5. CASE again
  <2>1. stage' = "unify" /\ UNCHANGED <<fn, kinds, changed, phase>>
    BY <1>5 DEF EndOfTurn, inference
  <2>2. InferenceInv' /\ StageInv'
    BY <1>0, <2>1, UnchangedInference DEF StageInv
  <2> QED
    BY <1>2, <1>4, <2>1, <2>2 DEF IInv
<1>6. CASE ~ again
  <2>1. stage' = "emit" /\ Infer(ret, Order[1])
    BY <1>6 DEF EndOfTurn
  <2>2. InferenceInv' /\ fn'.types = Order[1].types
    BY <1>0, <1>3, <2>1, InferBegins
  <2>3. StageInv'
    BY <1>1, <1>3, <2>1, <2>2 DEF StageInv, Current
  <2> QED
    BY <1>2, <1>4, <2>1, <2>2, <2>3 DEF IInv
<1> QED
  BY <1>5, <1>6

\* A function is emitted, and the next one's inference begins.
LEMMA EmitKeeps ==
  ASSUME WellTypedOnes, IInv, Emit
  PROVE  IInv'
<1>0. /\ prog \in Programs /\ stage = "emit" /\ phase = "done"
      /\ InferenceInv /\ KindsFit(ret, Typing)
  BY DEF IInv, Emit
<1>1. /\ prog' = prog /\ structs' = structs /\ ret' = ret /\ round' = round
      /\ again' = again /\ Typing' = Typing
  BY DEF Emit, Typing
<1>2. (KindsFit(ret, Typing))' /\ (structs \in StructMaps(prog))' /\ (prog \in Programs)'
  BY <1>0, <1>1 DEF IInv
<1>3. /\ Order' = Order /\ at \in 1..Len(Order) /\ again = FALSE
      /\ Len(Order) \in Nat /\ Len(Order) >= 1
  BY <1>0, <1>1, OrderFits DEF IInv, PlacesInv, PlaceInv, Order
<1>4. /\ at' = IF at = Len(Order) THEN 1 ELSE at + 1
      /\ stage' = IF at = Len(Order) THEN "declared" ELSE "emit"
      /\ IF stage' = "emit" THEN Infer(ret, Order[at']) ELSE UNCHANGED inference
  BY <1>1 DEF Emit
<1>5. at' \in 1..Len(Order)
  <2>1. PICK N \in Nat : N = Len(Order)
    BY <1>3
  <2> QED
    BY <1>3, <1>4, <2>1
<1>6. PlacesInv'
  <2>1. PlaceInv' /\ RoundInv'
    BY <1>1, <1>3, <1>4, <1>5 DEF IInv, PlacesInv, PlaceInv, RoundInv
  <2> QED
    BY <1>1, <1>3, <1>4, <2>1 DEF PlacesInv
<1>7. CASE stage' = "emit"
  <2>1. Order[at'] \in FunctionsOf(prog)
    BY <1>0, <1>5, OrderFits
  <2>2. PICK f : f = Order[at']
    OBVIOUS
  <2>3. InferenceInv' /\ fn'.types = f.types
    BY <1>0, <1>4, <1>7, <2>1, <2>2, InferBegins
  <2>4. StageInv'
    BY <1>3, <1>7, <2>2, <2>3 DEF StageInv, Current
  <2> QED
    BY <1>2, <1>6, <2>3, <2>4 DEF IInv
<1>8. CASE stage' = "declared"
  <2>1. UNCHANGED <<fn, kinds, changed, phase>>
    BY <1>4, <1>8 DEF inference
  <2>2. InferenceInv' /\ StageInv'
    BY <1>0, <1>8, <2>1, UnchangedInference DEF StageInv
  <2> QED
    BY <1>2, <1>6, <2>2 DEF IInv
<1> QED
  BY <1>4, <1>7, <1>8

-----------------------------------------------------------------------------
(* Theorems.                                                               *)

\* Every step keeps the invariant.
LEMMA StepKeepsInvariant ==
  ASSUME WellTypedOnes, IInv, [Next]_vars
  PROVE  IInv'
<1>1. CASE StructPass
  BY <1>1, StructPassKeeps
<1>2. CASE InferencePass
  BY <1>2, InferencePassKeeps
<1>3. CASE Record
  BY <1>3, RecordKeeps
<1>4. CASE Unify
  BY <1>4, UnifyKeeps
<1>5. CASE EndOfTurn
  BY <1>5, EndOfTurnKeeps
<1>6. CASE Emit
  BY <1>6, EmitKeeps
<1>7. CASE UNCHANGED vars
  <2>1. UNCHANGED <<prog, structs, ret, stage, round, at, again, fn, kinds, changed, phase>>
    BY <1>7 DEF vars
  <2>2. InferenceInv'
    BY <2>1, UnchangedInference DEF IInv
  <2>3. Order' = Order /\ Components' = Components /\ Typing' = Typing
    BY <2>1 DEF Order, Components, Typing
  <2>4. PlacesInv'
    BY <2>1, <2>3 DEF IInv, PlacesInv, PlaceInv, RoundInv
  <2>5. StageInv'
    BY <2>1, <2>3 DEF IInv, StageInv, Current
  <2> QED
    BY <2>1, <2>2, <2>3, <2>4, <2>5 DEF IInv
<1> QED
  BY <1>1, <1>2, <1>3, <1>4, <1>5, <1>6, <1>7 DEF Next, Work, Stop

\* In programs of any size that agree with a typing, what is recorded and
\* inferred agrees with it at every step, in every round, and the loops are
\* where their guards say.
THEOREM InductiveInvariant == ASSUME WellTypedOnes PROVE Spec => []IInv
<1>1. Init => IInv
  BY Initially
<1>2. IInv /\ [Next]_vars => IInv'
  BY StepKeepsInvariant
<1> QED
  BY <1>1, <1>2, PTL DEF Spec

\* The maps hold kinds and types of the program, and the counters stay in
\* their loops' bounds (codegen.rs, predeclare_all).
THEOREM TypeCorrect == ASSUME WellTypedOnes PROVE Spec => []WellFormed
<1>1. IInv => WellFormed
  <2> SUFFICES ASSUME IInv PROVE WellFormed
    OBVIOUS
  <2>1. K!TypeOK
    <3>1. kinds \in [DOMAIN fn.types -> Inferred]
      BY DEF IInv, InferenceInv, KindMaps
    <3> QED
      BY <3>1 DEF IInv, InferenceInv, Passes, Inferred, K!TypeOK, K!Temps
  <2>2. Range(ret) \subseteq K!Kinds
    <3>1. PICK sig : sig = Typing
      OBVIOUS
    <3>2. sig \in [Shorts(prog) -> K!Kinds] /\ KindsFit(ret, sig) /\ "Ptr" \in K!Kinds
      BY <3>1, TypingFits DEF IInv, K!Kinds
    <3> QED
      BY <3>2 DEF KindsFit, Range
  <2>3. Range(structs) \subseteq DOMAIN Parents(prog.types)
    <3>1. PICK X : structs \in [X -> TypesOf(prog)]
      BY DEF IInv, StructMaps
    <3> QED
      BY <3>1 DEF Range, TypesOf
  <2> QED
    BY <2>1, <2>2, <2>3 DEF IInv, PlacesInv, PlaceInv, RoundInv, WellFormed
<1> QED
  BY <1>1, InductiveInvariant, PTL

\* The kinds found for a function are its temporaries' types, up to pointers
\* that stay out of arithmetic (emit.rs, infer_temp_kinds).
THEOREM InferredKinds == ASSUME WellTypedOnes PROVE Spec => []KindsAreTheTypes
<1>1. IInv => KindsAreTheTypes
  BY FinishedKindsAreTheTypes DEF IInv
<1> QED
  BY <1>1, InductiveInvariant, PTL

\* An inference stops only where no pass has anything left to change (emit.rs:
\* until stable).
THEOREM InferenceStopsAtFixpoint ==
  ASSUME WellTypedOnes PROVE Spec => []K!StopsAtFixpoint
<1>1. IInv => K!StopsAtFixpoint
  BY FinishedIsAFixpoint DEF IInv
<1> QED
  BY <1>1, InductiveInvariant, PTL

\* No pass takes back a concrete kind, nor does a group's unification, nor a
\* record that of a short name of methods (codegen.rs, predeclare_all).
THEOREM KindsStay == ASSUME WellTypedOnes PROVE Spec => ConcreteKindsStay
<1> DEFINE Stays ==
      /\ phase # "done" => \A t \in DOMAIN kinds :
                             kinds[t] \in {"F64", "I1"} => kinds'[t] = kinds[t]
      /\ \A n \in DOMAIN ret :
           ret[n] \in {"F64", "I1"} /\ (stage = "unify" \/ OfMethods(n)) => ret'[n] = ret[n]
<1>1. IInv /\ [Next]_vars => [Stays]_vars
  <2> SUFFICES ASSUME IInv, Next PROVE Stays
    OBVIOUS
  <2>1. CASE InferencePass
    <3>1. Keeps(kinds, kinds') /\ ret' = ret
      BY <2>1, InferencePassKeeps DEF InferencePass
    <3> QED
      BY <3>1 DEF Keeps
  <2>2. CASE StructPass
    BY <2>2 DEF StructPass, IInv, StageInv
  <2>3. CASE Record
    <3>1. stage = "infer" /\ phase = "done" /\ prog \in Programs
          /\ ret' = Recorded(ret, Current, ReturnKind(Current))
      BY <2>3 DEF Record, IInv
    <3>2. PICK f, sig, k, r : f = Current /\ sig = Typing /\ k = ReturnKind(f) /\ r = ret
      OBVIOUS
    <3>3. f \in FunctionsOf(prog) /\ f.name \in DOMAIN sig /\ k \in {sig[f.name], "Ptr"}
      BY <3>1, <3>2, ReturnKindFits
    <3>4. KindsFit(r, sig)
      BY <3>2 DEF IInv
    <3>5. \A n \in DOMAIN r : r[n] \in {"F64", "I1"} /\ NotOf(f, n) => Recorded(r, f, k)[n] = r[n]
      BY <3>3, <3>4, RecordedFits
    <3>6. ASSUME NEW n, OfMethods(n) PROVE NotOf(f, n)
      <4>1. f.owner = "" => f \in Range(prog.functions)
        BY <3>1, <3>3, TypingFits DEF FunctionsOf
      <4> QED
        BY <3>6, <4>1 DEF OfMethods, NotOf
    <3> QED
      BY <3>1, <3>2, <3>5, <3>6
  <2>4. CASE Unify
    BY <2>4, UnifyKeeps DEF Unify, IInv, StageInv
  <2>5. CASE EndOfTurn
    BY <2>5 DEF EndOfTurn, IInv, StageInv
  <2>6. CASE Emit
    BY <2>6 DEF Emit
  <2>7. CASE Stop
    BY <2>7 DEF Stop, vars
  <2> QED
    BY <2>1, <2>2, <2>3, <2>4, <2>5, <2>6, <2>7 DEF Next, Work
<1>2. [][Stays]_vars => ConcreteKindsStay
  BY PTL DEF ConcreteKindsStay
<1> QED
  BY <1>1, <1>2, InductiveInvariant, PTL DEF Spec
=============================================================================
