--------------------------- MODULE RootingProofs ---------------------------
(***************************************************************************)
(* Why code whose references are rooted (Rooting) never follows one to an  *)
(* object that has been freed, however long it runs and wherever           *)
(* collections start: what is known of a temporary at a place holds        *)
(* whenever execution is there, for the innermost call and, as far as it   *)
(* outlives the calls above, for those that wait.                          *)
(***************************************************************************)
EXTENDS MutatorProofs

\* The programs that collect are rooted ones.
RootedOnes == \A e \in Executables : e.code.ok /\ e.collects => IsRooted(e.code)

-----------------------------------------------------------------------------
(* The heap as a graph.                                                    *)

LiveIn(h) == {o \in DOMAIN h : h[o].live}

\* What a collection of h would keep.
Reach(h, s) == ReachableFrom(RefsIn(s), [o \in LiveIn(h) |-> RefsIn(h[o].words)])

Lives(h, v)    == v.k = "ref" => v.v \in LiveIn(h)
Stays(h, s, v) == v.k = "ref" => v.v \in Reach(h, s)

\* The shadow stack and live objects refer to live objects only.
NothingDangles(h, s) ==
  /\ RefsIn(s) \subseteq LiveIn(h)
  /\ \A o \in LiveIn(h) : RefsIn(h[o].words) \subseteq LiveIn(h)

\* The roots are reached, and so is what a reached object refers to, and all of
\* it is live.
LEMMA ReachedIsSound ==
  ASSUME NEW h, NEW s, NothingDangles(h, s)
  PROVE  /\ RefsIn(s) \subseteq Reach(h, s)
         /\ Reach(h, s) \subseteq LiveIn(h)
         /\ \A o \in Reach(h, s) : RefsIn(h[o].words) \subseteq Reach(h, s)
<1> DEFINE edges == [o \in LiveIn(h) |-> RefsIn(h[o].words)]
<1>1. DOMAIN edges = LiveIn(h) /\ \A o \in LiveIn(h) : edges[o] = RefsIn(h[o].words)
  OBVIOUS
<1>2. Reach(h, s) = ReachableFrom(RefsIn(s), edges)
  BY DEF Reach
<1> HIDE DEF edges
<1>3. RefsIn(s) \subseteq DOMAIN edges /\ Closed(DOMAIN edges, edges)
  BY <1>1 DEF NothingDangles, Closed
<1>4. RefsIn(s) \subseteq Reach(h, s)
  BY <1>2, <1>3, RootsAreReachable
<1>5. Closed(Reach(h, s), edges)
  BY <1>2, <1>3, ReachableIsClosed
<1>6. Reach(h, s) \subseteq LiveIn(h)
  BY <1>1, <1>2 DEF ReachableFrom
<1> QED
  BY <1>1, <1>4, <1>5, <1>6 DEF Closed

\* What is reached lies in every set of live objects that holds the roots and
\* what its objects refer to.
LEMMA ReachedIsLeast ==
  ASSUME NEW h, NEW s, NEW S, S \subseteq LiveIn(h), RefsIn(s) \subseteq S,
         \A o \in S : RefsIn(h[o].words) \subseteq S
  PROVE  Reach(h, s) \subseteq S
<1> DEFINE edges == [o \in LiveIn(h) |-> RefsIn(h[o].words)]
<1>1. DOMAIN edges = LiveIn(h) /\ \A o \in LiveIn(h) : edges[o] = RefsIn(h[o].words)
  OBVIOUS
<1>2. Reach(h, s) = ReachableFrom(RefsIn(s), edges)
  BY DEF Reach
<1> HIDE DEF edges
<1>3. S \in SUBSET DOMAIN edges /\ Closed(S, edges)
  BY <1>1 DEF Closed
<1> QED
  BY <1>2, <1>3, ReachableIsLeast

\* What is reached stays reached if it stays live and keeps what it refers to.
LEMMA ReachedStays ==
  ASSUME NEW h, NEW g, NEW s, NEW t, NothingDangles(h, s), NothingDangles(g, t),
         RefsIn(s) \subseteq RefsIn(t),
         \A o \in Reach(h, s) : o \in LiveIn(g) /\ RefsIn(g[o].words) = RefsIn(h[o].words)
  PROVE  Reach(h, s) \subseteq Reach(g, t)
<1> DEFINE S == Reach(h, s) \cap Reach(g, t)
<1>1. /\ RefsIn(s) \subseteq Reach(h, s) /\ Reach(h, s) \subseteq LiveIn(h)
      /\ \A o \in Reach(h, s) : RefsIn(h[o].words) \subseteq Reach(h, s)
  BY ReachedIsSound
<1>2. /\ RefsIn(t) \subseteq Reach(g, t)
      /\ \A o \in Reach(g, t) : RefsIn(g[o].words) \subseteq Reach(g, t)
  BY ReachedIsSound
<1>3. S \subseteq LiveIn(h) /\ RefsIn(s) \subseteq S
  BY <1>1, <1>2
<1>4. ASSUME NEW o \in S PROVE RefsIn(h[o].words) \subseteq S
  BY <1>1, <1>2, <1>4
<1> HIDE DEF S
<1>5. Reach(h, s) \subseteq S
  BY <1>3, <1>4, ReachedIsLeast
<1> QED
  BY <1>5 DEF S

\* The references of every object are in the words its tag names, where that
\* matters.
TracesAll ==
  exe.collects => \A o \in DOMAIN heap : RefsIn(TracedIn(heap[o])) = RefsIn(heap[o].words)

\* A collection keeps what is reached, and what it keeps refers to no more than
\* that.
LEMMA Collected ==
  ASSUME HeapOK(code, heap), NothingDangles(heap, shadow), TracesAll, NEW h \in Heaps
  PROVE  /\ DOMAIN h = DOMAIN heap /\ \A o \in DOMAIN heap : h[o].words = heap[o].words
         /\ Reach(heap, shadow) \subseteq LiveIn(h) /\ LiveIn(h) \subseteq LiveIn(heap)
         /\ NothingDangles(h, shadow)
         /\ ~ exe.collects => h = heap
<1>1. /\ RefsIn(shadow) \subseteq Reach(heap, shadow)
      /\ Reach(heap, shadow) \subseteq LiveIn(heap)
      /\ \A o \in Reach(heap, shadow) : RefsIn(heap[o].words) \subseteq Reach(heap, shadow)
  BY ReachedIsSound
<1>2. CASE h = heap
  BY <1>1, <1>2
<1>3. CASE h # heap
  <2>1. exe.collects /\ h = [o \in DOMAIN heap |-> [heap[o] EXCEPT !.live = @ /\ o \in Survivors]]
    BY <1>3 DEF Heaps
  <2>2. Survivors = Reach(heap, shadow)
    <3>1. LiveSet = LiveIn(heap) /\ \A o \in LiveSet : o \in DOMAIN heap
      BY DEF LiveSet, LiveIn
    <3>2. \A o \in LiveSet : RefsIn(TracedIn(heap[o])) = RefsIn(heap[o].words)
      BY <2>1, <3>1 DEF TracesAll
    <3>3. [o \in LiveSet |-> RefsIn(TracedIn(heap[o]))] = [o \in LiveIn(heap) |-> RefsIn(heap[o].words)]
      BY <3>1, <3>2
    <3> QED
      BY <3>3 DEF Survivors, Reach
  <2>3. ASSUME NEW o \in DOMAIN heap
        PROVE  h[o].words = heap[o].words /\ h[o].live = (heap[o].live /\ o \in Survivors)
    <3>1. o \in 1..Len(heap)
      BY <2>3, SequenceHas DEF HeapOK
    <3>2. heap[o] = [tag |-> heap[o].tag, words |-> heap[o].words, live |-> heap[o].live]
      BY <3>1 DEF HeapOK, ObjectOK
    <3>3. h[o] = [heap[o] EXCEPT !.live = heap[o].live /\ o \in Survivors]
      BY <2>1, <2>3
    <3>4. h[o] = [tag |-> heap[o].tag, words |-> heap[o].words,
                  live |-> (heap[o].live /\ o \in Survivors)]
      BY <3>2, <3>3
    <3> QED
      BY <3>4
  <2>4. DOMAIN h = DOMAIN heap
    BY <2>1
  <2>5. LiveIn(h) = Reach(heap, shadow)
    BY <1>1, <2>2, <2>3, <2>4 DEF LiveIn
  <2>6. \A o \in LiveIn(h) : o \in DOMAIN heap
    BY <2>4 DEF LiveIn
  <2>7. NothingDangles(h, shadow)
    BY <1>1, <2>3, <2>5, <2>6 DEF NothingDangles
  <2> QED
    BY <1>1, <2>1, <2>3, <2>4, <2>5, <2>7
<1> QED
  BY <1>2, <1>3

\* An object that was reached is still there.
LEMMA ReachedIsLive ==
  ASSUME NEW h, NEW s, NothingDangles(h, s), NEW v, Stays(h, s, v)
  PROVE  Lives(h, v)
BY ReachedIsSound DEF Stays, Lives

\* An allocation: what was reached stays, and so does what a collection left;
\* the new object is live.
LEMMA AllocatedSoundly ==
  ASSUME IInv, NothingDangles(heap, shadow), TracesAll, NEW h \in Heaps, NEW tag, NEW words,
         Allocate(h, tag, words), RefsIn(words) \subseteq LiveIn(h)
  PROVE  /\ NothingDangles(heap', shadow) /\ Reach(heap, shadow) \subseteq Reach(heap', shadow)
         /\ LiveIn(h) \subseteq LiveIn(heap') /\ Lives(heap', NewObject)
<1> DEFINE x == [tag |-> tag, words |-> words, live |-> TRUE]
<1>1. HeapOK(code, heap)
  BY DEF IInv
<1>2. HeapOK(code, h) /\ Len(h) = Len(heap)
  BY <1>1, Collecting
<1>3. /\ DOMAIN h = DOMAIN heap /\ \A o \in DOMAIN heap : h[o].words = heap[o].words
      /\ Reach(heap, shadow) \subseteq LiveIn(h) /\ LiveIn(h) \subseteq LiveIn(heap)
      /\ NothingDangles(h, shadow)
  BY <1>1, Collected
<1>4. heap' = Append(h, x) /\ x.words = words /\ x.live = TRUE
  BY DEF Allocate
<1> HIDE DEF x
<1>5. IsSeq(h) /\ Len(h) \in Nat /\ DOMAIN h = 1..Len(h)
  BY <1>2, SequenceHas DEF HeapOK
<1>6. /\ IsSeq(heap') /\ Len(heap') = Len(h) + 1
      /\ \A o \in 1..Len(h) : heap'[o] = h[o]
      /\ heap'[Len(h) + 1] = x
  BY <1>4, <1>5, Appended
<1>7. DOMAIN heap' = 1..Len(h) + 1
  BY <1>6, SequenceHas
<1>8. LiveIn(heap') = LiveIn(h) \cup {Len(h) + 1}
  BY <1>4, <1>5, <1>6, <1>7 DEF LiveIn
<1>9. \A o \in LiveIn(h) : o \in 1..Len(h) /\ heap'[o].words = h[o].words
  BY <1>5, <1>6 DEF LiveIn
<1>10. NothingDangles(heap', shadow)
  BY <1>3, <1>4, <1>6, <1>8, <1>9 DEF NothingDangles
<1>11. \A o \in Reach(heap, shadow) :
         o \in LiveIn(heap') /\ RefsIn(heap'[o].words) = RefsIn(heap[o].words)
  BY <1>3, <1>8, <1>9 DEF LiveIn
<1>12. Reach(heap, shadow) \subseteq Reach(heap', shadow)
  BY <1>10, <1>11, ReachedStays
<1>13. Lives(heap', NewObject)
  BY <1>2, <1>8 DEF Lives, NewObject, Ref
<1> QED
  BY <1>8, <1>10, <1>12, <1>13

\* g is h with the words of one object replaced.
Rewritten(h, g, o, w) ==
  /\ DOMAIN g = DOMAIN h
  /\ \A p \in DOMAIN h : /\ g[p].tag = h[p].tag /\ g[p].live = h[p].live
                         /\ g[p].words = IF p = o THEN w ELSE h[p].words

\* A write of what lives into an object frees nothing.
LEMMA WrittenSoundly ==
  ASSUME NEW h, NEW g, NEW s, NEW o, NEW w, NothingDangles(h, s), Rewritten(h, g, o, w),
         o \in LiveIn(h) => RefsIn(w) \subseteq LiveIn(h)
  PROVE  NothingDangles(g, s) /\ LiveIn(g) = LiveIn(h)
<1>1. LiveIn(g) = LiveIn(h)
  BY DEF Rewritten, LiveIn
<1>2. \A p \in LiveIn(h) : p \in DOMAIN h
  BY DEF LiveIn
<1> QED
  BY <1>1, <1>2 DEF Rewritten, NothingDangles

\* A write of what is no reference over what is none changes no path.
LEMMA WrittenElsewhere ==
  ASSUME NEW h, NEW g, NEW s, NEW o, NEW w, NothingDangles(h, s), Rewritten(h, g, o, w),
         o \in DOMAIN h => RefsIn(w) = RefsIn(h[o].words)
  PROVE  NothingDangles(g, s) /\ LiveIn(g) = LiveIn(h) /\ Reach(h, s) \subseteq Reach(g, s)
<1>1. o \in LiveIn(h) => RefsIn(w) \subseteq LiveIn(h)
  BY DEF NothingDangles, LiveIn
<1>2. NothingDangles(g, s) /\ LiveIn(g) = LiveIn(h)
  BY <1>1, WrittenSoundly
<1>3. Reach(h, s) \subseteq LiveIn(h)
  BY ReachedIsSound
<1>4. \A p \in Reach(h, s) : p \in LiveIn(g) /\ RefsIn(g[p].words) = RefsIn(h[p].words)
  BY <1>2, <1>3 DEF Rewritten, LiveIn
<1> QED
  BY <1>2, <1>4, ReachedStays

\* A write to all the words of an object.
LEMMA WordsReplaced ==
  ASSUME NEW c, NEW h, HeapOK(c, h), NEW o \in 1..Len(h), NEW w
  PROVE  Rewritten(h, [h EXCEPT ![o].words = w], o, w)
<1>1. DOMAIN h = 1..Len(h)
  BY SequenceHas DEF HeapOK
<1>2. h[o] = [tag |-> h[o].tag, words |-> h[o].words, live |-> h[o].live]
  BY DEF HeapOK, ObjectOK
<1> DEFINE x == [h[o] EXCEPT !.words = w]
           g == [h EXCEPT ![o] = x]
<1>3. x = [tag |-> h[o].tag, words |-> w, live |-> h[o].live]
  BY <1>2
<1>4. x.tag = h[o].tag /\ x.words = w /\ x.live = h[o].live
  BY <1>3
<1> HIDE DEF x
<1>5. DOMAIN g = DOMAIN h /\ \A p \in DOMAIN h : g[p] = IF p = o THEN x ELSE h[p]
  BY <1>1
<1>6. g = [h EXCEPT ![o].words = w]
  BY DEF x
<1> HIDE DEF g
<1>7. Rewritten(h, g, o, w)
  BY <1>4, <1>5 DEF Rewritten
<1> QED
  BY <1>6, <1>7

\* And to one of them.
LEMMA WordReplaced ==
  ASSUME NEW c, NEW h, HeapOK(c, h), NEW o \in 1..Len(h), NEW f, NEW v
  PROVE  Rewritten(h, [h EXCEPT ![o].words[f] = v], o, [h[o].words EXCEPT ![f] = v])
<1> DEFINE w == [h[o].words EXCEPT ![f] = v]
<1>1. [h EXCEPT ![o].words[f] = v] = [h EXCEPT ![o].words = w]
  OBVIOUS
<1> HIDE DEF w
<1>2. Rewritten(h, [h EXCEPT ![o].words = w], o, w)
  BY WordsReplaced
<1> QED
  BY <1>1, <1>2 DEF w

-----------------------------------------------------------------------------
(* What is known of the program that runs.                                 *)

Known      == Analysis(code)
Tracked    == exe.collects /\ code.ok
FactsOf(c, f) == Facts(c, Analysis(c), f.fn)[f.pc]

\* Where an argument is among what has been loaded: new loads its object first.
Where(i, a) == IF i.op = "new" THEN a + 1 ELSE a

\* v is what w stands for.
Came(w, v, temps) ==
  /\ w.k = "temp" => w.v \in DOMAIN temps /\ v = temps[w.v]
  /\ IsConstant(w) => v = w
  /\ w.k = "str" => v.k = "ref"

\* What has been loaded are operands, the object of new, and the result of a
\* concatenation.
Took(i, l, temps) ==
  /\ \A a \in 1..Len(i.args) :
       Where(i, a) \in 1..Len(l) => Came(i.args[a], l[Where(i, a)], temps)
  /\ Len(l) <= Len(i.args)
                  + (IF i.op = "new" \/ IsCallOf(i, {"__hulk_concat"}) THEN 1 ELSE 0)

\* Where numbers and references are.
Sorted(c, A, f) ==
  /\ \A sort \in Sorts : \A t \in DOMAIN f.temps :
       f.temps[t].k = sort => <<f.fn, t>> \in A.held[sort].temps
  /\ At(c, f).op = "new" /\ f.loaded # <<>> => f.loaded[1].k # "num"

KindOK(c, A, x) ==
  /\ x.tag # "ObjArray"
  /\ x.tag \notin DOMAIN c.types => RefsIn(x.words) = {}
  /\ x.tag = "Vector" =>
       \A j \in 1..Len(x.words["items"].v) : x.words["items"].v[j].k # "ref"
  /\ x.tag = "Range" => x.words["current"].k # "ref"
  /\ x.tag \in DOMAIN c.types =>
       /\ DOMAIN x.words \subseteq FieldsOf(c, x.tag)
       /\ \A sort \in Sorts : \A f \in DOMAIN x.words :
            x.words[f].k = sort => f \in A.held[sort].fields

KindsOK(c, A, h) == \A o \in DOMAIN h : KindOK(c, A, h[o])

\* Every call is one its caller's instruction may make.
CallsOf(c, fs) == \A i \in 1..Len(fs) - 1 : fs[i + 1].fn \in Callees(c, At(c, fs[i]))

StackSorted(c, A, fs) ==
  /\ \A i \in 1..Len(fs) : Sorted(c, A, fs[i])
  /\ CallsOf(c, fs)
  /\ Len(fs) > 0 => Took(At(c, fs[Len(fs)]), fs[Len(fs)].loaded, fs[Len(fs)].temps)

\* What v refers to is the p-th of what the body has on the shadow stack.
Anchored(s, base, p, v) ==
  v.k = "ref" => IF p = 0 THEN \E j \in 1..base : s[j] = v
                 ELSE base + p \in 1..Len(s) /\ s[base + p] = v

KeptHolds(F, s, f) ==
  \A x \in F.kept : x[1] \in DOMAIN f.temps => Anchored(s, f.base, x[2], f.temps[x[1]])
ReachedHolds(F, h, s, f) == \A t \in F.reached : t \in DOMAIN f.temps => Stays(h, s, f.temps[t])
LiveHolds(F, h, f)       == \A t \in F.live : t \in DOMAIN f.temps => Lives(h, f.temps[t])

\* The innermost call.  Loading the operands of an instruction that allocates
\* may already have freed what is only live.
InnermostOK(c, f, h, s) ==
  LET F == FactsOf(c, f)
      i == At(c, f)
  IN  /\ KeptHolds(F, s, f) /\ ReachedHolds(F, h, s, f)
      /\ f.loaded = <<>> \/ ~ Allocates(i) => LiveHolds(F, h, f)
      /\ \A a \in 1..Len(i.args) : OnlyLiteral(i, a) /\ Where(i, a) \in 1..Len(f.loaded) =>
           Lives(h, f.loaded[Where(i, a)])
      /\ i.op = "new" /\ f.loaded # <<>> => Lives(h, f.loaded[1])
      /\ IsCallOf(i, {"__hulk_concat"}) /\ Len(f.loaded) = 3 =>
           \A j \in 1..3 : Lives(h, f.loaded[j])

QuietAbove(A, fs, i) == \A j \in i + 1..Len(fs) : fs[j].fn \in A.quiet

\* A call that waits.  Where none above it allocates, nothing has been freed
\* since it was the innermost.
WaitingOK(c, A, fs, n, h, s) ==
  LET f == fs[n]
      i == At(c, f)
  IN  /\ KeptHolds(FactsOf(c, f), s, f)
      /\ QuietAbove(A, fs, n) =>
           /\ ~ Allocates(i) => LiveHolds(FactsOf(c, f), h, f)
           /\ i.op = "new" => Lives(h, f.loaded[1])

StackRooted(c, A, fs, h, s) ==
  /\ Len(fs) > 0 => InnermostOK(c, fs[Len(fs)], h, s)
  /\ \A n \in 1..Len(fs) - 1 : WaitingOK(c, A, fs, n, h, s)

\* An instruction of fn may give a value of v's sort.
GivesSuch(v, fn, i) ==
  \A sort \in Sorts : v.k = sort => Gives(sort, code, Known.held[sort], fn, i)

HInv == NothingDangles(heap, shadow) /\ (~ exe.collects => LiveIn(heap) = DOMAIN heap)
NInv == Tracked => KindsOK(code, Known, heap) /\ StackSorted(code, Known, frames)
RInv == Tracked => StackRooted(code, Known, frames, heap, shadow)

\* Together with IInv it is inductive.
GInv == IInv /\ HInv /\ NInv /\ RInv

\* What IsRooted says of each instruction.
LEMMA RootedBody ==
  ASSUME NEW c, IsRooted(c), NEW fn \in DOMAIN c.bodies
  PROVE  LET A  == Analysis(c)
             b  == c.bodies[fn]
             Fs == Facts(c, A, fn)
         IN  /\ Within(Fs[1], Entry(A, fn))
             /\ \A n \in 1..Len(b) :
                  /\ \A x \in Fs[n].kept : x[2] \in 0..DepthAt(b, n)
                  /\ UsesSafely(c, A, fn, Fs[n], b[n])
                  /\ \A m \in Successors(b, n) : Within(Fs[m], After(c, A, b, n, Fs[n]))
<1>1. HoldsRoots(c, Analysis(c), fn)
  BY DEF IsRooted
<1> QED
  BY <1>1 DEF HoldsRoots

\* And of the analyses it rests on: a quiet function allocates nothing, and calls
\* none that does.
LEMMA RootedCode ==
  ASSUME NEW c, IsRooted(c), NEW fn \in DOMAIN c.bodies, NEW n \in 1..Len(c.bodies[fn])
  PROVE  LET A == Analysis(c)
             i == c.bodies[fn][n]
         IN  /\ fn \in A.quiet => ~ Allocates(i) /\ Callees(c, i) \subseteq A.quiet
<1> DEFINE A == Analysis(c)
           i == c.bodies[fn][n]
<1>1. \A g \in A.quiet : StaysQuiet(c, A.quiet, g)
  BY DEF IsRooted
<1> HIDE DEF A
<1>2. fn \in A.quiet => ~ Allocates(i) /\ Callees(c, i) \subseteq A.quiet
  BY <1>1 DEF StaysQuiet
<1> QED
  BY <1>2 DEF A

\* Numbers and references come nowhere else than the analysis says.
LEMMA SortedCode ==
  ASSUME NEW c, IsRooted(c), NEW fn \in DOMAIN c.bodies, NEW n \in 1..Len(c.bodies[fn]),
         NEW sort \in Sorts
  PROVE  LET held == Analysis(c).held[sort]
             i    == c.bodies[fn][n]
         IN  /\ i.op \in Producers /\ Gives(sort, c, held, fn, i) => <<fn, i.dst>> \in held.temps
             /\ \A a \in 1..Len(i.args) : MayBe(sort, held, fn, i.args[a]) =>
                  /\ \A g \in Callees(c, i) : <<g, ParameterOf(i, a)>> \in held.temps
                  /\ i.op = "set" /\ a = 2 => i.f \in held.fields
                  /\ i.op = "return" => fn \in held.results
             /\ sort = "ref" /\ i.op = "new" => \A g \in Callees(c, i) : <<g, 0>> \in held.temps
<1> DEFINE held  == Analysis(c).held[sort]
           i     == c.bodies[fn][n]
           given == Given(sort, c, held)
<1>1. /\ given.temps \subseteq held.temps /\ given.fields \subseteq held.fields
      /\ given.results \subseteq held.results
  BY DEF IsRooted
<1> HIDE DEF held
<1> DEFINE places == UNION {{<<g, m>> : m \in 1..Len(c.bodies[g])} : g \in DOMAIN c.bodies}
           In(x)  == c.bodies[x[1]][x[2]]
           passed == UNION {{<<x[1], x[2], a>> : a \in {a \in 1..Len(In(x).args) :
                                MayBe(sort, held, x[1], In(x).args[a])}} : x \in places}
           made   == {x \in places : sort = "ref" /\ In(x).op = "new"}
<1>3. <<fn, n>> \in places /\ In(<<fn, n>>) = i
  OBVIOUS
<1>4. /\ given.temps = {<<x[1], In(x).dst>> : x \in {x \in places :
                           In(x).op \in Producers /\ Gives(sort, c, held, x[1], In(x))}}
                       \cup (UNION {{<<g, ParameterOf(In(x), x[3])>> : g \in Callees(c, In(x))} : x \in passed})
                       \cup (UNION {{<<g, 0>> : g \in Callees(c, In(x))} : x \in made})
      /\ given.fields = {In(x).f : x \in {x \in passed : In(x).op = "set" /\ x[3] = 2}}
      /\ given.results = {x[1] : x \in {x \in passed : In(x).op = "return"}}
  BY DEF Given
<1>5. ASSUME i.op \in Producers, Gives(sort, c, held, fn, i)
      PROVE  <<fn, i.dst>> \in held.temps
  <2> DEFINE x == <<fn, n>>
  <2>1. x \in places /\ x[1] = fn /\ In(x) = i
    BY <1>3
  <2> HIDE DEF x, places, passed, made, given
  <2>2. <<x[1], In(x).dst>> \in given.temps
    BY <1>4, <1>5, <2>1
  <2> QED
    BY <1>1, <2>1, <2>2
<1>6. ASSUME NEW a \in 1..Len(i.args), MayBe(sort, held, fn, i.args[a])
      PROVE  /\ \A g \in Callees(c, i) : <<g, ParameterOf(i, a)>> \in held.temps
             /\ i.op = "set" /\ a = 2 => i.f \in held.fields
             /\ i.op = "return" => fn \in held.results
  <2> DEFINE y == <<fn, n, a>>
  <2>1. y \in passed
    <3> DEFINE x == <<fn, n>>
    <3>1. x \in places /\ x[1] = fn /\ x[2] = n /\ In(x) = i /\ y = <<x[1], x[2], a>>
      BY <1>3
    <3> HIDE DEF x, y, places
    <3> QED
      BY <1>6, <3>1
  <2>2. y[1] = fn /\ y[3] = a /\ In(y) = i
    OBVIOUS
  <2> HIDE DEF y, passed, made, places, given
  <2>3. ASSUME NEW g \in Callees(c, i) PROVE <<g, ParameterOf(i, a)>> \in given.temps
    <3>1. <<g, ParameterOf(i, a)>> \in {<<f, ParameterOf(In(y), y[3])>> : f \in Callees(c, In(y))}
      BY <2>2
    <3>2. <<g, ParameterOf(i, a)>> \in
            UNION {{<<f, ParameterOf(In(x), x[3])>> : f \in Callees(c, In(x))} : x \in passed}
      BY <2>1, <3>1
    <3> QED
      BY <1>4, <3>2
  <2>4. i.op = "set" /\ a = 2 => i.f \in given.fields
    BY <1>4, <2>1, <2>2
  <2>5. i.op = "return" => fn \in given.results
    BY <1>4, <2>1, <2>2
  <2> QED
    BY <1>1, <2>3, <2>4, <2>5
<1>7. ASSUME sort = "ref", i.op = "new", NEW g \in Callees(c, i) PROVE <<g, 0>> \in held.temps
  <2> DEFINE x == <<fn, n>>
  <2>1. x \in made /\ In(x) = i
    BY <1>3, <1>7
  <2> HIDE DEF x, places, passed, made, given
  <2>2. <<g, 0>> \in {<<f, 0>> : f \in Callees(c, In(x))}
    BY <1>7, <2>1
  <2>3. <<g, 0>> \in UNION {{<<f, 0>> : f \in Callees(c, In(y))} : y \in made}
    BY <2>1, <2>2
  <2>4. <<g, 0>> \in given.temps
    BY <1>4, <2>3
  <2> QED
    BY <1>1, <2>4
<1> QED
  BY <1>5, <1>6, <1>7 DEF held

-----------------------------------------------------------------------------
(* The calls under way.                                                    *)

\* The innermost call after a step of it.
LEMMA TopSorted ==
  ASSUME NEW c, NEW A, NEW fs, IsSeq(fs), Len(fs) > 0, StackSorted(c, A, fs),
         NEW x, x.fn = fs[Len(fs)].fn, Sorted(c, A, x), Took(At(c, x), x.loaded, x.temps)
  PROVE  StackSorted(c, A, [fs EXCEPT ![Len(fs)] = x])
<1> DEFINE n  == Len(fs)
           gs == [fs EXCEPT ![n] = x]
<1>1. n \in Nat /\ n \in 1..n
  BY SequenceHas
<1>2. IsSeq(gs) /\ Len(gs) = n /\ \A i \in 1..n : gs[i] = IF i = n THEN x ELSE fs[i]
  BY <1>1, Replaced
<1> HIDE DEF gs, n
<1>3. \A i \in 1..n : Sorted(c, A, gs[i])
  BY <1>1, <1>2 DEF StackSorted, n
<1>4. \A i \in 1..n : gs[i].fn = fs[i].fn
  BY <1>1, <1>2 DEF n
<1>5. \A i \in 1..n - 1 : i \in 1..n /\ i + 1 \in 1..n /\ gs[i] = fs[i]
  BY <1>1, <1>2
<1>6. CallsOf(c, gs)
  BY <1>2, <1>4, <1>5 DEF StackSorted, CallsOf, n
<1>7. StackSorted(c, A, gs)
  BY <1>1, <1>2, <1>3, <1>6 DEF StackSorted
<1> QED
  BY <1>7 DEF gs, n

\* What a call that waits has on the shadow stack lies below what the innermost
\* one has there.
LEMMA KeptBelow ==
  ASSUME NEW c, IsLawful(c), NEW fs, NEW h, NEW d, StackOK(c, fs, h, d),
         NEW n \in 1..Len(fs) - 1, NEW F,
         \A x \in F.kept : x[2] \in 0..DepthAt(c.bodies[fs[n].fn], fs[n].pc),
         NEW s, NEW t, KeptHolds(F, s, fs[n]), Len(t) \in Nat, fs[Len(fs)].base <= Len(t),
         \A j \in 1..fs[Len(fs)].base : t[j] = s[j]
  PROVE  KeptHolds(F, t, fs[n])
<1> DEFINE m == Len(fs)
           b == fs[m].base
<1>1. IsSeq(fs) /\ m \in Nat
  BY SequenceHas DEF StackOK
<1>2. n \in 1..m /\ n + 1 \in 1..m /\ m \in 1..m /\ n <= m /\ n + 1 <= m
  BY <1>1
<1>3. /\ FrameOK(c, fs[n], h) /\ FrameOK(c, fs[m], h)
      /\ Depth_(c, fs[n]) = fs[n + 1].base
      /\ fs[n].base <= b /\ fs[n + 1].base <= b
  BY <1>2 DEF StackOK
<1>4. fs[n].base \in Nat /\ b \in Nat
      /\ fs[n].fn \in DOMAIN c.bodies /\ fs[n].pc \in 1..Len(c.bodies[fs[n].fn])
  BY <1>3 DEF FrameOK
<1>5. DepthAt(c.bodies[fs[n].fn], fs[n].pc) \in Nat
  BY <1>4, LawfulBody
<1>6. fs[n].base + DepthAt(c.bodies[fs[n].fn], fs[n].pc) <= b
  BY <1>3 DEF Depth_
<1> HIDE DEF b, m
<1>7. b <= Len(t) /\ \A j \in 1..b : t[j] = s[j]
  BY DEF b, m
<1> SUFFICES ASSUME NEW x \in F.kept, x[1] \in DOMAIN fs[n].temps, NEW v, v = fs[n].temps[x[1]],
                    v.k = "ref"
             PROVE  IF x[2] = 0 THEN \E j \in 1..fs[n].base : t[j] = v
                    ELSE fs[n].base + x[2] \in 1..Len(t) /\ t[fs[n].base + x[2]] = v
  BY DEF KeptHolds, Anchored
<1>8. IF x[2] = 0 THEN \E j \in 1..fs[n].base : s[j] = v
      ELSE fs[n].base + x[2] \in 1..Len(s) /\ s[fs[n].base + x[2]] = v
  BY DEF KeptHolds, Anchored
<1>9. x[2] \in Nat /\ x[2] <= DepthAt(c.bodies[fs[n].fn], fs[n].pc)
  BY <1>5
<1>10. CASE x[2] = 0
  <2>1. PICK j \in 1..fs[n].base : s[j] = v
    BY <1>8, <1>10
  <2>2. j \in 1..b
    BY <1>3, <1>4, <2>1
  <2> QED
    BY <1>7, <1>10, <2>1, <2>2
<1>11. CASE x[2] # 0
  <2>1. fs[n].base + x[2] \in 1..b
    BY <1>4, <1>5, <1>6, <1>9, <1>11
  <2> QED
    BY <1>4, <1>7, <1>8, <1>11, <2>1
<1> QED
  BY <1>10, <1>11

\* A step of the innermost call: those that wait have what they had, unless
\* something they only knew to be live has been freed.
LEMMA TopRooted ==
  ASSUME NEW c, IsLawful(c), IsRooted(c), NEW fs, NEW h, NEW s,
         StackOK(c, fs, h, Len(s)), Len(fs) > 0,
         StackRooted(c, Analysis(c), fs, h, s),
         NEW x, x.fn = fs[Len(fs)].fn, NEW g, NEW t, InnermostOK(c, x, g, t),
         LiveIn(h) \subseteq LiveIn(g) \/ x.fn \notin Analysis(c).quiet,
         Len(t) \in Nat, fs[Len(fs)].base <= Len(t),
         \A j \in 1..fs[Len(fs)].base : t[j] = s[j]
  PROVE  StackRooted(c, Analysis(c), [fs EXCEPT ![Len(fs)] = x], g, t)
<1> DEFINE n  == Len(fs)
           gs == [fs EXCEPT ![n] = x]
           A  == Analysis(c)
<1>1. IsSeq(fs) /\ n \in Nat /\ n \in 1..n
  BY SequenceHas DEF StackOK
<1>2. IsSeq(gs) /\ Len(gs) = n /\ \A i \in 1..n : gs[i] = IF i = n THEN x ELSE fs[i]
  BY <1>1, Replaced
<1> HIDE DEF gs
<1>3. ASSUME NEW i \in 1..n - 1 PROVE WaitingOK(c, A, gs, i, g, t)
  <2>1. i \in 1..n /\ n \in i + 1..n /\ i # n /\ i \in 1..Len(fs) - 1
    BY <1>1
  <2>2. gs[i] = fs[i] /\ gs[n].fn = fs[n].fn
    BY <1>1, <1>2, <2>1
  <2>3. WaitingOK(c, A, fs, i, h, s)
    BY <2>1 DEF StackRooted
  <2>4. KeptHolds(FactsOf(c, fs[i]), s, fs[i])
    BY <2>3 DEF WaitingOK
  <2>5. KeptHolds(FactsOf(c, fs[i]), t, fs[i])
    <3>1. fs[i].fn \in DOMAIN c.bodies /\ fs[i].pc \in 1..Len(c.bodies[fs[i].fn])
      BY <2>1 DEF StackOK, FrameOK
    <3>2. \A y \in FactsOf(c, fs[i]).kept : y[2] \in 0..DepthAt(c.bodies[fs[i].fn], fs[i].pc)
      BY <3>1, RootedBody DEF FactsOf
    <3> QED
      BY <2>1, <2>4, <3>2, KeptBelow
  <2>6. ASSUME QuietAbove(A, gs, i) PROVE QuietAbove(A, fs, i) /\ LiveIn(h) \subseteq LiveIn(g)
    <3>1. \A j \in i + 1..n : j \in 1..n /\ gs[j].fn = fs[j].fn
      BY <1>1, <1>2
    <3>2. QuietAbove(A, fs, i)
      BY <1>2, <2>6, <3>1 DEF QuietAbove
    <3>3. gs[n].fn \in A.quiet
      BY <1>2, <2>1, <2>6 DEF QuietAbove
    <3> QED
      BY <1>1, <1>2, <3>2, <3>3
  <2>7. ASSUME QuietAbove(A, gs, i)
        PROVE  /\ ~ Allocates(At(c, fs[i])) => LiveHolds(FactsOf(c, fs[i]), g, fs[i])
               /\ At(c, fs[i]).op = "new" => Lives(g, fs[i].loaded[1])
    <3>1. QuietAbove(A, fs, i) /\ LiveIn(h) \subseteq LiveIn(g)
      BY <2>6, <2>7
    <3>2. /\ ~ Allocates(At(c, fs[i])) => LiveHolds(FactsOf(c, fs[i]), h, fs[i])
          /\ At(c, fs[i]).op = "new" => Lives(h, fs[i].loaded[1])
      BY <2>3, <3>1 DEF WaitingOK
    <3> QED
      BY <3>1, <3>2 DEF LiveHolds, Lives
  <2> QED
    BY <2>2, <2>5, <2>7 DEF WaitingOK
<1>4. gs[n] = x
  BY <1>1, <1>2
<1>5. StackRooted(c, A, gs, g, t)
  BY <1>2, <1>3, <1>4 DEF StackRooted
<1> QED
  BY <1>5 DEF gs

\* What is known at the instruction under way.
LEMMA HereIsKnown ==
  ASSUME LawfulOnes, RootedOnes, GInv, Running, Tracked
  PROVE  /\ IsRooted(code) /\ Frame.fn \in DOMAIN code.bodies /\ Frame.pc \in 1..Len(Body)
         /\ InnermostOK(code, Frame, heap, shadow)
         /\ Sorted(code, Known, Frame) /\ Took(Instr, Loaded, Frame.temps)
         /\ \A x \in FactsOf(code, Frame).kept : x[2] \in 0..DepthAt(Body, Frame.pc)
         /\ UsesSafely(code, Known, Frame.fn, FactsOf(code, Frame), Instr)
         /\ Frame.fn \in Known.quiet =>
              ~ Allocates(Instr) /\ Callees(code, Instr) \subseteq Known.quiet
<1>1. IsRooted(code)
  BY DEF RootedOnes, Tracked, GInv, IInv, code
<1>2. /\ IsSeq(frames) /\ Len(frames) \in Nat /\ Len(frames) > 0 /\ Len(frames) \in 1..Len(frames)
      /\ Frame = frames[Len(frames)] /\ FrameOK(code, Frame, heap)
      /\ Body = code.bodies[Frame.fn] /\ Instr = At(code, Frame)
  BY UnderWay DEF GInv
<1>3. Frame.fn \in DOMAIN code.bodies /\ Frame.pc \in 1..Len(Body)
  BY <1>2 DEF FrameOK
<1>4. InnermostOK(code, Frame, heap, shadow)
  BY <1>2 DEF GInv, RInv, StackRooted
<1>5. Sorted(code, Known, Frame) /\ Took(Instr, Loaded, Frame.temps)
  BY <1>2 DEF GInv, NInv, StackSorted, Loaded
<1>6. Instr = Body[Frame.pc] /\ FactsOf(code, Frame) = Facts(code, Known, Frame.fn)[Frame.pc]
  BY DEF Instr, FactsOf, Known
<1>7. /\ \A x \in FactsOf(code, Frame).kept : x[2] \in 0..DepthAt(Body, Frame.pc)
      /\ UsesSafely(code, Known, Frame.fn, FactsOf(code, Frame), Instr)
  BY <1>1, <1>2, <1>3, <1>6, RootedBody DEF Known
<1>8. Frame.fn \in Known.quiet => ~ Allocates(Instr) /\ Callees(code, Instr) \subseteq Known.quiet
  BY <1>1, <1>2, <1>3, <1>6, RootedCode DEF Known
<1> QED
  BY <1>1, <1>3, <1>4, <1>5, <1>7, <1>8

\* What a step of the innermost call has to leave, for all to be as it should.
LEMMA Stepping ==
  ASSUME LawfulOnes, RootedOnes, GInv, Running, exe' = exe, HInv',
         NEW x, SetFrame(x), x.fn = Frame.fn,
         Len(shadow') \in Nat, Frame.base <= Len(shadow'),
         \A j \in 1..Frame.base : shadow'[j] = shadow[j],
         Tracked => /\ KindsOK(code, Known, heap')
                    /\ Sorted(code, Known, x) /\ Took(At(code, x), x.loaded, x.temps)
                    /\ InnermostOK(code, x, heap', shadow')
                    /\ LiveIn(heap) \subseteq LiveIn(heap') \/ Allocates(Instr)
  PROVE  HInv' /\ NInv' /\ RInv'
<1>1. code' = code /\ Known' = Known /\ Tracked' = Tracked
  BY DEF code, Known, Tracked
<1> SUFFICES ASSUME Tracked
             PROVE  /\ KindsOK(code, Known, heap') /\ StackSorted(code, Known, frames')
                    /\ StackRooted(code, Known, frames', heap', shadow')
  BY <1>1 DEF NInv, RInv
<1>2. /\ IsLawful(code) /\ IsSeq(frames) /\ Len(frames) \in Nat /\ Len(frames) > 0
      /\ Frame = frames[Len(frames)] /\ StackOK(code, frames, heap, Len(shadow))
  BY UnderWay DEF GInv, IInv
<1>3. frames' = [frames EXCEPT ![Len(frames)] = x]
  BY DEF SetFrame
<1>4. StackSorted(code, Known, frames) /\ StackRooted(code, Known, frames, heap, shadow)
  BY DEF GInv, NInv, RInv
<1>5. StackSorted(code, Known, frames')
  BY <1>2, <1>3, <1>4, TopSorted
<1>6. LiveIn(heap) \subseteq LiveIn(heap') \/ x.fn \notin Known.quiet
  BY HereIsKnown
<1>7. IsRooted(code)
  BY HereIsKnown
<1>8. StackRooted(code, Known, frames', heap', shadow')
  <2>1. PICK g, t : g = heap' /\ t = shadow'
    OBVIOUS
  <2>2. InnermostOK(code, x, g, t) /\ (LiveIn(heap) \subseteq LiveIn(g) \/ x.fn \notin Known.quiet)
        /\ Len(t) \in Nat /\ frames[Len(frames)].base <= Len(t)
        /\ \A j \in 1..frames[Len(frames)].base : t[j] = shadow[j]
    BY <1>2, <1>6, <2>1
  <2>3. StackRooted(code, Known, [frames EXCEPT ![Len(frames)] = x], g, t)
    BY <1>2, <1>4, <1>7, <2>2, TopRooted DEF Known
  <2> QED
    BY <1>3, <2>1, <2>3
<1> QED
  BY <1>5, <1>8

\* The shadow stack as the innermost call found it.
LEMMA BelowIsThere ==
  ASSUME LawfulOnes, IInv, Running
  PROVE  /\ Frame.base \in Nat /\ Len(shadow) \in Nat /\ Frame.base <= Len(shadow)
         /\ DOMAIN shadow = 1..Len(shadow)
         /\ Len(shadow) = Frame.base + DepthAt(Body, Frame.pc)
         /\ DepthAt(Body, Frame.pc) \in Nat
<1>1. /\ IsLawful(code) /\ FrameOK(code, Frame, heap) /\ Depth_(code, Frame) = Len(shadow)
      /\ Body = code.bodies[Frame.fn]
  BY UnderWay
<1>2. Frame.fn \in DOMAIN code.bodies /\ Frame.pc \in 1..Len(Body) /\ Frame.base \in Nat
  BY <1>1 DEF FrameOK
<1>3. DepthAt(Body, Frame.pc) \in Nat
  BY <1>1, <1>2, LawfulBody
<1>4. Len(shadow) = Frame.base + DepthAt(Body, Frame.pc)
  BY <1>1 DEF Depth_
<1>5. Len(shadow) \in Nat /\ DOMAIN shadow = 1..Len(shadow)
  BY SequenceHas DEF IInv, ShadowOK
<1> QED
  BY <1>2, <1>3, <1>4, <1>5

-----------------------------------------------------------------------------
(* Loading operands.                                                       *)

\* One operand more.
LEMMA LoadingMore ==
  ASSUME LawfulOnes, RootedOnes, GInv, Running, NEW v, Load(v),
         exe' = exe, shadow' = shadow, HInv',
         Tracked =>
           /\ KindsOK(code, Known, heap')
           /\ Took(Instr, Append(Loaded, v), Frame.temps)
           /\ Reach(heap, shadow) \subseteq Reach(heap', shadow)
           /\ heap' = heap \/ Allocates(Instr)
           /\ Allocates(Instr) \/ Loaded # <<>> \/ heap' = heap
           /\ \A a \in 1..Len(Instr.args) :
                OnlyLiteral(Instr, a) /\ Where(Instr, a) \in 1..Len(Loaded) + 1 =>
                  Lives(heap', Append(Loaded, v)[Where(Instr, a)])
           /\ Instr.op = "new" => /\ Lives(heap', Append(Loaded, v)[1])
                                  /\ Append(Loaded, v)[1].k # "num"
           /\ IsConcat /\ Len(Loaded) = 2 => \A j \in 1..3 : Lives(heap', Append(Loaded, v)[j])
  PROVE  HInv' /\ NInv' /\ RInv'
<1> DEFINE l == Append(Loaded, v)
           x == [Frame EXCEPT !.loaded = l]
<1>1. SetFrame(x)
  BY DEF Load, Loaded
<1>2. FrameOK(code, Frame, heap) /\ Instr = At(code, Frame) /\ IInv
  BY UnderWay DEF GInv
<1>3. IsSeq(Loaded) /\ Len(Loaded) \in Nat
  BY <1>2, SequenceHas DEF FrameOK, Loads, Loaded
<1>4. /\ IsSeq(l) /\ Len(l) = Len(Loaded) + 1
      /\ \A a \in 1..Len(Loaded) : l[a] = Loaded[a]
      /\ l[Len(Loaded) + 1] = v
  BY <1>3, Appended
<1>5. l # <<>>
  <2>1. Len(l) # 0
    BY <1>3, <1>4
  <2> QED
    BY <1>4, <2>1, SequenceHas
<1> HIDE DEF l
<1>6. Frame = [fn |-> Frame.fn, pc |-> Frame.pc, loaded |-> Frame.loaded, base |-> Frame.base,
               temps |-> Frame.temps]
  BY <1>2 DEF FrameOK, IsFrame
<1>7. x = [fn |-> Frame.fn, pc |-> Frame.pc, loaded |-> l, base |-> Frame.base,
           temps |-> Frame.temps]
  BY <1>6
<1> HIDE DEF x
<1>8. /\ x.fn = Frame.fn /\ x.pc = Frame.pc /\ x.loaded = l /\ x.base = Frame.base
      /\ x.temps = Frame.temps
  BY <1>7
<1>9. At(code, x) = Instr /\ FactsOf(code, x) = FactsOf(code, Frame)
  BY <1>2, <1>8 DEF At, FactsOf
<1>10. ASSUME Tracked
       PROVE  /\ Sorted(code, Known, x) /\ Took(At(code, x), x.loaded, x.temps)
              /\ InnermostOK(code, x, heap', shadow')
              /\ LiveIn(heap) \subseteq LiveIn(heap') \/ Allocates(Instr)
  <2>1. Sorted(code, Known, Frame) /\ InnermostOK(code, Frame, heap, shadow)
    BY <1>10, HereIsKnown
  <2>2. Sorted(code, Known, x)
    BY <1>8, <1>9, <1>10, <2>1 DEF Sorted, l
  <2>3. Took(At(code, x), x.loaded, x.temps)
    BY <1>8, <1>9, <1>10 DEF l
  <2>4. LiveIn(heap) \subseteq LiveIn(heap') \/ Allocates(Instr)
    BY <1>10
  <2> DEFINE F == FactsOf(code, Frame)
  <2>5. /\ KeptHolds(F, shadow, Frame) /\ ReachedHolds(F, heap, shadow, Frame)
        /\ ~ Allocates(Instr) => LiveHolds(F, heap, Frame)
    BY <1>2, <2>1 DEF InnermostOK
  <2> HIDE DEF F
  <2>6. KeptHolds(F, shadow', x)
    BY <1>8, <2>5 DEF KeptHolds
  <2>7. ReachedHolds(F, heap', shadow', x)
    BY <1>8, <1>10, <2>5 DEF ReachedHolds, Stays
  <2>8. ~ Allocates(Instr) => LiveHolds(F, heap', x)
    BY <1>8, <1>10, <2>5 DEF LiveHolds
  <2>9. \A a \in 1..Len(Instr.args) : OnlyLiteral(Instr, a) /\ Where(Instr, a) \in 1..Len(l) =>
           Lives(heap', l[Where(Instr, a)])
    BY <1>4, <1>10 DEF l
  <2>10. Instr.op = "new" => Lives(heap', l[1])
    BY <1>10 DEF l
  <2>11. IsCallOf(Instr, {"__hulk_concat"}) /\ Len(l) = 3 => \A j \in 1..3 : Lives(heap', l[j])
    <3>1. Len(l) = 3 => Len(Loaded) = 2
      <4>1. PICK k \in Nat : k = Len(Loaded)
        BY <1>3
      <4>2. Len(l) = 3 => k + 1 = 3
        BY <1>4, <4>1
      <4>3. k + 1 = 3 => k = 2
        OBVIOUS
      <4> QED
        BY <4>1, <4>2, <4>3
    <3> QED
      BY <1>10, <3>1 DEF l, IsConcat, IsCallOf
  <2>12. InnermostOK(code, x, heap', shadow')
    BY <1>5, <1>8, <1>9, <2>6, <2>7, <2>8, <2>9, <2>10, <2>11 DEF InnermostOK, F
  <2> QED
    BY <2>2, <2>3, <2>4, <2>12
<1>11. /\ Len(shadow') \in Nat /\ Frame.base <= Len(shadow')
       /\ \A j \in 1..Frame.base : shadow'[j] = shadow[j]
  BY <1>2, BelowIsThere
<1> QED
  BY <1>1, <1>8, <1>10, <1>11, Stepping

\* What has been loaded, with one more.
LEMMA TookMore ==
  ASSUME NEW i, Len(i.args) \in Nat, NEW l, IsSeq(l), NEW temps, Took(i, l, temps), NEW v,
         \A a \in 1..Len(i.args) : Where(i, a) = Len(l) + 1 => Came(i.args[a], v, temps),
         Len(l) + 1 <= Len(i.args)
                       + (IF i.op = "new" \/ IsCallOf(i, {"__hulk_concat"}) THEN 1 ELSE 0)
  PROVE  Took(i, Append(l, v), temps)
<1> DEFINE m == Append(l, v)
<1>1. Len(l) \in Nat
  BY SequenceHas
<1>2. Len(m) = Len(l) + 1 /\ (\A a \in 1..Len(l) : m[a] = l[a]) /\ m[Len(l) + 1] = v
  BY Appended
<1> HIDE DEF m
<1>3. ASSUME NEW a \in 1..Len(i.args), Where(i, a) \in 1..Len(m)
      PROVE  Came(i.args[a], m[Where(i, a)], temps)
  <2>1. Where(i, a) \in 1..Len(l) \/ Where(i, a) = Len(l) + 1
    BY <1>1, <1>2, <1>3
  <2>2. CASE Where(i, a) \in 1..Len(l)
    BY <1>2, <2>2 DEF Took
  <2>3. CASE Where(i, a) = Len(l) + 1
    BY <1>2, <2>3
  <2> QED
    BY <2>1, <2>2, <2>3
<1>4. Took(i, m, temps)
  BY <1>2, <1>3 DEF Took
<1> QED
  BY <1>4 DEF m

\* An object is as it should be whether it lives or not.
LEMMA KindOfWords ==
  ASSUME NEW c, NEW A, NEW x, KindOK(c, A, x), NEW y, y.tag = x.tag, y.words = x.words
  PROVE  KindOK(c, A, y)
BY DEF KindOK

\* Whatever a reference is stored in, the object's tag names.
LEMMA HeapIsTraced ==
  ASSUME LawfulOnes, RootedOnes, GInv, Running
  PROVE  TracesAll
<1> SUFFICES ASSUME exe.collects, NEW o \in DOMAIN heap
             PROVE  RefsIn(TracedIn(heap[o])) = RefsIn(heap[o].words)
  BY DEF TracesAll
<1> DEFINE x == heap[o]
           y == TracedIn(x)
<1>1. Tracked
  BY UnderWay DEF Tracked, GInv, IInv
<1>2. KindOK(code, Known, x) /\ TagsAreExact(code, Known.held)
  BY <1>1, HereIsKnown DEF GInv, NInv, KindsOK, IsRooted, Known
<1>3. DOMAIN y = Traced(code, x.tag) \cap DOMAIN x.words /\ \A f \in DOMAIN y : y[f] = x.words[f]
  BY DEF TracedIn
<1> HIDE DEF x, y
<1>4. ASSUME NEW f \in DOMAIN x.words, x.words[f].k = "ref" PROVE f \in DOMAIN y
  <2>1. x.words[f].v \in RefsIn(x.words)
    BY <1>4 DEF RefsIn
  <2>2. x.tag \in DOMAIN code.types
    BY <1>2, <2>1 DEF KindOK
  <2>3. f \in FieldsOf(code, x.tag) /\ f \in Known.held["ref"].fields
    BY <1>2, <1>4, <2>2 DEF KindOK, Sorts
  <2> QED
    BY <1>2, <1>3, <1>4, <2>2, <2>3 DEF TagsAreExact
<1>5. RefsIn(y) = RefsIn(x.words)
  BY <1>3, <1>4 DEF RefsIn
<1> QED
  BY <1>5 DEF x, y

\* What an allocation leaves of the heap.
LEMMA NewHeap ==
  ASSUME LawfulOnes, RootedOnes, GInv, Running, exe' = exe, shadow' = shadow, NEW h \in Heaps,
         NEW tag, NEW words, Allocate(h, tag, words), RefsIn(words) \subseteq LiveIn(h)
  PROVE  /\ HInv' /\ Reach(heap, shadow) \subseteq Reach(heap', shadow)
         /\ Lives(heap', NewObject)
<1>1. HeapOK(code, heap) /\ NothingDangles(heap, shadow) /\ Len(heap) \in Nat
      /\ DOMAIN heap = 1..Len(heap) /\ IInv
  BY HeapNow DEF HInv, GInv
<1> TracesAll
  BY HeapIsTraced
<1>2. /\ NothingDangles(heap', shadow) /\ Reach(heap, shadow) \subseteq Reach(heap', shadow)
      /\ LiveIn(h) \subseteq LiveIn(heap') /\ Lives(heap', NewObject)
  BY <1>1, AllocatedSoundly
<1>3. ASSUME ~ exe.collects PROVE LiveIn(heap') = DOMAIN heap'
  <2>1. h = heap
    BY <1>1, <1>3, Collected
  <2>2. LiveIn(heap) = 1..Len(heap)
    BY <1>1, <1>3 DEF HInv, GInv
  <2> DEFINE x == [tag |-> tag, words |-> words, live |-> TRUE]
  <2>3. heap' = Append(heap, x)
    BY <2>1 DEF Allocate
  <2> HIDE DEF x
  <2>4. IsSeq(heap)
    BY <1>1 DEF HeapOK
  <2>5. IsSeq(heap') /\ Len(heap') = Len(heap) + 1
    BY <2>3, <2>4, Appended
  <2>6. DOMAIN heap' = 1..Len(heap) + 1
    BY <2>5, SequenceHas
  <2>7. Len(heap) + 1 \in LiveIn(heap')
    BY <1>2 DEF Lives, NewObject, Ref
  <2> QED
    BY <1>1, <1>2, <2>1, <2>2, <2>6, <2>7 DEF LiveIn
<1> QED
  BY <1>1, <1>2, <1>3 DEF HInv

\* And of what its objects hold.
LEMMA NewKinds ==
  ASSUME IInv, NEW A, KindsOK(code, A, heap), NEW h \in Heaps, NEW tag, NEW words,
         Allocate(h, tag, words), KindOK(code, A, [tag |-> tag, words |-> words])
  PROVE  KindsOK(code, A, heap')
<1> DEFINE x == [tag |-> tag, words |-> words, live |-> TRUE]
<1>1. HeapOK(code, heap) /\ Len(heap) \in Nat /\ DOMAIN heap = 1..Len(heap)
  BY HeapNow
<1>2. HeapOK(code, h) /\ Len(h) = Len(heap) /\ Grows(heap, h)
  BY <1>1, Collecting
<1>3. IsSeq(h) /\ Len(h) \in Nat
  BY <1>2, SequenceHas DEF HeapOK
<1>4. heap' = Append(h, x) /\ KindOK(code, A, x)
  BY KindOfWords DEF Allocate
<1> HIDE DEF x
<1>5. /\ IsSeq(heap') /\ Len(heap') = Len(h) + 1
      /\ \A o \in 1..Len(h) : heap'[o] = h[o]
      /\ heap'[Len(h) + 1] = x
  BY <1>3, <1>4, Appended
<1>6. DOMAIN heap' = 1..Len(h) + 1
  BY <1>5, SequenceHas
<1>7. ASSUME NEW o \in 1..Len(h) PROVE KindOK(code, A, h[o])
  <2>1. KindOK(code, A, heap[o]) /\ h[o].tag = heap[o].tag
    BY <1>1, <1>2 DEF KindsOK, Grows
  <2>2. h[o].words = heap[o].words
    <3>1. CASE h = heap
      BY <3>1
    <3>2. CASE h # heap
      <4>1. h = [p \in DOMAIN heap |-> [heap[p] EXCEPT !.live = @ /\ p \in Survivors]]
        BY <3>2 DEF Heaps
      <4>2. o \in DOMAIN heap /\ o \in 1..Len(heap)
        BY <1>1, <1>2
      <4>3. heap[o] = [tag |-> heap[o].tag, words |-> heap[o].words, live |-> heap[o].live]
        BY <1>1, <4>2 DEF HeapOK, ObjectOK
      <4>4. h[o] = [heap[o] EXCEPT !.live = heap[o].live /\ o \in Survivors]
        BY <4>1, <4>2
      <4>5. h[o] = [tag |-> heap[o].tag, words |-> heap[o].words,
                    live |-> (heap[o].live /\ o \in Survivors)]
        BY <4>3, <4>4
      <4> QED
        BY <4>5
    <3> QED
      BY <3>1, <3>2
  <2> QED
    BY <2>1, <2>2, KindOfWords
<1>8. ASSUME NEW o \in 1..Len(h) + 1 PROVE KindOK(code, A, heap'[o])
  <2>1. CASE o \in 1..Len(h)
    BY <1>5, <1>7, <2>1
  <2>2. CASE o = Len(h) + 1
    BY <1>4, <1>5, <2>2
  <2> QED
    BY <1>3, <2>1, <2>2
<1> QED
  BY <1>6, <1>8 DEF KindsOK

\* A string, a range, a vector and an object of the program as they are made.
LEMMA NewKind ==
  ASSUME LawfulOnes, IInv, Running, NEW A
  PROVE  /\ \A n : KindOK(code, A, [tag |-> "String", words |-> Text(n)]) /\ RefsIn(Text(n)) = {}
         /\ KindOK(code, A, [tag |-> "String", words |-> NoWords]) /\ RefsIn(NoWords) = {}
<1>1. "String" \notin DOMAIN code.types
  BY RuntimeTypes
<1>2. \A n : RefsIn(Text(n)) = {}
  BY DEF RefsIn, Text, Num
<1>3. RefsIn(NoWords) = {}
  BY DEF RefsIn, NoWords
<1> QED
  BY <1>1, <1>2, <1>3 DEF KindOK

\* A program that never collects has nothing to be rooted.
LEMMA Untracked ==
  ASSUME GInv, ~ Tracked, exe' = exe, HInv'
  PROVE  HInv' /\ NInv' /\ RInv'
BY DEF NInv, RInv, Tracked, code

-----------------------------------------------------------------------------
(* What is known of operands.                                              *)

\* An operand that is no reference.
LEMMA ConstantOperand ==
  ASSUME NEW w, NEW v, NEW temps, Came(w, v, temps), IsConstant(w)
  PROVE  v.k # "ref"
BY DEF Came, IsConstant

\* A number comes from where one may be, and so does a reference.
LEMMA SortLoaded ==
  ASSUME LawfulOnes, RootedOnes, GInv, Running, Tracked, NEW sort \in Sorts,
         NEW a \in 1..Len(Instr.args), Where(Instr, a) \in 1..Len(Loaded),
         Loaded[Where(Instr, a)].k = sort
  PROVE  MayBe(sort, Known.held[sort], Frame.fn, Instr.args[a])
<1> DEFINE w == Instr.args[a]
           v == Loaded[Where(Instr, a)]
<1>1. Came(w, v, Frame.temps) /\ Sorted(code, Known, Frame)
  BY HereIsKnown DEF Took
<1>2. w.k \in {"temp", "num", "str", "null", "global"}
  <2>1. w \in Operand \cup [k : {"global"}, v : STRING]
    BY UnderWay, ElementOfSeq DEF GInv, HasShape
  <2> QED
    BY <2>1 DEF Operand
<1> HIDE DEF w, v
<1>3. v.k = sort /\ sort \in {"num", "ref"}
  BY DEF v, Sorts
<1>4. w.k = "temp" \/ w.k = sort \/ (w.k = "str" /\ sort = "ref")
  BY <1>1, <1>2, <1>3 DEF Came, IsConstant
<1>5. w.k = "temp" => <<Frame.fn, w.v>> \in Known.held[sort].temps
  BY <1>1, <1>3 DEF Came, Sorted
<1> QED
  BY <1>4, <1>5 DEF MayBe, w

\* An operand the shadow stack reaches.
LEMMA ReachedOperand ==
  ASSUME LawfulOnes, RootedOnes, GInv, Running, Tracked,
         NEW a \in 1..Len(Instr.args), Where(Instr, a) \in 1..Len(Loaded),
         IsReached(FactsOf(code, Frame), Instr.args[a])
  PROVE  /\ Stays(heap, shadow, Loaded[Where(Instr, a)])
         /\ Lives(heap, Loaded[Where(Instr, a)])
<1> DEFINE w == Instr.args[a]
           v == Loaded[Where(Instr, a)]
           F == FactsOf(code, Frame)
<1>1. Came(w, v, Frame.temps) /\ ReachedHolds(F, heap, shadow, Frame)
  BY HereIsKnown DEF Took, InnermostOK
<1>2. IsConstant(w) \/ (w.k = "temp" /\ w.v \in F.reached)
  BY DEF IsReached
<1> HIDE DEF w, v, F
<1>3. Stays(heap, shadow, v)
  <2>1. CASE IsConstant(w)
    BY <1>1, <2>1, ConstantOperand DEF Stays
  <2>2. CASE w.k = "temp" /\ w.v \in F.reached
    BY <1>1, <2>2 DEF Came, ReachedHolds
  <2> QED
    BY <1>2, <2>1, <2>2
<1>4. Lives(heap, v)
  BY <1>3, ReachedIsLive DEF GInv, HInv
<1> QED
  BY <1>3, <1>4 DEF v

\* An operand that has not been freed.
LEMMA SafeOperand ==
  ASSUME LawfulOnes, RootedOnes, GInv, Running, Tracked,
         NEW a \in 1..Len(Instr.args), Where(Instr, a) \in 1..Len(Loaded),
         IsSafe(FactsOf(code, Frame), Instr, a), ~ HasLiteral(Instr) => ~ Allocates(Instr)
  PROVE  Lives(heap, Loaded[Where(Instr, a)])
<1> DEFINE w == Instr.args[a]
           v == Loaded[Where(Instr, a)]
           F == FactsOf(code, Frame)
<1>1. \/ IsReached(F, w)
      \/ w.k = "temp" /\ w.v \in F.live /\ ~ HasLiteral(Instr)
      \/ OnlyLiteral(Instr, a)
  BY DEF IsSafe
<1>2. Came(w, v, Frame.temps) /\ InnermostOK(code, Frame, heap, shadow) /\ Instr = At(code, Frame)
  BY HereIsKnown, UnderWay DEF Took, GInv
<1>3. CASE IsReached(F, w)
  BY <1>3, ReachedOperand
<1>4. CASE w.k = "temp" /\ w.v \in F.live /\ ~ HasLiteral(Instr)
  <2>1. LiveHolds(F, heap, Frame)
    BY <1>2, <1>4 DEF InnermostOK
  <2> HIDE DEF w, v, F
  <2>2. Lives(heap, v)
    BY <1>2, <1>4, <2>1 DEF Came, LiveHolds
  <2> QED
    BY <2>2 DEF v
<1>5. CASE OnlyLiteral(Instr, a)
  BY <1>2, <1>5 DEF InnermostOK, Loaded
<1> QED
  BY <1>1, <1>3, <1>4, <1>5

\* What an instruction needs has not been freed.
LEMMA NeededOperand ==
  ASSUME LawfulOnes, RootedOnes, GInv, Running,
         NEW a \in Needs(Frame.fn, Instr), a \in 1..Len(Loaded)
  PROVE  Lives(heap, Loaded[a]) /\ Slot(Loaded[a], Len(heap))
<1>1. HasShape(Instr) /\ FrameOK(code, Frame, heap) /\ Instr = At(code, Frame) /\ IInv
  BY UnderWay DEF GInv
<1>2. \/ Instr.op \in {"get", "getindex", "setindex", "method", "push"} /\ a = 1
      \/ IsCallOf(Instr, {"__hulk_is", "__hulk_as", "__vec_push"}) /\ a = 1
      \/ Instr.op = "set" /\ a \in 1..Len(Instr.args)
      \/ IsCallOf(Instr, {"__hulk_str_eq", "print"}) /\ a \in 1..Len(Instr.args)
      \/ Instr.op = "return" /\ Frame.fn # MainName /\ a = 1
  BY DEF Needs
<1>3. a \in 1..Len(Instr.args)
  <2>1. CASE Instr.op \in {"get", "getindex", "setindex", "method", "push", "return"} /\ a = 1
    <3>1. PICK n \in Nat : n = Len(Instr.args)
      BY <1>1, Counted
    <3>2. n >= 1
      <4>1. PICK i : i = Instr /\ HasShape(i)
        BY <1>1
      <4>2. i.op \in {"get", "push", "return"} => Len(i.args) = 1
        BY <4>1, Counted
      <4>3. i.op = "getindex" => Len(i.args) = 2
        BY <4>1, Counted
      <4>4. i.op = "setindex" => Len(i.args) = 3
        BY <4>1, Counted
      <4>5. i.op = "method" => Len(i.args) >= 1
        BY <4>1, Counted
      <4> QED
        BY <2>1, <3>1, <4>1, <4>2, <4>3, <4>4, <4>5
    <3>3. 1 \in 1..n
      BY <3>2
    <3> QED
      BY <2>1, <3>1, <3>3
  <2>2. CASE IsCallOf(Instr, {"__hulk_is", "__hulk_as", "__vec_push"}) /\ a = 1
    <3>1. Len(Instr.args) = 2
      BY <1>1, <2>2, Counted DEF IsCallOf
    <3> QED
      BY <2>2, <3>1
  <2> QED
    BY <1>2, <2>1, <2>2
<1>4. Instr.op # "new" /\ Where(Instr, a) = a
  BY <1>2 DEF IsCallOf, Where
<1>5. Slot(Loaded[a], Len(heap))
  <2>1. ~ (IsTypeTest(Instr) /\ a = 2)
    BY <1>2 DEF IsTypeTest, IsCallOf
  <2> QED
    BY <1>1, <2>1 DEF FrameOK, Loads, Loaded
<1>6. CASE ~ Tracked
  <2>1. LiveIn(heap) = 1..Len(heap)
    BY <1>1, <1>6, HeapNow DEF Tracked, GInv, HInv, IInv
  <2> QED
    BY <1>5, <2>1 DEF Lives, Slot
<1>7. CASE Tracked
  <2>1. IsSafe(FactsOf(code, Frame), Instr, a)
    BY <1>7, HereIsKnown DEF UsesSafely
  <2>2. ~ HasLiteral(Instr) => ~ Allocates(Instr)
    BY <1>2 DEF Allocates, IsCallOf, Allocators
  <2> QED
    BY <1>3, <1>4, <1>5, <1>7, <2>1, <2>2, SafeOperand
<1> QED
  BY <1>5, <1>6, <1>7

-----------------------------------------------------------------------------
(* The steps that load.                                                    *)

\* What has been loaded of the instruction under way.
LEMMA LoadedSoFar ==
  ASSUME LawfulOnes, RootedOnes, GInv, Running
  PROVE  /\ IsSeq(Loaded) /\ Len(Loaded) \in Nat /\ Len(Instr.args) \in Nat
         /\ Instr = At(code, Frame) /\ HasShape(Instr) /\ CallsFit(code, Instr) /\ IInv
         /\ \A v : /\ Len(Append(Loaded, v)) = Len(Loaded) + 1
                   /\ \A a \in 1..Len(Loaded) : Append(Loaded, v)[a] = Loaded[a]
                   /\ Append(Loaded, v)[Len(Loaded) + 1] = v
<1>1. /\ FrameOK(code, Frame, heap) /\ HasShape(Instr) /\ CallsFit(code, Instr)
      /\ Instr = At(code, Frame) /\ IInv
  BY UnderWay DEF GInv
<1>2. IsSeq(Loaded)
  BY <1>1 DEF FrameOK, Loads, Loaded
<1>3. \A v : /\ Len(Append(Loaded, v)) = Len(Loaded) + 1
             /\ \A a \in 1..Len(Loaded) : Append(Loaded, v)[a] = Loaded[a]
             /\ Append(Loaded, v)[Len(Loaded) + 1] = v
  BY <1>2, Appended
<1> QED
  BY <1>1, <1>2, <1>3, SequenceHas, Counted

\* The operand that is next.
LEMMA NextTaken ==
  ASSUME LawfulOnes, RootedOnes, GInv, LoadingOperand, Tracked, NEW v,
         Came(NextOperand, v, Frame.temps)
  PROVE  /\ Took(Instr, Append(Loaded, v), Frame.temps)
         /\ \A a \in 1..Len(Instr.args) : Where(Instr, a) = Len(Loaded) + 1 => a = NextIndex
         /\ Instr.op = "new" => Loaded # <<>>
<1>1. Running /\ NextIndex \in 1..Len(Instr.args)
  BY StillLoading DEF GInv
<1>2. IsSeq(Loaded) /\ Len(Loaded) \in Nat /\ Len(Instr.args) \in Nat
  BY <1>1, LoadedSoFar
<1>3. \A a \in 1..Len(Instr.args) : Where(Instr, a) = Len(Loaded) + 1 => a = NextIndex
  BY <1>2 DEF Where, NextIndex
<1>4. Instr.op = "new" => Loaded # <<>>
  BY <1>1, <1>2, SequenceHas DEF NextIndex
<1>5. Len(Loaded) + 1 <= Len(Instr.args)
         + (IF Instr.op = "new" \/ IsCallOf(Instr, {"__hulk_concat"}) THEN 1 ELSE 0)
  <2>1. PICK m \in Nat, n \in Nat : m = Len(Loaded) /\ n = Len(Instr.args)
    BY <1>2
  <2>2. IF Instr.op = "new" THEN m <= n ELSE m + 1 <= n
    BY <1>1, <2>1 DEF NextIndex
  <2>3. CASE Instr.op = "new"
    BY <2>1, <2>2, <2>3
  <2>4. CASE Instr.op # "new"
    <3>1. m + 1 <= n + 0 /\ m + 1 <= n + 1
      BY <2>2, <2>4
    <3>2. CASE IsCallOf(Instr, {"__hulk_concat"})
      BY <2>1, <2>4, <3>1, <3>2
    <3>3. CASE ~ IsCallOf(Instr, {"__hulk_concat"})
      BY <2>1, <2>4, <3>1, <3>3
    <3> QED
      BY <3>2, <3>3
  <2> QED
    BY <2>3, <2>4
<1>6. Took(Instr, Loaded, Frame.temps)
  BY <1>1, HereIsKnown
<1>7. \A a \in 1..Len(Instr.args) :
        Where(Instr, a) = Len(Loaded) + 1 => Came(Instr.args[a], v, Frame.temps)
  BY <1>3 DEF NextOperand
<1>8. Took(Instr, Append(Loaded, v), Frame.temps)
  BY <1>2, <1>5, <1>6, <1>7, TookMore
<1> QED
  BY <1>3, <1>4, <1>8

\* load_val of a temporary or of a constant.
LEMMA OperandRooted ==
  ASSUME LawfulOnes, RootedOnes, GInv, LoadOperand
  PROVE  HInv' /\ NInv' /\ RInv'
<1> DEFINE v == IF NextOperand.k = "temp" THEN Frame.temps[NextOperand.v] ELSE NextOperand
<1>1. /\ LoadingOperand /\ NextOperand.k # "str"
      /\ NextOperand.k = "temp" => NextOperand.v \in DOMAIN Frame.temps
      /\ Load(v) /\ exe' = exe /\ heap' = heap /\ shadow' = shadow
  BY DEF LoadOperand
<1>2. Running /\ NextIndex \in 1..Len(Instr.args) /\ (IsConcat => Len(Loaded) # 2)
  BY <1>1, StillLoading DEF GInv
<1>3. HInv'
  BY <1>1 DEF GInv, HInv
<1>4. Came(NextOperand, v, Frame.temps)
  BY <1>1 DEF Came, IsConstant
<1> HIDE DEF v
<1>5. ASSUME Tracked
      PROVE  /\ KindsOK(code, Known, heap')
             /\ Took(Instr, Append(Loaded, v), Frame.temps)
             /\ \A a \in 1..Len(Instr.args) :
                  OnlyLiteral(Instr, a) /\ Where(Instr, a) \in 1..Len(Loaded) + 1 =>
                    Lives(heap', Append(Loaded, v)[Where(Instr, a)])
             /\ Instr.op = "new" => /\ Lives(heap', Append(Loaded, v)[1])
                                    /\ Append(Loaded, v)[1].k # "num"
  <2>1. KindsOK(code, Known, heap')
    BY <1>1, <1>5 DEF GInv, NInv
  <2>2. /\ Took(Instr, Append(Loaded, v), Frame.temps)
        /\ \A a \in 1..Len(Instr.args) : Where(Instr, a) = Len(Loaded) + 1 => a = NextIndex
        /\ Instr.op = "new" => Loaded # <<>>
    BY <1>1, <1>4, <1>5, NextTaken
  <2>3. /\ IsSeq(Loaded) /\ Len(Loaded) \in Nat /\ Instr = At(code, Frame)
        /\ \A a \in 1..Len(Loaded) : Append(Loaded, v)[a] = Loaded[a]
    BY <1>2, LoadedSoFar
  <2>4. InnermostOK(code, Frame, heap, shadow) /\ Sorted(code, Known, Frame)
    BY <1>2, <1>5, HereIsKnown
  <2>5. ASSUME NEW a \in 1..Len(Instr.args), OnlyLiteral(Instr, a),
               Where(Instr, a) \in 1..Len(Loaded) + 1
        PROVE  Lives(heap', Append(Loaded, v)[Where(Instr, a)])
    <3>1. Where(Instr, a) # Len(Loaded) + 1
      BY <1>1, <2>2, <2>5 DEF OnlyLiteral, NextOperand
    <3>2. Where(Instr, a) \in 1..Len(Loaded)
      BY <2>3, <2>5, <3>1
    <3> QED
      BY <1>1, <2>3, <2>4, <2>5, <3>2 DEF InnermostOK, Loaded
  <2>6. ASSUME Instr.op = "new"
        PROVE  Lives(heap', Append(Loaded, v)[1]) /\ Append(Loaded, v)[1].k # "num"
    <3>1. 1 \in 1..Len(Loaded) /\ Loaded # <<>>
      BY <2>2, <2>3, <2>6, SequenceHas
    <3>2. Lives(heap, Loaded[1]) /\ Loaded[1].k # "num"
      BY <2>3, <2>4, <2>6, <3>1 DEF InnermostOK, Sorted, Loaded
    <3> QED
      BY <1>1, <2>3, <3>1, <3>2
  <2> QED
    BY <2>1, <2>2, <2>5, <2>6
<1> QED
  BY <1>1, <1>2, <1>3, <1>5, LoadingMore

\* materialize_string: what the operands before have said of references has been
\* pushed, because the instruction allocates.
LEMMA LiteralRooted ==
  ASSUME LawfulOnes, RootedOnes, GInv, LoadString
  PROVE  HInv' /\ NInv' /\ RInv'
<1>1. LoadingOperand /\ NextOperand.k = "str" /\ Load(NewObject) /\ exe' = exe /\ shadow' = shadow
  BY DEF LoadString
<1>2. PICK h \in Heaps : Allocate(h, "String", Text(NextOperand.v))
  BY DEF LoadString
<1>3. Running /\ NextIndex \in 1..Len(Instr.args) /\ (IsConcat => Len(Loaded) # 2)
  BY <1>1, StillLoading DEF GInv
<1>4. PICK words : words = Text(NextOperand.v)
  OBVIOUS
<1>5. RefsIn(words) = {} /\ \A A : KindOK(code, A, [tag |-> "String", words |-> words])
  BY <1>3, <1>4, NewKind DEF GInv
<1>6. Allocate(h, "String", words)
  BY <1>2, <1>4
<1>7. /\ HInv' /\ Reach(heap, shadow) \subseteq Reach(heap', shadow)
      /\ Lives(heap', NewObject)
  BY <1>1, <1>3, <1>5, <1>6, NewHeap
<1>8. HasLiteral(Instr) /\ Allocates(Instr)
  BY <1>1, <1>3 DEF HasLiteral, Allocates, NextOperand
<1>9. Came(NextOperand, NewObject, Frame.temps)
  BY <1>1 DEF Came, IsConstant, NewObject, Ref
<1>10. ASSUME Tracked
       PROVE  /\ KindsOK(code, Known, heap')
              /\ Took(Instr, Append(Loaded, NewObject), Frame.temps)
              /\ \A a \in 1..Len(Instr.args) :
                   OnlyLiteral(Instr, a) /\ Where(Instr, a) \in 1..Len(Loaded) + 1 =>
                     Lives(heap', Append(Loaded, NewObject)[Where(Instr, a)])
              /\ Instr.op # "new"
  <2>1. KindsOK(code, Known, heap')
    BY <1>5, <1>6, <1>10, NewKinds DEF GInv, NInv
  <2>2. Took(Instr, Append(Loaded, NewObject), Frame.temps)
    BY <1>1, <1>9, <1>10, NextTaken
  <2>3. Instr.op # "new"
    BY <1>3, <1>8, <1>10, HereIsKnown DEF UsesSafely
  <2>4. ASSUME NEW a \in 1..Len(Instr.args), OnlyLiteral(Instr, a)
        PROVE  Lives(heap', Append(Loaded, NewObject)[Where(Instr, a)])
    <3>1. a = NextIndex
      BY <1>1, <1>3, <2>4 DEF OnlyLiteral, NextOperand
    <3>2. Where(Instr, a) = Len(Loaded) + 1
      BY <2>3, <3>1 DEF Where, NextIndex
    <3>3. Append(Loaded, NewObject)[Len(Loaded) + 1] = NewObject
      BY <1>3, LoadedSoFar
    <3> QED
      BY <1>7, <3>2, <3>3
  <2> QED
    BY <2>1, <2>2, <2>3, <2>4
<1> QED
  BY <1>1, <1>3, <1>7, <1>8, <1>10, LoadingMore

\* emit_new: its object is all that has been loaded, and refers to nothing.
LEMMA ObjectRooted ==
  ASSUME LawfulOnes, RootedOnes, GInv, AllocateNew
  PROVE  HInv' /\ NInv' /\ RInv'
<1>1. /\ Running /\ Instr.op = "new" /\ Loaded = <<>>
      /\ Load(NewObject) /\ exe' = exe /\ shadow' = shadow
  BY DEF AllocateNew
<1>2. PICK h, words :
        /\ h \in Heaps /\ Allocate(h, Instr.f, words)
        /\ words = [a \in FieldsOf(code, Instr.f) |-> Null]
  BY <1>1 DEF AllocateNew
<1>3. /\ IsSeq(Loaded) /\ Len(Loaded) = 0 /\ Len(Instr.args) \in Nat /\ CallsFit(code, Instr)
      /\ Append(Loaded, NewObject)[Len(Loaded) + 1] = NewObject /\ IInv
  BY <1>1, LoadedSoFar, SequenceHas
<1>4. Append(Loaded, NewObject)[1] = NewObject
  BY <1>3
<1>5. \A f \in DOMAIN words : words[f].k = "null"
  BY <1>2 DEF Null
<1>6. RefsIn(words) = {}
  BY <1>5 DEF RefsIn
<1>7. /\ HInv' /\ Reach(heap, shadow) \subseteq Reach(heap', shadow)
      /\ Lives(heap', NewObject)
  BY <1>1, <1>2, <1>6, NewHeap
<1>8. Instr.f \in DOMAIN code.types /\ Instr.f \notin {"String", "Range", "Vector", "ObjArray"}
  BY <1>1, <1>3, RuntimeTypes DEF CallsFit
<1>9. Allocates(Instr) /\ ~ IsConcat
  BY <1>1 DEF Allocates, IsConcat
<1>10. ASSUME Tracked
       PROVE  /\ KindsOK(code, Known, heap')
              /\ Took(Instr, Append(Loaded, NewObject), Frame.temps)
              /\ \A a \in 1..Len(Instr.args) : Where(Instr, a) \notin 1..Len(Loaded) + 1
  <2>1. KindOK(code, Known, [tag |-> Instr.f, words |-> words])
    BY <1>2, <1>5, <1>6, <1>8 DEF KindOK, Sorts
  <2>2. KindsOK(code, Known, heap')
    BY <1>2, <1>10, <2>1, NewKinds DEF GInv, NInv
  <2>3. \A a \in 1..Len(Instr.args) : Where(Instr, a) # 1
    BY <1>1 DEF Where
  <2>4. Took(Instr, Loaded, Frame.temps)
    BY <1>1, <1>10, HereIsKnown
  <2>5. Took(Instr, Append(Loaded, NewObject), Frame.temps)
    <3>1. PICK n \in Nat : n = Len(Instr.args)
      BY <1>3
    <3>2. 0 + 1 <= n + 1 /\ 0 + 1 = 1
      OBVIOUS
    <3>3. Len(Loaded) + 1 <= Len(Instr.args)
             + (IF Instr.op = "new" \/ IsCallOf(Instr, {"__hulk_concat"}) THEN 1 ELSE 0)
      BY <1>1, <1>3, <3>1, <3>2
    <3>4. \A a \in 1..Len(Instr.args) :
            Where(Instr, a) = Len(Loaded) + 1 => Came(Instr.args[a], NewObject, Frame.temps)
      BY <1>3, <2>3
    <3> QED
      BY <1>3, <2>4, <3>3, <3>4, TookMore
  <2> QED
    BY <1>3, <2>2, <2>3, <2>5
<1>11. NewObject.k # "num"
  BY DEF NewObject, Ref
<1> QED
  BY <1>1, <1>3, <1>4, <1>7, <1>9, <1>10, <1>11, LoadingMore

\* hulk_string_concat: both operands are reached, so the collection its
\* allocation starts does not free what it reads again.
LEMMA ConcatRooted ==
  ASSUME LawfulOnes, RootedOnes, GInv, Concat
  PROVE  HInv' /\ NInv' /\ RInv'
<1>1. /\ Executing("call") /\ Instr.op = "call" /\ Instr.f = "__hulk_concat"
      /\ Load(NewObject) /\ exe' = exe /\ shadow' = shadow
  BY DEF Concat, IsConcat
<1>2. PICK h \in Heaps : Allocate(h, "String", NoWords)
  BY DEF Concat
<1>3. Running /\ Len(Loaded) = 2
  BY <1>1, RuntimeCall DEF GInv
<1>4. /\ IsSeq(Loaded) /\ Len(Instr.args) = 2 /\ IInv
      /\ \A a \in 1..Len(Loaded) : Append(Loaded, NewObject)[a] = Loaded[a]
      /\ Append(Loaded, NewObject)[Len(Loaded) + 1] = NewObject
  BY <1>1, <1>3, LoadedSoFar, Counted
<1>5. /\ Append(Loaded, NewObject)[1] = Loaded[1] /\ Append(Loaded, NewObject)[2] = Loaded[2]
      /\ Append(Loaded, NewObject)[3] = NewObject
  BY <1>3, <1>4
<1>6. RefsIn(NoWords) = {} /\ \A A : KindOK(code, A, [tag |-> "String", words |-> NoWords])
  BY <1>3, NewKind DEF GInv
<1>7. /\ HInv' /\ Reach(heap, shadow) \subseteq Reach(heap', shadow)
      /\ Lives(heap', NewObject)
  BY <1>1, <1>2, <1>3, <1>6, NewHeap
<1>8. IsCallOf(Instr, {"__hulk_concat"}) /\ Allocates(Instr) /\ Instr.op # "new"
  BY <1>1 DEF Allocates, IsCallOf, Allocators
<1>9. ASSUME Tracked
      PROVE  /\ KindsOK(code, Known, heap')
             /\ Took(Instr, Append(Loaded, NewObject), Frame.temps)
             /\ \A j \in 1..3 : Lives(heap', Append(Loaded, NewObject)[j])
             /\ \A a \in 1..Len(Instr.args) : ~ OnlyLiteral(Instr, a)
  <2>1. KindsOK(code, Known, heap')
    BY <1>2, <1>6, <1>9, NewKinds DEF GInv, NInv
  <2>2. \A a \in 1..2 : IsReached(FactsOf(code, Frame), Instr.args[a])
    BY <1>3, <1>8, <1>9, HereIsKnown DEF UsesSafely
  <2>3. ASSUME NEW a \in 1..2
        PROVE  Lives(heap', Append(Loaded, NewObject)[a]) /\ ~ OnlyLiteral(Instr, a)
    <3>1. a \in 1..Len(Instr.args) /\ Where(Instr, a) = a /\ a \in 1..Len(Loaded)
      BY <1>3, <1>4, <1>8 DEF Where
    <3>2. IsReached(FactsOf(code, Frame), Instr.args[a])
      BY <2>2
    <3>3. Stays(heap, shadow, Loaded[a])
      BY <1>3, <1>9, <3>1, <3>2, ReachedOperand
    <3>4. Stays(heap', shadow', Loaded[a])
      BY <1>1, <1>7, <3>3 DEF Stays
    <3>5. Lives(heap', Loaded[a])
      BY <1>7, <3>4, ReachedIsLive DEF HInv
    <3>6. ~ OnlyLiteral(Instr, a)
      BY <3>2 DEF OnlyLiteral, IsReached, IsConstant
    <3> QED
      BY <1>4, <3>1, <3>5, <3>6
  <2>4. Lives(heap', Append(Loaded, NewObject)[3])
    BY <1>5, <1>7
  <2>5. Took(Instr, Loaded, Frame.temps)
    BY <1>3, <1>9, HereIsKnown
  <2>6. Took(Instr, Append(Loaded, NewObject), Frame.temps)
    <3>1. \A a \in 1..Len(Instr.args) : Where(Instr, a) # Len(Loaded) + 1
      BY <1>3, <1>4, <1>8 DEF Where
    <3>2. Len(Loaded) + 1 <= Len(Instr.args)
             + (IF Instr.op = "new" \/ IsCallOf(Instr, {"__hulk_concat"}) THEN 1 ELSE 0)
      BY <1>3, <1>4, <1>8
    <3>3. \A a \in 1..Len(Instr.args) :
            Where(Instr, a) = Len(Loaded) + 1 => Came(Instr.args[a], NewObject, Frame.temps)
      BY <3>1
    <3>4. Len(Instr.args) \in Nat
      BY <1>4
    <3> QED
      BY <1>4, <2>5, <3>2, <3>3, <3>4, TookMore
  <2>7. \A j \in 1..3 : j \in 1..2 \/ j = 3
    OBVIOUS
  <2> QED
    BY <1>4, <2>1, <2>3, <2>4, <2>6, <2>7
<1> QED
  BY <1>1, <1>3, <1>7, <1>8, <1>9, LoadingMore

\* Rooted code converts no number in a concatenation.
LEMMA NothingCoerced ==
  ASSUME LawfulOnes, RootedOnes, GInv, Tracked
  PROVE  ~ CoercionDue
<1> SUFFICES ASSUME CoercionDue PROVE FALSE
  OBVIOUS
<1>1. Running /\ IsConcat /\ Loaded # <<>> /\ Last(Loaded).k = "num"
  BY DEF CoercionDue
<1>2. IsSeq(Loaded) /\ Len(Loaded) \in Nat /\ Len(Instr.args) = 2 /\ Instr = At(code, Frame)
  BY <1>1, LoadedSoFar, Counted DEF IsConcat
<1>3. Instr.op # "new" /\ IsCallOf(Instr, {"__hulk_concat"})
  BY <1>1 DEF IsConcat, IsCallOf
<1>4. Took(Instr, Loaded, Frame.temps)
  BY <1>1, HereIsKnown
<1>5. PICK n \in Nat : n = Len(Loaded)
  BY <1>2
<1>6. n # 0 /\ n <= 2 + 1
  BY <1>1, <1>2, <1>3, <1>4, <1>5, SequenceHas DEF Took
<1>7. n # 3
  BY <1>1, <1>2, <1>5, UnderWay DEF GInv, FrameOK, Loads, Loaded, IsConcat, Last
<1>8. n \in 1..2 /\ Loaded[n].k = "num" /\ n \in 1..Len(Loaded) /\ n \in 1..Len(Instr.args)
  BY <1>1, <1>2, <1>5, <1>6, <1>7 DEF Last
<1>9. MayBe("num", Known.held["num"], Frame.fn, Instr.args[n])
  BY <1>1, <1>3, <1>8, SortLoaded DEF Where, Sorts
<1> QED
  BY <1>1, <1>3, <1>8, <1>9, HereIsKnown DEF UsesSafely

\* coerce_val_for_concat.
LEMMA CoercionRooted ==
  ASSUME LawfulOnes, RootedOnes, GInv, ConcatCoerce
  PROVE  HInv' /\ NInv' /\ RInv'
<1>1. CoercionDue /\ exe' = exe /\ shadow' = shadow
  BY DEF ConcatCoerce
<1>2. PICK h, n : h \in Heaps /\ Allocate(h, "String", Text(n))
  BY DEF ConcatCoerce
<1>3. Running
  BY <1>1 DEF CoercionDue
<1>4. PICK words : words = Text(n)
  OBVIOUS
<1>5. RefsIn(words) = {}
  BY <1>3, <1>4, NewKind DEF GInv
<1>6. Allocate(h, "String", words) /\ h \in Heaps
  BY <1>2, <1>4
<1>7. HInv'
  BY <1>1, <1>3, <1>5, <1>6, NewHeap
<1> QED
  BY <1>1, <1>7, NothingCoerced, Untracked

-----------------------------------------------------------------------------
(* What an instruction leaves of what is known.                            *)

\* What the body or its callers have on the shadow stack is reached.
LEMMA AnchoredIsReached ==
  ASSUME NEW h, NEW s, NothingDangles(h, s), DOMAIN s = 1..Len(s), Len(s) \in Nat,
         NEW base \in Nat, base <= Len(s), NEW p, NEW v, Anchored(s, base, p, v)
  PROVE  Stays(h, s, v)
<1> SUFFICES ASSUME v.k = "ref" PROVE v.v \in Reach(h, s)
  BY DEF Stays
<1>1. PICK j \in DOMAIN s : s[j] = v
  BY DEF Anchored
<1>2. v.v \in RefsIn(s)
  BY <1>1 DEF RefsIn
<1> QED
  BY <1>2, ReachedIsSound

\* A step that leaves the bottom of the shadow stack alone, and pushes what it
\* says it does.
ShadowMoves(b, n, f, s, t) ==
  /\ DOMAIN t = 1..Len(t) /\ Len(t) \in Nat /\ f.base <= Len(t)
  /\ Len(t) = f.base + DepthAt(b, n) + Change(b[n])
  /\ \A j \in 1..f.base + DepthAt(b, n) : j <= Len(t) => t[j] = s[j]
  /\ b[n].op = "push" /\ b[n].args[1].k = "temp" /\ b[n].args[1].v \in DOMAIN f.temps =>
       Anchored(t, f.base, DepthAt(b, n) + 1, f.temps[b[n].args[1].v])

\* What the body has on the shadow stack after an instruction.
LEMMA LeftKept ==
  ASSUME NEW c, NEW A, NEW b, NEW n, NEW F, DepthAt(b, n) \in Nat,
         \A x \in F.kept : x[2] \in 0..DepthAt(b, n),
         NEW f, f.base \in Nat, NEW s, NEW t, KeptHolds(F, s, f), ShadowMoves(b, n, f, s, t)
  PROVE  KeptHolds(Left(c, A, b, n, F), t, f)
<1> DEFINE i == b[n]
           d == DepthAt(b, n)
<1>1. ASSUME NEW x \in F.kept, i.op = "pop" => x[2] # d, x[1] \in DOMAIN f.temps
      PROVE  Anchored(t, f.base, x[2], f.temps[x[1]])
  <2>1. Anchored(s, f.base, x[2], f.temps[x[1]]) /\ x[2] \in Nat /\ x[2] <= d
    BY <1>1 DEF KeptHolds
  <2> SUFFICES ASSUME NEW v, v = f.temps[x[1]], v.k = "ref"
               PROVE  IF x[2] = 0 THEN \E j \in 1..f.base : t[j] = v
                      ELSE f.base + x[2] \in 1..Len(t) /\ t[f.base + x[2]] = v
    BY DEF Anchored
  <2>2. CASE x[2] = 0
    <3>1. PICK j \in 1..f.base : s[j] = v
      BY <2>1, <2>2 DEF Anchored
    <3>2. j \in 1..f.base + d /\ j <= Len(t)
      BY <3>1 DEF ShadowMoves
    <3> QED
      BY <2>2, <3>1, <3>2 DEF ShadowMoves
  <2>3. CASE x[2] # 0
    <3>1. f.base + x[2] \in 1..f.base + d /\ s[f.base + x[2]] = v
      BY <2>1, <2>3 DEF Anchored
    <3>2. f.base + x[2] <= Len(t)
      <4>1. PICK p \in Nat, m \in Nat, e \in Nat : p = x[2] /\ m = f.base /\ e = d
        BY <2>1
      <4>2. CASE i.op = "pop"
        <5>1. Len(t) = m + e + -1 /\ p <= e /\ p # e
          BY <1>1, <2>1, <4>1, <4>2 DEF ShadowMoves, Change
        <5> QED
          BY <4>1, <5>1
      <4>3. CASE i.op # "pop"
        <5>1. (Len(t) = m + e + 1 \/ Len(t) = m + e + 0) /\ p <= e
          BY <2>1, <4>1, <4>3 DEF ShadowMoves, Change
        <5> QED
          BY <4>1, <5>1
      <4> QED
        BY <4>2, <4>3
    <3>3. f.base + x[2] \in 1..Len(t)
      BY <3>1, <3>2 DEF ShadowMoves
    <3> QED
      BY <2>3, <3>1, <3>2, <3>3 DEF ShadowMoves
  <2> QED
    BY <2>2, <2>3
<1>2. ASSUME i.op = "push", i.args[1].k = "temp", NEW x, x = <<i.args[1].v, d + 1>>,
             x[1] \in DOMAIN f.temps
      PROVE  Anchored(t, f.base, x[2], f.temps[x[1]])
  BY <1>2 DEF ShadowMoves
<1>3. \A x \in Left(c, A, b, n, F).kept :
        \/ x \in F.kept /\ (i.op = "pop" => x[2] # d)
        \/ i.op = "push" /\ i.args[1].k = "temp" /\ x = <<i.args[1].v, d + 1>>
  BY DEF Left
<1> QED
  BY <1>1, <1>2, <1>3 DEF KeptHolds

\* What held before the instruction and what it does not touch hold after it.
LEMMA LeftHolds ==
  ASSUME NEW c, NEW A, NEW b, NEW n, NEW F, DepthAt(b, n) \in Nat,
         \A x \in F.kept : x[2] \in 0..DepthAt(b, n),
         NEW f, f.base \in Nat, NEW h, NEW s, NEW g, NEW t,
         KeptHolds(F, s, f), ShadowMoves(b, n, f, s, t), NothingDangles(g, t),
         b[n].op \notin {"set", "pop"} /\ Callees(c, b[n]) = {} =>
           ReachedHolds(F, h, s, f) /\ Reach(h, s) \subseteq Reach(g, t),
         ~ Allocates(b[n]) /\ Callees(c, b[n]) \subseteq A.quiet =>
           LiveHolds(F, h, f) /\ LiveIn(h) \subseteq LiveIn(g)
  PROVE  LET L == Left(c, A, b, n, F)
         IN  KeptHolds(L, t, f) /\ ReachedHolds(L, g, t, f) /\ LiveHolds(L, g, f)
<1> DEFINE i == b[n]
           L == Left(c, A, b, n, F)
<1>1. KeptHolds(L, t, f)
  BY LeftKept
<1>2. /\ \A u \in L.reached : (\E x \in L.kept : x[1] = u)
                              \/ (i.op \notin {"set", "pop"} /\ Callees(c, i) = {} /\ u \in F.reached)
      /\ \A u \in L.live : u \in L.reached
                           \/ (~ Allocates(i) /\ Callees(c, i) \subseteq A.quiet /\ u \in F.live)
  BY DEF Left, Temps
<1> HIDE DEF L
<1>3. ASSUME NEW u \in L.reached, u \in DOMAIN f.temps PROVE Stays(g, t, f.temps[u])
  <2>1. CASE \E x \in L.kept : x[1] = u
    <3>1. PICK x \in L.kept : x[1] = u
      BY <2>1
    <3>2. Anchored(t, f.base, x[2], f.temps[u])
      BY <1>1, <1>3, <3>1 DEF KeptHolds
    <3> QED
      BY <3>2, AnchoredIsReached DEF ShadowMoves
  <2>2. CASE i.op \notin {"set", "pop"} /\ Callees(c, i) = {} /\ u \in F.reached
    BY <1>3, <2>2 DEF ReachedHolds, Stays
  <2> QED
    BY <1>2, <2>1, <2>2
<1>4. ASSUME NEW u \in L.live, u \in DOMAIN f.temps PROVE Lives(g, f.temps[u])
  <2>1. CASE u \in L.reached
    BY <1>3, <1>4, <2>1, ReachedIsLive
  <2>2. CASE ~ Allocates(i) /\ Callees(c, i) \subseteq A.quiet /\ u \in F.live
    BY <1>4, <2>2 DEF LiveHolds, Lives
  <2> QED
    BY <1>2, <2>1, <2>2
<1>5. ReachedHolds(L, g, t, f) /\ LiveHolds(L, g, f)
  BY <1>3, <1>4 DEF ReachedHolds, LiveHolds
<1> QED
  BY <1>1, <1>5 DEF L

\* And so does what is known of what it stores.
LEMMA AfterHolds ==
  ASSUME NEW c, NEW A, NEW b, NEW n, NEW F, b[n].op \in Producers, NEW f, NEW g, NEW t,
         KeptHolds(Left(c, A, b, n, F), t, f), ReachedHolds(Left(c, A, b, n, F), g, t, f),
         LiveHolds(Left(c, A, b, n, F), g, f),
         NEW v, \A p \in Places(F, b[n]) : Anchored(t, f.base, p, v),
         GivesReached(F, b[n]) => Stays(g, t, v), GivesLive(F, b[n]) => Lives(g, v),
         NEW x, x.base = f.base, x.temps = Stored(f.temps, b[n].dst, v)
  PROVE  LET G == After(c, A, b, n, F)
         IN  KeptHolds(G, t, x) /\ ReachedHolds(G, g, t, x) /\ LiveHolds(G, g, x)
<1> DEFINE i == b[n]
           L == Left(c, A, b, n, F)
           G == After(c, A, b, n, F)
<1>1. /\ \A y \in G.kept : (y \in L.kept /\ y[1] # i.dst)
                           \/ (\E p \in Places(F, i) : y = <<i.dst, p>>)
      /\ \A u \in G.reached : (u \in L.reached /\ u # i.dst) \/ (u = i.dst /\ GivesReached(F, i))
      /\ \A u \in G.live : (u \in L.live /\ u # i.dst) \/ (u = i.dst /\ GivesLive(F, i))
  BY DEF After
<1>2. \A u \in DOMAIN x.temps : /\ u # i.dst => u \in DOMAIN f.temps /\ x.temps[u] = f.temps[u]
                                /\ u = i.dst => x.temps[u] = v
  BY DEF Stored
<1> HIDE DEF L, G
<1>3. ASSUME NEW y \in G.kept, y[1] \in DOMAIN x.temps
      PROVE  Anchored(t, x.base, y[2], x.temps[y[1]])
  <2>1. CASE y \in L.kept /\ y[1] # i.dst
    BY <1>2, <1>3, <2>1 DEF KeptHolds, L
  <2>2. CASE \E p \in Places(F, i) : y = <<i.dst, p>>
    <3>1. PICK p \in Places(F, i) : y = <<i.dst, p>>
      BY <2>2
    <3>2. y[1] = i.dst /\ y[2] = p
      BY <3>1
    <3> QED
      BY <1>2, <1>3, <3>2
  <2> QED
    BY <1>1, <2>1, <2>2
<1>4. ASSUME NEW u \in G.reached, u \in DOMAIN x.temps PROVE Stays(g, t, x.temps[u])
  <2>1. CASE u \in L.reached /\ u # i.dst
    BY <1>2, <1>4, <2>1 DEF ReachedHolds, L
  <2>2. CASE u = i.dst /\ GivesReached(F, i)
    BY <1>2, <1>4, <2>2
  <2> QED
    BY <1>1, <2>1, <2>2
<1>5. ASSUME NEW u \in G.live, u \in DOMAIN x.temps PROVE Lives(g, x.temps[u])
  <2>1. CASE u \in L.live /\ u # i.dst
    BY <1>2, <1>5, <2>1 DEF LiveHolds, L
  <2>2. CASE u = i.dst /\ GivesLive(F, i)
    BY <1>2, <1>5, <2>2
  <2> QED
    BY <1>1, <2>1, <2>2
<1>6. KeptHolds(G, t, x) /\ ReachedHolds(G, g, t, x) /\ LiveHolds(G, g, x)
  BY <1>3, <1>4, <1>5 DEF KeptHolds, ReachedHolds, LiveHolds
<1> QED
  BY <1>6 DEF G

\* Where the next instruction begins, nothing has been loaded.
LEMMA Arrived ==
  ASSUME NEW c, NEW x, x.loaded = <<>>, NEW g, NEW t, NEW G, Within(FactsOf(c, x), G),
         KeptHolds(G, t, x), ReachedHolds(G, g, t, x), LiveHolds(G, g, x)
  PROVE  InnermostOK(c, x, g, t)
<1>1. Len(x.loaded) = 0
  BY EmptySeq
<1>2. /\ KeptHolds(FactsOf(c, x), t, x) /\ ReachedHolds(FactsOf(c, x), g, t, x)
      /\ LiveHolds(FactsOf(c, x), g, x)
  BY DEF Within, KeptHolds, ReachedHolds, LiveHolds
<1>3. \A a : Where(At(c, x), a) \notin 1..Len(x.loaded)
  BY <1>1
<1> QED
  BY <1>1, <1>2, <1>3 DEF InnermostOK

\* What is left by the instruction under way.
LEMMA HereIsLeft ==
  ASSUME LawfulOnes, RootedOnes, GInv, Running, Tracked,
         ShadowMoves(Body, Frame.pc, Frame, shadow, shadow'), NothingDangles(heap', shadow'),
         Instr.op \in {"set", "pop"} \/ Reach(heap, shadow) \subseteq Reach(heap', shadow'),
         Allocates(Instr) \/ LiveIn(heap) \subseteq LiveIn(heap')
  PROVE  LET L == Left(code, Known, Body, Frame.pc, FactsOf(code, Frame))
         IN  /\ KeptHolds(L, shadow', Frame) /\ ReachedHolds(L, heap', shadow', Frame)
             /\ LiveHolds(L, heap', Frame)
<1>1. /\ InnermostOK(code, Frame, heap, shadow) /\ Instr = At(code, Frame)
      /\ \A x \in FactsOf(code, Frame).kept : x[2] \in 0..DepthAt(Body, Frame.pc)
  BY HereIsKnown, UnderWay DEF GInv
<1>2. Frame.base \in Nat /\ DepthAt(Body, Frame.pc) \in Nat /\ Instr = Body[Frame.pc]
  BY BelowIsThere DEF GInv, Instr
<1>3. PICK F, f, g, t : F = FactsOf(code, Frame) /\ f = Frame /\ g = heap' /\ t = shadow'
  OBVIOUS
<1>4. /\ KeptHolds(F, shadow, f) /\ ReachedHolds(F, heap, shadow, f)
      /\ ~ Allocates(Instr) => LiveHolds(F, heap, f)
  BY <1>1, <1>3 DEF InnermostOK
<1>5. LET L == Left(code, Known, Body, f.pc, F)
      IN  KeptHolds(L, t, f) /\ ReachedHolds(L, g, t, f) /\ LiveHolds(L, g, f)
  BY <1>1, <1>2, <1>3, <1>4, LeftHolds
<1> QED
  BY <1>3, <1>5

\* Nothing is what has been loaded of any instruction at first.
LEMMA NothingTook ==
  ASSUME NEW i, Len(i.args) \in Nat, NEW l, Len(l) = 0, NEW temps
  PROVE  Took(i, l, temps)
<1>1. PICK n \in Nat : n = Len(i.args)
  OBVIOUS
<1>2. 0 <= n + 0 /\ 0 <= n + 1
  OBVIOUS
<1>3. Len(l) <= Len(i.args)
         + (IF i.op = "new" \/ IsCallOf(i, {"__hulk_concat"}) THEN 1 ELSE 0)
  <2>1. CASE i.op = "new" \/ IsCallOf(i, {"__hulk_concat"})
    BY <1>1, <1>2, <2>1
  <2>2. CASE ~ (i.op = "new" \/ IsCallOf(i, {"__hulk_concat"}))
    BY <1>1, <1>2, <2>2
  <2> QED
    BY <2>1, <2>2
<1>4. \A a : Where(i, a) \notin 1..Len(l)
  OBVIOUS
<1> QED
  BY <1>3, <1>4 DEF Took

\* An instruction that stores what it computes.
LEMMA Storing ==
  ASSUME LawfulOnes, RootedOnes, GInv, Running, exe' = exe, shadow' = shadow, HInv',
         Instr.op \in Producers, NEW v, Define(v),
         Tracked =>
           LET F == FactsOf(code, Frame)
           IN  /\ KindsOK(code, Known, heap')
               /\ Reach(heap, shadow) \subseteq Reach(heap', shadow)
               /\ Allocates(Instr) \/ LiveIn(heap) \subseteq LiveIn(heap')
               /\ GivesSuch(v, Frame.fn, Instr)
               /\ \A p \in Places(F, Instr) : Anchored(shadow, Frame.base, p, v)
               /\ GivesReached(F, Instr) => Stays(heap', shadow, v)
               /\ GivesLive(F, Instr) => Lives(heap', v)
  PROVE  HInv' /\ NInv' /\ RInv'
<1> DEFINE x == [fn |-> Frame.fn, pc |-> Frame.pc + 1, loaded |-> <<>>, base |-> Frame.base,
                 temps |-> Stored(Frame.temps, Instr.dst, v)]
<1>1. SetFrame(x)
  <2> DEFINE y == [Frame EXCEPT !.pc = Frame.pc + 1, !.loaded = <<>>,
                                !.temps = Stored(Frame.temps, Instr.dst, v)]
  <2>1. SetFrame(y)
    BY DEF Define
  <2>2. y = x
    BY FrameIsRecord, FrameUpdated DEF GInv
  <2> HIDE DEF y, x
  <2> QED
    BY <2>1, <2>2
<1>2. /\ x.fn = Frame.fn /\ x.pc = Frame.pc + 1 /\ x.loaded = <<>> /\ x.base = Frame.base
      /\ x.temps = Stored(Frame.temps, Instr.dst, v)
  OBVIOUS
<1> HIDE DEF x
<1>3. /\ IInv /\ Instr = Body[Frame.pc] /\ Frame.base \in Nat /\ Len(shadow) \in Nat
      /\ Frame.base <= Len(shadow) /\ DOMAIN shadow = 1..Len(shadow)
      /\ Len(shadow) = Frame.base + DepthAt(Body, Frame.pc) /\ DepthAt(Body, Frame.pc) \in Nat
  BY BelowIsThere DEF GInv, Instr
<1>4. Change(Instr) = 0 /\ Instr.op \notin {"jump", "return", "push", "pop", "set"}
  BY DEF Change, Producers, Calls
<1>5. Frame.pc + 1 \in Successors(Body, Frame.pc)
  BY <1>3, <1>4, NextIsAhead
<1>6. ASSUME Tracked
      PROVE  /\ Sorted(code, Known, x) /\ Took(At(code, x), x.loaded, x.temps)
             /\ InnermostOK(code, x, heap', shadow')
             /\ LiveIn(heap) \subseteq LiveIn(heap') \/ Allocates(Instr)
  <2> DEFINE F == FactsOf(code, Frame)
  <2>1. /\ IsRooted(code) /\ Frame.fn \in DOMAIN code.bodies /\ Frame.pc \in 1..Len(Body)
        /\ Sorted(code, Known, Frame) /\ Body = code.bodies[Frame.fn]
    BY <1>6, HereIsKnown DEF Body
  <2>2. Sorted(code, Known, x)
    <3>1. \A u \in DOMAIN x.temps : /\ u # Instr.dst => u \in DOMAIN Frame.temps /\ x.temps[u] = Frame.temps[u]
                                    /\ u = Instr.dst => x.temps[u] = v
      BY <1>2 DEF Stored
    <3>2. ASSUME NEW sort \in Sorts, v.k = sort
          PROVE  <<Frame.fn, Instr.dst>> \in Known.held[sort].temps
      <4>1. Gives(sort, code, Known.held[sort], Frame.fn, Instr)
        BY <1>6, <3>2 DEF GivesSuch
      <4> QED
        BY <1>3, <2>1, <4>1, SortedCode DEF Known
    <3> QED
      BY <1>2, <2>1, <3>1, <3>2 DEF Sorted
  <2>3. Took(At(code, x), x.loaded, x.temps)
    <3>1. x.pc \in 1..Len(code.bodies[x.fn]) /\ x.fn \in DOMAIN code.bodies /\ IsLawful(code)
      BY <1>2, <1>3, <1>5, <2>1, AlongPaths, UnderWay
    <3>2. Len(At(code, x).args) \in Nat
      BY <3>1, LawfulBody, Counted DEF At
    <3>3. Len(x.loaded) = 0
      BY <1>2, EmptySeq
    <3> QED
      BY <3>2, <3>3, NothingTook
  <2>4. ShadowMoves(Body, Frame.pc, Frame, shadow, shadow')
    BY <1>3, <1>4 DEF ShadowMoves
  <2>5. NothingDangles(heap', shadow')
    BY DEF HInv
  <2>6. LET L == Left(code, Known, Body, Frame.pc, FactsOf(code, Frame))
        IN  /\ KeptHolds(L, shadow', Frame) /\ ReachedHolds(L, heap', shadow', Frame)
            /\ LiveHolds(L, heap', Frame)
    BY <1>6, <2>4, <2>5, HereIsLeft
  <2>7. LET G == After(code, Known, Body, Frame.pc, F)
        IN  KeptHolds(G, shadow', x) /\ ReachedHolds(G, heap', shadow', x) /\ LiveHolds(G, heap', x)
    <3>1. PICK f, g, t, n : f = Frame /\ g = heap' /\ t = shadow' /\ n = Frame.pc
      OBVIOUS
    <3>2. /\ KeptHolds(Left(code, Known, Body, n, F), t, f)
          /\ ReachedHolds(Left(code, Known, Body, n, F), g, t, f)
          /\ LiveHolds(Left(code, Known, Body, n, F), g, f)
      BY <2>6, <3>1
    <3>3. /\ \A p \in Places(F, Body[n]) : Anchored(t, f.base, p, v)
          /\ GivesReached(F, Body[n]) => Stays(g, t, v)
          /\ GivesLive(F, Body[n]) => Lives(g, v)
      BY <1>3, <1>6, <3>1
    <3>4. Body[n].op \in Producers /\ x.base = f.base
          /\ x.temps = Stored(f.temps, Body[n].dst, v)
      BY <1>2, <1>3, <3>1
    <3> HIDE DEF F
    <3>5. LET G == After(code, Known, Body, n, F)
          IN  KeptHolds(G, t, x) /\ ReachedHolds(G, g, t, x) /\ LiveHolds(G, g, x)
      BY <3>2, <3>3, <3>4, AfterHolds
    <3> QED
      BY <3>1, <3>5
  <2>8. Within(FactsOf(code, x), After(code, Known, Body, Frame.pc, F))
    BY <1>2, <1>5, <2>1, RootedBody DEF FactsOf, Known
  <2>9. InnermostOK(code, x, heap', shadow')
    <3>1. PICK G, g, t : G = After(code, Known, Body, Frame.pc, F) /\ g = heap' /\ t = shadow'
      OBVIOUS
    <3>2. /\ Within(FactsOf(code, x), G) /\ KeptHolds(G, t, x) /\ ReachedHolds(G, g, t, x)
          /\ LiveHolds(G, g, x)
      BY <2>7, <2>8, <3>1
    <3> HIDE DEF F
    <3>3. InnermostOK(code, x, g, t)
      BY <1>2, <3>2, Arrived
    <3> QED
      BY <3>1, <3>3
  <2> QED
    BY <1>6, <2>2, <2>3, <2>9
<1>7. /\ Len(shadow') \in Nat /\ Frame.base <= Len(shadow')
      /\ \A j \in 1..Frame.base : shadow'[j] = shadow[j]
  BY <1>3
<1>8. Tracked => KindsOK(code, Known, heap')
  OBVIOUS
<1> QED
  BY <1>1, <1>2, <1>6, <1>7, <1>8, Stepping

\* One that stores nothing, and where it may lead.
LEMMA Leading ==
  ASSUME LawfulOnes, RootedOnes, GInv, Running, exe' = exe, HInv',
         Instr.op \notin Producers, NEW q \in Successors(Body, Frame.pc),
         SetFrame([Frame EXCEPT !.pc = q, !.loaded = <<>>]),
         ShadowMoves(Body, Frame.pc, Frame, shadow, shadow'),
         LiveIn(heap) \subseteq LiveIn(heap'),
         Tracked =>
           /\ KindsOK(code, Known, heap')
           /\ Instr.op \in {"set", "pop"} \/ Reach(heap, shadow) \subseteq Reach(heap', shadow')
  PROVE  HInv' /\ NInv' /\ RInv'
<1> DEFINE x == [fn |-> Frame.fn, pc |-> q, loaded |-> <<>>, base |-> Frame.base,
                 temps |-> Frame.temps]
<1>1. SetFrame(x)
  <2> DEFINE y == [Frame EXCEPT !.pc = q, !.loaded = <<>>]
  <2>1. SetFrame(y)
    OBVIOUS
  <2>2. y = x
    BY FrameIsRecord, FrameAdvanced DEF GInv
  <2> HIDE DEF y, x
  <2> QED
    BY <2>1, <2>2
<1>2. /\ x.fn = Frame.fn /\ x.pc = q /\ x.loaded = <<>> /\ x.base = Frame.base
      /\ x.temps = Frame.temps
  OBVIOUS
<1> HIDE DEF x
<1>3. /\ IInv /\ Instr = Body[Frame.pc] /\ Frame.base \in Nat /\ DepthAt(Body, Frame.pc) \in Nat
  BY BelowIsThere DEF GInv, Instr
<1>4. ASSUME Tracked
      PROVE  /\ Sorted(code, Known, x) /\ Took(At(code, x), x.loaded, x.temps)
             /\ InnermostOK(code, x, heap', shadow')
             /\ LiveIn(heap) \subseteq LiveIn(heap') \/ Allocates(Instr)
  <2> DEFINE F == FactsOf(code, Frame)
  <2>1. /\ IsRooted(code) /\ Frame.fn \in DOMAIN code.bodies /\ Frame.pc \in 1..Len(Body)
        /\ Sorted(code, Known, Frame) /\ Body = code.bodies[Frame.fn]
    BY <1>4, HereIsKnown DEF Body
  <2>2. Sorted(code, Known, x)
    BY <1>2, <2>1 DEF Sorted
  <2>3. Took(At(code, x), x.loaded, x.temps)
    <3>1. x.pc \in 1..Len(code.bodies[x.fn]) /\ x.fn \in DOMAIN code.bodies /\ IsLawful(code)
      BY <1>2, <1>3, <2>1, AlongPaths, UnderWay
    <3>2. Len(At(code, x).args) \in Nat
      BY <3>1, LawfulBody, Counted DEF At
    <3>3. Len(x.loaded) = 0
      BY <1>2, EmptySeq
    <3> QED
      BY <3>2, <3>3, NothingTook
  <2>4. NothingDangles(heap', shadow')
    BY DEF HInv
  <2>5. PICK G, g, t : G = After(code, Known, Body, Frame.pc, F) /\ g = heap' /\ t = shadow'
    OBVIOUS
  <2>6. G = Left(code, Known, Body, Frame.pc, F)
    BY <1>3, <2>5 DEF After
  <2>7. KeptHolds(G, t, Frame) /\ ReachedHolds(G, g, t, Frame) /\ LiveHolds(G, g, Frame)
    BY <1>4, <2>4, <2>5, <2>6, HereIsLeft
  <2>8. Within(FactsOf(code, x), G)
    BY <1>2, <2>1, <2>5, RootedBody DEF FactsOf, Known
  <2>9. KeptHolds(G, t, x) /\ ReachedHolds(G, g, t, x) /\ LiveHolds(G, g, x)
    BY <1>2, <2>7 DEF KeptHolds, ReachedHolds, LiveHolds
  <2>10. InnermostOK(code, x, g, t)
    BY <1>2, <2>8, <2>9, Arrived
  <2> QED
    BY <2>2, <2>3, <2>5, <2>10
<1>5. /\ Len(shadow') \in Nat /\ Frame.base <= Len(shadow')
      /\ \A j \in 1..Frame.base : shadow'[j] = shadow[j]
  BY <1>3 DEF ShadowMoves
<1>6. Tracked => KindsOK(code, Known, heap')
  OBVIOUS
<1> QED
  BY <1>1, <1>2, <1>4, <1>5, <1>6, Stepping

-----------------------------------------------------------------------------
(* The steps that store what they were given or have computed.             *)

\* An instruction that stores its first operand.
LEMMA PassedOn ==
  ASSUME LawfulOnes, RootedOnes, GInv, Running, Tracked, PassesOn(Instr),
         1 \in 1..Len(Instr.args), 1 \in 1..Len(Loaded)
  PROVE  LET F == FactsOf(code, Frame)
             v == Loaded[1]
         IN  /\ GivesSuch(v, Frame.fn, Instr)
             /\ \A p \in Places(F, Instr) : Anchored(shadow, Frame.base, p, v)
             /\ GivesReached(F, Instr) => Stays(heap, shadow, v)
             /\ GivesLive(F, Instr) => Lives(heap, v)
<1> DEFINE F == FactsOf(code, Frame)
           v == Loaded[1]
           w == Instr.args[1]
<1>1. Instr.op # "new" /\ Where(Instr, 1) = 1 /\ ~ Computes(Instr) /\ Instr.op # "get"
  BY DEF PassesOn, IsCallOf, Where, Computes
<1>2. ~ HasLiteral(Instr) => ~ Allocates(Instr)
  BY <1>1 DEF PassesOn, IsCallOf, Allocates, Allocators
<1>3. Came(w, v, Frame.temps) /\ KeptHolds(F, shadow, Frame)
  BY <1>1, HereIsKnown DEF Took, InnermostOK
<1>4. GivesSuch(v, Frame.fn, Instr)
  BY <1>1, SortLoaded DEF GivesSuch, Gives
<1>5. GivesReached(F, Instr) => Stays(heap, shadow, v)
  <2>1. GivesReached(F, Instr) => IsReached(F, w)
    BY <1>1 DEF GivesReached
  <2> QED
    BY <1>1, <2>1, ReachedOperand
<1>6. GivesLive(F, Instr) => Lives(heap, v)
  BY <1>1, <1>2, SafeOperand DEF GivesLive
<1> HIDE DEF F, v, w
<1>7. ASSUME NEW p \in Places(F, Instr) PROVE Anchored(shadow, Frame.base, p, v)
  <2>1. CASE IsConstant(w)
    BY <1>3, <2>1, ConstantOperand DEF Anchored
  <2>2. CASE ~ IsConstant(w) /\ w.k = "temp"
    <3>1. p \in {x[2] : x \in {x \in F.kept : x[1] = w.v}}
      BY <1>1, <1>7, <2>2 DEF Places, w
    <3>2. PICK x \in F.kept : x[1] = w.v /\ x[2] = p
      BY <3>1
    <3>3. w.v \in DOMAIN Frame.temps /\ v = Frame.temps[w.v]
      BY <1>3, <2>2 DEF Came
    <3> QED
      BY <1>3, <3>2, <3>3 DEF KeptHolds
  <2>3. CASE ~ IsConstant(w) /\ w.k # "temp"
    BY <1>1, <1>7, <2>3 DEF Places, w
  <2> QED
    BY <2>1, <2>2, <2>3
<1> QED
  BY <1>4, <1>5, <1>6, <1>7 DEF F, v, w

\* A heap that is the same.
LEMMA SameHeap ==
  ASSUME GInv, exe' = exe, heap' = heap, shadow' = shadow
  PROVE  /\ HInv' /\ LiveIn(heap) \subseteq LiveIn(heap')
         /\ Reach(heap, shadow) \subseteq Reach(heap', shadow)
         /\ Tracked => KindsOK(code, Known, heap')
BY DEF GInv, HInv, NInv

\* An instruction that stores its first operand and writes nothing.
LEMMA PassingOn ==
  ASSUME LawfulOnes, RootedOnes, GInv, Running, Instr.op \in Producers, PassesOn(Instr),
         1 \in 1..Len(Instr.args), 1 \in 1..Len(Loaded), Define(Loaded[1]),
         exe' = exe, heap' = heap, shadow' = shadow
  PROVE  HInv' /\ NInv' /\ RInv'
<1>1. /\ HInv' /\ LiveIn(heap) \subseteq LiveIn(heap')
      /\ Reach(heap, shadow) \subseteq Reach(heap', shadow)
      /\ Tracked => KindsOK(code, Known, heap')
  BY SameHeap
<1>2. PICK v : v = Loaded[1]
  OBVIOUS
<1>3. Tracked => LET F == FactsOf(code, Frame)
                 IN  /\ GivesSuch(v, Frame.fn, Instr)
                     /\ \A p \in Places(F, Instr) : Anchored(shadow, Frame.base, p, v)
                     /\ GivesReached(F, Instr) => Stays(heap', shadow, v)
                     /\ GivesLive(F, Instr) => Lives(heap', v)
  BY <1>2, PassedOn
<1>4. Define(v)
  BY <1>2
<1> QED
  BY <1>1, <1>3, <1>4, Storing

\* One that stores what is no reference.
LEMMA StoringNumber ==
  ASSUME LawfulOnes, RootedOnes, GInv, Running, Instr.op \in Producers, ~ PassesOn(Instr),
         NEW v, v.k # "ref", Define(v),
         v.k = "num" => Computes(Instr) \/ (Instr.op = "method" /\ Instr.f \in BuiltinMethods),
         exe' = exe, shadow' = shadow, HInv', LiveIn(heap) \subseteq LiveIn(heap'),
         Tracked => /\ KindsOK(code, Known, heap')
                    /\ Reach(heap, shadow) \subseteq Reach(heap', shadow)
  PROVE  HInv' /\ NInv' /\ RInv'
<1>1. /\ \A p : Anchored(shadow, Frame.base, p, v)
      /\ Stays(heap', shadow, v) /\ Lives(heap', v)
      /\ GivesSuch(v, Frame.fn, Instr)
  BY DEF Anchored, Stays, Lives, GivesSuch, Gives, Sorts
<1> QED
  BY <1>1, Storing

\* Numbers, bits and NULL are no references.
LEMMA NumbersAreNone ==
  /\ \A n : Num(n).k # "ref"
  /\ \A b : Bit(b).k # "ref"
  /\ Null.k \notin {"ref", "num"}
BY DEF Num, Bit, Null

\* emit_copy.
LEMMA CopyRooted ==
  ASSUME LawfulOnes, RootedOnes, GInv, DoCopy
  PROVE  HInv' /\ NInv' /\ RInv'
<1>1. Executing("copy") /\ Define(Loaded[1]) /\ exe' = exe /\ heap' = heap /\ shadow' = shadow
  BY DEF DoCopy
<1>2. /\ Running /\ Instr.op = "copy" /\ Len(Instr.args) = 1 /\ Len(Loaded) = 1
  BY <1>1, Executed, UnderWay, Counted DEF GInv
<1>3. Instr.op \in Producers /\ PassesOn(Instr) /\ 1 \in 1..Len(Instr.args) /\ 1 \in 1..Len(Loaded)
  BY <1>2 DEF Producers, PassesOn
<1> QED
  BY <1>1, <1>2, <1>3, PassingOn

\* emit_binop.
LEMMA BinaryRooted ==
  ASSUME LawfulOnes, RootedOnes, GInv, DoBinOp
  PROVE  HInv' /\ NInv' /\ RInv'
<1> DEFINE v == Computed(Instr.f, Loaded[1], Loaded[2])
<1>1. Executing("bin") /\ Define(v) /\ exe' = exe /\ heap' = heap /\ shadow' = shadow
  BY DEF DoBinOp
<1>2. Running /\ Instr.op = "bin" /\ Instr.f \in Operators
  BY <1>1, Executed, UnderWay DEF GInv, HasShape
<1>3. v.k # "ref"
  BY <1>2 DEF Computed, Operators, Num, Bit
<1>4. Instr.op \in Producers /\ ~ PassesOn(Instr) /\ Computes(Instr)
  BY <1>2 DEF Producers, PassesOn, IsCallOf, Computes
<1> HIDE DEF v
<1> QED
  BY <1>1, <1>2, <1>3, <1>4, SameHeap, StoringNumber

\* emit_unop.
LEMMA UnaryRooted ==
  ASSUME LawfulOnes, RootedOnes, GInv, DoUnOp
  PROVE  HInv' /\ NInv' /\ RInv'
<1>1. Executing("un") /\ exe' = exe /\ heap' = heap /\ shadow' = shadow
  BY DEF DoUnOp
<1>2. PICK v : v.k # "ref" /\ Define(v)
  BY NumbersAreNone DEF DoUnOp
<1>3. Running /\ Instr.op = "un"
  BY <1>1, Executed DEF GInv
<1>4. Instr.op \in Producers /\ ~ PassesOn(Instr) /\ Computes(Instr)
  BY <1>3 DEF Producers, PassesOn, IsCallOf, Computes
<1> QED
  BY <1>1, <1>2, <1>3, <1>4, SameHeap, StoringNumber

\* print, __hulk_str_eq and __hulk_is.
LEMMA PrintRooted ==
  ASSUME LawfulOnes, RootedOnes, GInv, DoPrint \/ StringEq \/ TypeTest
  PROVE  HInv' /\ NInv' /\ RInv'
<1>1. /\ Executing("call") /\ Instr.f \in {"print", "__hulk_str_eq", "__hulk_is"}
      /\ exe' = exe /\ heap' = heap /\ shadow' = shadow
  BY DEF DoPrint, StringEq, TypeTest
<1>2. PICK v : v.k # "ref" /\ Define(v)
  BY NumbersAreNone DEF DoPrint, StringEq, TypeTest
<1>3. Running /\ Instr.op = "call"
  BY <1>1, Executed DEF GInv
<1>4. Instr.op \in Producers /\ ~ PassesOn(Instr) /\ Computes(Instr)
  BY <1>1, <1>3 DEF Producers, Calls, PassesOn, IsCallOf, Computes
<1> QED
  BY <1>1, <1>2, <1>3, <1>4, SameHeap, StoringNumber

\* A program that has ended.
LEMMA EndingRooted ==
  ASSUME GInv, frames' = <<>>, exe' = exe, heap' = heap, shadow' = <<>>
  PROVE  HInv' /\ NInv' /\ RInv'
<1>1. Len(<<>>) = 0 /\ RefsIn(<<>>) = {}
  BY EmptySeq DEF RefsIn
<1>2. HInv'
  BY <1>1 DEF GInv, HInv, NothingDangles
<1>3. Tracked' => KindsOK(code, Known, heap)' /\ StackSorted(code, Known, frames)'
  BY <1>1 DEF GInv, NInv, StackSorted, CallsOf, Tracked, code, Known
<1>4. Tracked' => StackRooted(code, Known, frames, heap, shadow)'
  BY <1>1 DEF StackRooted
<1> QED
  BY <1>2, <1>3, <1>4 DEF NInv, RInv

\* __hulk_as, which goes on or ends the program.
LEMMA DowncastRooted ==
  ASSUME LawfulOnes, RootedOnes, GInv, Downcast
  PROVE  HInv' /\ NInv' /\ RInv'
<1>1. /\ Executing("call") /\ Instr.f = "__hulk_as" /\ exe' = exe /\ heap' = heap
      /\ \/ Define(Loaded[1]) /\ shadow' = shadow
         \/ frames' = <<>> /\ shadow' = <<>>
  BY DEF Downcast
<1>2. Running /\ Instr.op = "call" /\ Len(Instr.args) = 2 /\ Len(Loaded) = 2
  BY <1>1, Executed, UnderWay, Counted DEF GInv
<1>3. Instr.op \in Producers /\ PassesOn(Instr) /\ 1 \in 1..Len(Instr.args) /\ 1 \in 1..Len(Loaded)
  BY <1>1, <1>2 DEF Producers, Calls, PassesOn, IsCallOf
<1> QED
  BY <1>1, <1>2, <1>3, PassingOn, EndingRooted

-----------------------------------------------------------------------------
(* The steps that read and write objects.                                  *)

\* A step that leaves the shadow stack as it is.
LEMMA ShadowStands ==
  ASSUME LawfulOnes, GInv, Running, shadow' = shadow, Instr.op \notin {"push", "pop"}
  PROVE  ShadowMoves(Body, Frame.pc, Frame, shadow, shadow')
<1>1. /\ Frame.base \in Nat /\ Len(shadow) \in Nat /\ Frame.base <= Len(shadow)
      /\ DOMAIN shadow = 1..Len(shadow)
      /\ Len(shadow) = Frame.base + DepthAt(Body, Frame.pc) /\ DepthAt(Body, Frame.pc) \in Nat
  BY BelowIsThere DEF GInv
<1>2. Change(Body[Frame.pc]) = 0 /\ Body[Frame.pc].op # "push"
  BY DEF Change, Instr
<1> QED
  BY <1>1, <1>2 DEF ShadowMoves

\* An instruction that stores nothing and goes on with the next one.
LEMMA GoingOn ==
  ASSUME LawfulOnes, RootedOnes, GInv, Running, exe' = exe, HInv', Continue,
         Instr.op \notin Producers \cup {"jump", "return"},
         ShadowMoves(Body, Frame.pc, Frame, shadow, shadow'),
         LiveIn(heap) \subseteq LiveIn(heap'),
         Tracked =>
           /\ KindsOK(code, Known, heap')
           /\ Instr.op \in {"set", "pop"} \/ Reach(heap, shadow) \subseteq Reach(heap', shadow')
  PROVE  HInv' /\ NInv' /\ RInv'
<1>1. IInv
  BY DEF GInv
<1>2. Frame.pc + 1 \in Successors(Body, Frame.pc)
  BY <1>1, NextIsAhead
<1>3. SetFrame([Frame EXCEPT !.pc = Frame.pc + 1, !.loaded = <<>>])
  BY <1>1, FrameIsRecord DEF Continue
<1> QED
  BY <1>2, <1>3, Leading

\* emit_get_field: the object has not been freed, and neither has what it
\* refers to; and if it is reached, so is that.
LEMMA FieldRooted ==
  ASSUME LawfulOnes, RootedOnes, GInv, DoGetField
  PROVE  HInv' /\ NInv' /\ RInv'
<1> DEFINE o == Loaded[1].v
           v == heap[o].words[Instr.f]
<1>1. /\ Executing("get") /\ HasField(Loaded[1], Instr.f) /\ Define(v)
      /\ exe' = exe /\ heap' = heap /\ shadow' = shadow
  BY DEF DoGetField
<1>2. Running /\ Instr.op = "get" /\ Len(Instr.args) = 1 /\ Len(Loaded) = 1
  BY <1>1, Executed, UnderWay, Counted DEF GInv
<1>3. Lives(heap, Loaded[1]) /\ Slot(Loaded[1], Len(heap))
  BY <1>2, NeededOperand DEF Needs
<1>4. /\ Loaded[1].k = "ref" /\ heap[o].tag \in DOMAIN code.types
      /\ Instr.f \in DOMAIN heap[o].words
  BY <1>1 DEF HasField, HasTag
<1>5. o \in LiveIn(heap) /\ o \in DOMAIN heap
  BY <1>3, <1>4 DEF Lives, LiveIn
<1>6. v.k = "ref" => v.v \in RefsIn(heap[o].words)
  BY <1>4 DEF RefsIn
<1>7. /\ Instr.op \in Producers /\ ~ PassesOn(Instr) /\ ~ Computes(Instr)
      /\ Where(Instr, 1) = 1 /\ 1 \in 1..Len(Instr.args) /\ 1 \in 1..Len(Loaded)
  BY <1>2 DEF Producers, PassesOn, IsCallOf, Computes, Where
<1>8. Lives(heap, v)
  BY <1>5, <1>6 DEF Lives, GInv, HInv, NothingDangles
<1>9. ASSUME Tracked PROVE GivesSuch(v, Frame.fn, Instr)
  <2>1. KindOK(code, Known, heap[o])
    BY <1>5, <1>9 DEF GInv, NInv, KindsOK
  <2>2. \A sort \in Sorts : v.k = sort => Instr.f \in Known.held[sort].fields
    BY <1>4, <2>1 DEF KindOK
  <2> HIDE DEF v, o
  <2> QED
    BY <1>2, <2>2 DEF GivesSuch, Gives
<1>10. ASSUME Tracked, GivesReached(FactsOf(code, Frame), Instr) PROVE Stays(heap, shadow, v)
  <2>1. IsReached(FactsOf(code, Frame), Instr.args[1])
    BY <1>7, <1>10 DEF GivesReached
  <2>2. Stays(heap, shadow, Loaded[1])
    BY <1>2, <1>7, <1>10, <2>1, ReachedOperand
  <2>3. \A p \in Reach(heap, shadow) : RefsIn(heap[p].words) \subseteq Reach(heap, shadow)
    BY ReachedIsSound DEF GInv, HInv
  <2>4. o \in Reach(heap, shadow)
    BY <1>4, <2>2 DEF Stays
  <2> HIDE DEF v, o
  <2> QED
    BY <1>6, <2>3, <2>4 DEF Stays
<1>11. Places(FactsOf(code, Frame), Instr) = {}
  BY <1>7 DEF Places
<1> HIDE DEF v, o
<1>12. /\ HInv' /\ LiveIn(heap) \subseteq LiveIn(heap')
       /\ Reach(heap, shadow) \subseteq Reach(heap', shadow)
       /\ Tracked => KindsOK(code, Known, heap')
  BY <1>1, SameHeap
<1>13. Lives(heap', v) /\ (Tracked /\ GivesReached(FactsOf(code, Frame), Instr) => Stays(heap', shadow, v))
  BY <1>1, <1>8, <1>10
<1> QED
  BY <1>1, <1>2, <1>7, <1>9, <1>11, <1>12, <1>13, Storing

\* A heap with an object rewritten.
LEMMA RewrittenHeap ==
  ASSUME GInv, exe' = exe, shadow' = shadow, NEW o, NEW w, Rewritten(heap, heap', o, w),
         o \in LiveIn(heap) => RefsIn(w) \subseteq LiveIn(heap)
  PROVE  /\ HInv' /\ LiveIn(heap) \subseteq LiveIn(heap')
         /\ (o \in DOMAIN heap => RefsIn(w) = RefsIn(heap[o].words)) =>
              Reach(heap, shadow) \subseteq Reach(heap', shadow)
<1>1. NothingDangles(heap, shadow) /\ (~ exe.collects => LiveIn(heap) = DOMAIN heap)
  BY DEF GInv, HInv
<1>2. PICK g : g = heap'
  OBVIOUS
<1>3. NothingDangles(g, shadow) /\ LiveIn(g) = LiveIn(heap)
  BY <1>1, <1>2, WrittenSoundly
<1>4. (o \in DOMAIN heap => RefsIn(w) = RefsIn(heap[o].words)) =>
         Reach(heap, shadow) \subseteq Reach(g, shadow)
  BY <1>1, <1>2, WrittenElsewhere
<1>5. DOMAIN g = DOMAIN heap
  BY <1>2 DEF Rewritten
<1> QED
  BY <1>1, <1>2, <1>3, <1>4, <1>5 DEF HInv

\* And what its objects hold.
LEMMA RewrittenKinds ==
  ASSUME NEW c, NEW A, NEW h, NEW g, NEW o, NEW w, Rewritten(h, g, o, w), KindsOK(c, A, h),
         o \in DOMAIN h => KindOK(c, A, [tag |-> h[o].tag, words |-> w])
  PROVE  KindsOK(c, A, g)
<1> SUFFICES ASSUME NEW p \in DOMAIN g PROVE KindOK(c, A, g[p])
  BY DEF KindsOK
<1>1. p \in DOMAIN h /\ g[p].tag = h[p].tag /\ g[p].words = IF p = o THEN w ELSE h[p].words
  BY DEF Rewritten
<1>2. CASE p = o
  <2> DEFINE x == [tag |-> h[o].tag, words |-> w]
  <2>1. KindOK(c, A, x) /\ g[p].tag = x.tag /\ g[p].words = x.words
    BY <1>1, <1>2
  <2> HIDE DEF x
  <2> QED
    BY <2>1, KindOfWords
<1>3. CASE p # o
  BY <1>1, <1>3, KindOfWords DEF KindsOK
<1> QED
  BY <1>2, <1>3

\* A word written to in the heap.
LEMMA WordOfHeap ==
  ASSUME GInv, NEW o \in 1..Len(heap), NEW f, NEW v, NEW g, g = [heap EXCEPT ![o].words[f] = v]
  PROVE  Rewritten(heap, g, o, [heap[o].words EXCEPT ![f] = v])
<1>1. PICK c, h : c = code /\ h = heap
  OBVIOUS
<1>2. HeapOK(c, h) /\ o \in 1..Len(h)
  BY <1>1, HeapNow DEF GInv
<1>3. Rewritten(h, [h EXCEPT ![o].words[f] = v], o, [h[o].words EXCEPT ![f] = v])
  BY <1>2, WordReplaced
<1> QED
  BY <1>1, <1>3

\* A word that is no reference written over one that is none.
LEMMA NumberWritten ==
  ASSUME LawfulOnes, GInv, NEW o \in 1..Len(heap), NEW f, NEW v, v.k # "ref",
         NEW w, w = [heap[o].words EXCEPT ![f] = v], Rewritten(heap, heap', o, w),
         exe' = exe, shadow' = shadow,
         Tracked => /\ RefsIn(heap[o].words) = {} \/ heap[o].words[f].k # "ref"
                    /\ KindOK(code, Known, [tag |-> heap[o].tag, words |-> w])
  PROVE  /\ HInv' /\ LiveIn(heap) \subseteq LiveIn(heap')
         /\ Tracked => /\ KindsOK(code, Known, heap')
                       /\ Reach(heap, shadow) \subseteq Reach(heap', shadow)
<1>1. /\ DOMAIN w = DOMAIN heap[o].words
      /\ \A k \in DOMAIN w : w[k] = IF k = f THEN v ELSE heap[o].words[k]
  OBVIOUS
<1>2. RefsIn(w) \subseteq RefsIn(heap[o].words)
  BY <1>1 DEF RefsIn
<1>3. Tracked => RefsIn(w) = RefsIn(heap[o].words)
  <2>1. ASSUME heap[o].words[f].k # "ref" PROVE RefsIn(heap[o].words) \subseteq RefsIn(w)
    BY <1>1, <2>1 DEF RefsIn
  <2> QED
    BY <1>2, <2>1
<1>4. o \in LiveIn(heap) => RefsIn(w) \subseteq LiveIn(heap)
  BY <1>2 DEF GInv, HInv, NothingDangles
<1>5. /\ HInv' /\ LiveIn(heap) \subseteq LiveIn(heap')
      /\ Tracked => Reach(heap, shadow) \subseteq Reach(heap', shadow)
  BY <1>3, <1>4, RewrittenHeap
<1>6. Tracked => KindsOK(code, Known, heap')
  <2>1. PICK g : g = heap'
    OBVIOUS
  <2> QED
    BY <2>1, RewrittenKinds DEF GInv, NInv
<1> QED
  BY <1>5, <1>6

\* emit_set_field: neither the object nor what is stored in it has been freed.
LEMMA FieldSetRooted ==
  ASSUME LawfulOnes, RootedOnes, GInv, DoSetField
  PROVE  HInv' /\ NInv' /\ RInv'
<1> DEFINE o == Loaded[1].v
           w == [heap[o].words EXCEPT ![Instr.f] = Loaded[2]]
<1>1. /\ Executing("set") /\ HasField(Loaded[1], Instr.f) /\ Continue
      /\ exe' = exe /\ shadow' = shadow
      /\ heap' = [heap EXCEPT ![o].words[Instr.f] = Loaded[2]]
  BY DEF DoSetField
<1>2. Running /\ Instr.op = "set" /\ Len(Instr.args) = 2 /\ Len(Loaded) = 2 /\ Instr = At(code, Frame)
  BY <1>1, Executed, UnderWay, Counted DEF GInv
<1>3. /\ Lives(heap, Loaded[1]) /\ Slot(Loaded[1], Len(heap))
      /\ Lives(heap, Loaded[2])
  BY <1>2, NeededOperand DEF Needs
<1>4. Loaded[1].k = "ref" /\ heap[o].tag \in DOMAIN code.types
  BY <1>1 DEF HasField, HasTag
<1>5. o \in 1..Len(heap) /\ HeapOK(code, heap)
  BY <1>3, <1>4, HeapNow DEF Slot, GInv
<1>6. Rewritten(heap, heap', o, w)
  <2>1. PICK g : g = heap'
    OBVIOUS
  <2> QED
    BY <1>1, <1>5, <2>1, WordOfHeap
<1>7. /\ DOMAIN w = DOMAIN heap[o].words
      /\ \A k \in DOMAIN w : w[k] = IF k = Instr.f THEN Loaded[2] ELSE heap[o].words[k]
  OBVIOUS
<1>8. o \in LiveIn(heap)
  BY <1>3, <1>4 DEF Lives
<1>9. heap[o].tag \notin {"String", "Range", "Vector", "ObjArray"}
  BY <1>2, <1>4, RuntimeTypes DEF GInv
<1>10. KindOK(code, Known, [tag |-> heap[o].tag, words |-> w]) \/ ~ Tracked
  <2> SUFFICES ASSUME Tracked PROVE KindOK(code, Known, [tag |-> heap[o].tag, words |-> w])
    OBVIOUS
  <2>1. KindOK(code, Known, heap[o])
    BY <1>5, HeapNow DEF GInv, NInv, KindsOK
  <2>2. ASSUME NEW sort \in Sorts, Loaded[2].k = sort
        PROVE  Instr.f \in Known.held[sort].fields
    <3>1. Where(Instr, 2) = 2 /\ 2 \in 1..Len(Instr.args) /\ 2 \in 1..Len(Loaded)
      BY <1>2 DEF Where
    <3>2. MayBe(sort, Known.held[sort], Frame.fn, Instr.args[2])
      BY <1>2, <2>2, <3>1, SortLoaded
    <3>3. IsRooted(code) /\ Frame.fn \in DOMAIN code.bodies /\ Frame.pc \in 1..Len(Body)
      BY <1>2, HereIsKnown
    <3> QED
      BY <1>2, <3>1, <3>2, <3>3, SortedCode DEF Known, At, Body
  <2>3. \A sort \in Sorts : \A k \in DOMAIN heap[o].words :
          heap[o].words[k].k = sort => k \in Known.held[sort].fields
    BY <1>4, <2>1 DEF KindOK
  <2>4. DOMAIN w \subseteq FieldsOf(code, heap[o].tag)
    BY <1>4, <1>7, <2>1 DEF KindOK
  <2> HIDE DEF w, o
  <2>5. \A sort \in Sorts : \A k \in DOMAIN w : w[k].k = sort => k \in Known.held[sort].fields
    BY <1>7, <2>2, <2>3
  <2> QED
    BY <1>4, <1>9, <2>4, <2>5 DEF KindOK
<1> HIDE DEF w, o
<1>11. RefsIn(w) \subseteq LiveIn(heap)
  <2>1. RefsIn(heap[o].words) \subseteq LiveIn(heap)
    BY <1>8 DEF GInv, HInv, NothingDangles
  <2>2. ASSUME NEW k \in DOMAIN w, w[k].k = "ref" PROVE w[k].v \in LiveIn(heap)
    <3>1. CASE k = Instr.f
      BY <1>3, <1>7, <2>2, <3>1 DEF Lives
    <3>2. CASE k # Instr.f
      BY <1>7, <2>1, <2>2, <3>2 DEF RefsIn
    <3> QED
      BY <3>1, <3>2
  <2> QED
    BY <2>2 DEF RefsIn
<1>12. HInv' /\ LiveIn(heap) \subseteq LiveIn(heap')
  BY <1>1, <1>6, <1>11, RewrittenHeap
<1>13. Tracked => KindsOK(code, Known, heap')
  <2>1. PICK g : g = heap'
    OBVIOUS
  <2> QED
    BY <1>6, <1>10, <2>1, RewrittenKinds DEF GInv, NInv
<1>14. Instr.op \notin Producers \cup {"jump", "return", "push", "pop"}
  BY <1>2 DEF Producers, Calls
<1>15. ShadowMoves(Body, Frame.pc, Frame, shadow, shadow')
  BY <1>1, <1>2, <1>14, ShadowStands
<1> QED
  BY <1>1, <1>2, <1>12, <1>13, <1>14, <1>15, GoingOn

\* emit_get_index: an array of doubles holds no reference.
LEMMA ElementRooted ==
  ASSUME LawfulOnes, RootedOnes, GInv, DoGetIndex
  PROVE  HInv' /\ NInv' /\ RInv'
<1> DEFINE n == Loaded[2].v + 1
           v == Items(Loaded[1])[n]
<1>1. /\ Executing("getindex") /\ HasItem(Loaded[1], n) /\ Define(v)
      /\ exe' = exe /\ heap' = heap /\ shadow' = shadow
  BY DEF DoGetIndex
<1>2. Running /\ Instr.op = "getindex" /\ Len(Loaded) = 2
  BY <1>1, Executed, UnderWay, Counted DEF GInv
<1>3. Slot(Loaded[1], Len(heap))
  <2>1. 1 \in Needs(Frame.fn, Instr)
    BY <1>2 DEF Needs, IsCallOf
  <2>2. 1 \in 1..Len(Loaded)
    BY <1>2
  <2> QED
    BY <1>2, <2>1, <2>2, NeededOperand
<1>4. HInv'
  BY <1>1, SameHeap
<1>5. CASE ~ Tracked
  BY <1>1, <1>4, <1>5, Untracked
<1>6. CASE Tracked
  <2> HIDE DEF n
  <2>1. HasTag(Loaded[1], {"Vector", "ObjArray"}) /\ n \in DOMAIN Items(Loaded[1])
    BY <1>1 DEF HasItem
  <2>2. /\ Loaded[1].v \in 1..Len(heap) /\ heap[Loaded[1].v].tag \in {"Vector", "ObjArray"}
        /\ DOMAIN Items(Loaded[1]) = 1..Len(Items(Loaded[1]))
    BY <1>3, <2>1, Pointed, ItemsHeld DEF GInv
  <2>3. KindOK(code, Known, heap[Loaded[1].v])
    BY <1>6, <2>2, HeapNow DEF GInv, NInv, KindsOK
  <2>4. v.k # "ref"
    <3>1. PICK x, s : x = heap[Loaded[1].v] /\ s = Items(Loaded[1])
      OBVIOUS
    <3>2. x.tag = "Vector" /\ x.words["items"].v = s
      BY <2>2, <2>3, <3>1 DEF KindOK, Items
    <3>3. \A j \in 1..Len(s) : s[j].k # "ref"
      BY <2>3, <3>1, <3>2 DEF KindOK
    <3>4. n \in 1..Len(s)
      BY <2>1, <2>2, <3>1
    <3> QED
      BY <3>1, <3>3, <3>4
  <2>5. Instr.op \in Producers /\ ~ PassesOn(Instr) /\ Computes(Instr)
    BY <1>2 DEF Producers, PassesOn, IsCallOf, Computes
  <2> HIDE DEF v
  <2> QED
    BY <1>1, <1>2, <2>4, <2>5, SameHeap, StoringNumber
<1> QED
  BY <1>5, <1>6

\* A vector whose elements have been written to.
LEMMA ItemsWritten ==
  ASSUME LawfulOnes, RootedOnes, GInv, Running, 1 \in 1..Len(Loaded),
         Slot(Loaded[1], Len(heap)), HasTag(Loaded[1], {"Vector", "ObjArray"}),
         NEW x, \A j \in 1..Len(x) : x[j].k # "ref" \/ (\E m \in 1..Len(Items(Loaded[1])) :
                                                         x[j] = Items(Loaded[1])[m])
                                   \/ heap[Loaded[1].v].tag # "Vector",
         heap' = [heap EXCEPT ![Loaded[1].v].words["items"] = Raw(x)],
         exe' = exe, shadow' = shadow
  PROVE  /\ HInv' /\ LiveIn(heap) \subseteq LiveIn(heap')
         /\ Tracked => /\ KindsOK(code, Known, heap')
                       /\ Reach(heap, shadow) \subseteq Reach(heap', shadow)
<1> DEFINE o == Loaded[1].v
           w == [heap[o].words EXCEPT !["items"] = Raw(x)]
<1>1. o \in 1..Len(heap) /\ heap[o].tag \in {"Vector", "ObjArray"} /\ ObjectOK(code, heap[o], Len(heap))
  BY Pointed DEF GInv
<1>2. Raw(x).k # "ref" /\ Raw(x).v = x
  BY DEF Raw
<1>3. heap[o].tag \notin DOMAIN code.types
  BY <1>1, RuntimeTypes DEF GInv
<1>4. /\ DOMAIN w = DOMAIN heap[o].words
      /\ \A k \in DOMAIN w : w[k] = IF k = "items" THEN Raw(x) ELSE heap[o].words[k]
  OBVIOUS
<1>5. ASSUME Tracked
      PROVE  RefsIn(heap[o].words) = {} /\ KindOK(code, Known, [tag |-> heap[o].tag, words |-> w])
  <2>1. KindOK(code, Known, heap[o])
    BY <1>1, <1>5, HeapNow DEF GInv, NInv, KindsOK
  <2> HIDE DEF o, w
  <2>2. heap[o].tag = "Vector" /\ RefsIn(heap[o].words) = {}
    BY <1>1, <1>3, <2>1 DEF KindOK
  <2>3. RefsIn(w) = {}
    BY <1>2, <1>4, <2>2 DEF RefsIn
  <2>4. "items" \in DOMAIN w /\ w["items"] = Raw(x)
    BY <1>1, <1>4, <2>2 DEF ObjectOK
  <2>5. \A j \in 1..Len(x) : x[j].k # "ref"
    BY <2>1, <2>2 DEF KindOK, Items, o
  <2> QED
    BY <1>2, <1>3, <2>2, <2>3, <2>4, <2>5 DEF KindOK
<1>6. Rewritten(heap, heap', o, w)
  <2>1. PICK g, y : g = heap' /\ y = Raw(x)
    OBVIOUS
  <2>2. g = [heap EXCEPT ![o].words["items"] = y] /\ w = [heap[o].words EXCEPT !["items"] = y]
    BY <2>1
  <2> HIDE DEF o, w
  <2> QED
    BY <1>1, <2>1, <2>2, WordOfHeap
<1>7. w = [heap[o].words EXCEPT !["items"] = Raw(x)]
  OBVIOUS
<1>8. Tracked => /\ RefsIn(heap[o].words) = {} \/ heap[o].words["items"].k # "ref"
                 /\ KindOK(code, Known, [tag |-> heap[o].tag, words |-> w])
  BY <1>5
<1> HIDE DEF o, w
<1> QED
  BY <1>1, <1>2, <1>6, <1>7, <1>8, NumberWritten

\* emit_set_index.
LEMMA ElementSetRooted ==
  ASSUME LawfulOnes, RootedOnes, GInv, DoSetIndex
  PROVE  HInv' /\ NInv' /\ RInv'
<1> DEFINE n == Loaded[2].v + 1
           e == Element(Loaded[1], Loaded[3])
           x == [Items(Loaded[1]) EXCEPT ![n] = e]
<1>1. /\ Executing("setindex") /\ HasItem(Loaded[1], n) /\ Continue
      /\ exe' = exe /\ shadow' = shadow
      /\ heap' = [heap EXCEPT ![Loaded[1].v].words["items"] = Raw(x)]
  BY DEF DoSetIndex, Items
<1>2. Running /\ Instr.op = "setindex" /\ Len(Loaded) = 3 /\ 1 \in 1..Len(Loaded)
  BY <1>1, Executed, UnderWay, Counted DEF GInv
<1>3. Slot(Loaded[1], Len(heap))
  <2>1. 1 \in Needs(Frame.fn, Instr)
    BY <1>2 DEF Needs, IsCallOf
  <2>2. 1 \in 1..Len(Loaded)
    BY <1>2
  <2> QED
    BY <1>2, <2>1, <2>2, NeededOperand
<1>4. HasTag(Loaded[1], {"Vector", "ObjArray"}) /\ n \in DOMAIN Items(Loaded[1])
  BY <1>1 DEF HasItem
<1>5. IsSeq(Items(Loaded[1])) /\ DOMAIN Items(Loaded[1]) = 1..Len(Items(Loaded[1]))
  BY <1>3, <1>4, ItemsHeld DEF GInv
<1>6. e.k # "ref" \/ heap[Loaded[1].v].tag # "Vector"
  BY DEF Element, Double, Num
<1>7. \A j \in 1..Len(x) : x[j].k # "ref" \/ (\E m \in 1..Len(Items(Loaded[1])) :
                                                 x[j] = Items(Loaded[1])[m])
                           \/ heap[Loaded[1].v].tag # "Vector"
  <2>1. PICK s, m, d : s = Items(Loaded[1]) /\ m = n /\ d = e
    OBVIOUS
  <2>2. IsSeq(s) /\ m \in 1..Len(s) /\ x = [s EXCEPT ![m] = d]
    BY <1>4, <1>5, <2>1
  <2>3. Len(x) = Len(s) /\ \A j \in 1..Len(s) : x[j] = IF j = m THEN d ELSE s[j]
    BY <2>2, Replaced
  <2> HIDE DEF x, n, e
  <2> QED
    BY <1>6, <2>1, <2>3
<1> HIDE DEF x, n, e
<1>8. /\ HInv' /\ LiveIn(heap) \subseteq LiveIn(heap')
      /\ Tracked => /\ KindsOK(code, Known, heap')
                    /\ Reach(heap, shadow) \subseteq Reach(heap', shadow)
  BY <1>1, <1>2, <1>3, <1>4, <1>7, ItemsWritten
<1>9. Instr.op \notin Producers \cup {"jump", "return", "push", "pop"}
  BY <1>2 DEF Producers, Calls
<1>10. ShadowMoves(Body, Frame.pc, Frame, shadow, shadow')
  BY <1>1, <1>2, <1>9, ShadowStands
<1> QED
  BY <1>1, <1>2, <1>8, <1>9, <1>10, GoingOn

\* __vec_push.
LEMMA GrowthRooted ==
  ASSUME LawfulOnes, RootedOnes, GInv, VectorPush
  PROVE  HInv' /\ NInv' /\ RInv'
<1> DEFINE e == Element(Loaded[1], Loaded[2])
           x == Append(Items(Loaded[1]), e)
<1>1. /\ Executing("call") /\ Instr.f = "__vec_push" /\ HasTag(Loaded[1], {"Vector"})
      /\ Define(Loaded[1]) /\ exe' = exe /\ shadow' = shadow
      /\ heap' = [heap EXCEPT ![Loaded[1].v].words["items"] = Raw(x)]
  BY DEF VectorPush, Items
<1>2. Running /\ Instr.op = "call" /\ Len(Instr.args) = 2 /\ Len(Loaded) = 2
  BY <1>1, Executed, UnderWay, Counted DEF GInv
<1>3. /\ Instr.op \in Producers /\ PassesOn(Instr) /\ 1 \in 1..Len(Instr.args)
      /\ 1 \in 1..Len(Loaded)
      /\ (~ Allocates(Instr) \/ HasLiteral(Instr))
  BY <1>1, <1>2 DEF Producers, Calls, PassesOn, IsCallOf, Allocates, Allocators
<1>4. Slot(Loaded[1], Len(heap)) /\ HasTag(Loaded[1], {"Vector", "ObjArray"})
  BY <1>1, RuntimeCall DEF GInv, HasTag
<1>5. IsSeq(Items(Loaded[1])) /\ Len(Items(Loaded[1])) \in Nat
  BY <1>4, ItemsHeld DEF GInv
<1>6. e.k # "ref"
  BY <1>1 DEF Element, Double, Num, HasTag
<1>7. \A j \in 1..Len(x) : x[j].k # "ref" \/ (\E m \in 1..Len(Items(Loaded[1])) :
                                                 x[j] = Items(Loaded[1])[m])
                           \/ heap[Loaded[1].v].tag # "Vector"
  <2>1. PICK s, d : s = Items(Loaded[1]) /\ d = e
    OBVIOUS
  <2>2. IsSeq(s) /\ x = Append(s, d) /\ Len(s) \in Nat
    BY <1>5, <2>1
  <2>3. Len(x) = Len(s) + 1 /\ (\A j \in 1..Len(s) : x[j] = s[j]) /\ x[Len(s) + 1] = d
    BY <2>2, Appended
  <2>4. \A j \in 1..Len(s) + 1 : j \in 1..Len(s) \/ j = Len(s) + 1
    BY <2>2
  <2> HIDE DEF x, e
  <2> QED
    BY <1>6, <2>1, <2>3, <2>4
<1> HIDE DEF x, e
<1>8. /\ HInv' /\ LiveIn(heap) \subseteq LiveIn(heap')
      /\ Tracked => /\ KindsOK(code, Known, heap')
                    /\ Reach(heap, shadow) \subseteq Reach(heap', shadow)
  BY <1>1, <1>2, <1>3, <1>4, <1>7, ItemsWritten
<1>9. PICK v : v = Loaded[1]
  OBVIOUS
<1>10. Tracked => LET F == FactsOf(code, Frame)
                  IN  /\ GivesSuch(v, Frame.fn, Instr)
                      /\ \A p \in Places(F, Instr) : Anchored(shadow, Frame.base, p, v)
                      /\ GivesReached(F, Instr) => Stays(heap, shadow, v)
                      /\ GivesLive(F, Instr) => Lives(heap, v)
  BY <1>2, <1>3, <1>9, PassedOn
<1>11. Tracked => LET F == FactsOf(code, Frame)
                  IN  /\ GivesReached(F, Instr) => Stays(heap', shadow, v)
                      /\ GivesLive(F, Instr) => Lives(heap', v)
  BY <1>8, <1>10 DEF Stays, Lives
<1>12. Define(v)
  BY <1>1, <1>9
<1> QED
  BY <1>1, <1>2, <1>3, <1>8, <1>10, <1>11, <1>12, Storing

\* A method of one of the runtime's types: the object is as it should be.
LEMMA ReceiverKnown ==
  ASSUME LawfulOnes, GInv, NEW tags, ExecutingOn(tags)
  PROVE  /\ Running /\ Instr.op = "method" /\ Instr.op \in Producers /\ ~ PassesOn(Instr)
         /\ Slot(Loaded[1], Len(heap)) /\ HasTag(Loaded[1], tags)
         /\ Loaded[1].v \in 1..Len(heap) /\ heap[Loaded[1].v].tag \in tags
         /\ ObjectOK(code, heap[Loaded[1].v], Len(heap))
         /\ Tracked => KindOK(code, Known, heap[Loaded[1].v])
<1>1. /\ Running /\ Instr.op = "method" /\ Instr.op \in Producers
      /\ Slot(Loaded[1], Len(heap)) /\ HasTag(Loaded[1], tags)
      /\ Loaded[1].v \in 1..Len(heap) /\ heap[Loaded[1].v].tag \in tags
      /\ ObjectOK(code, heap[Loaded[1].v], Len(heap))
  BY RuntimeMethod DEF GInv
<1>2. ~ PassesOn(Instr)
  BY <1>1 DEF PassesOn, IsCallOf
<1>3. Tracked => KindOK(code, Known, heap[Loaded[1].v])
  BY <1>1, HeapNow DEF GInv, NInv, KindsOK
<1> QED
  BY <1>1, <1>2, <1>3

\* __range_next and __vec_next.
LEMMA PositionRooted ==
  ASSUME LawfulOnes, RootedOnes, GInv, RangeNext \/ VectorNext
  PROVE  HInv' /\ NInv' /\ RInv'
<1> DEFINE o == Loaded[1].v
<1>1. PICK tag, f, n, b :
        /\ ExecutingOn({tag}) /\ exe' = exe /\ shadow' = shadow /\ Instr.f = "next"
        /\ (tag = "Range" /\ f = "current") \/ (tag = "Vector" /\ f = "pos")
        /\ heap' = [heap EXCEPT ![o].words[f] = n] /\ n.k = "num"
        /\ Define(b) /\ b.k = "num"
  <2>1. CASE RangeNext
    <3>1. PICK m, b : /\ heap' = [heap EXCEPT ![o].words["current"] = Num(m)]
                      /\ Define(Bit(b))
      BY <2>1 DEF RangeNext
    <3>2. ExecutingOn({"Range"}) /\ exe' = exe /\ shadow' = shadow /\ Instr.f = "next"
      BY <2>1 DEF RangeNext
    <3>3. Num(m).k = "num" /\ Bit(b).k = "num"
      BY DEF Num, Bit
    <3> QED
      BY <3>1, <3>2, <3>3
  <2>2. CASE VectorNext
    <3>1. PICK m, b : /\ heap' = [heap EXCEPT ![o].words["pos"] = Num(m)]
                      /\ Define(Bit(b))
      BY <2>2 DEF VectorNext
    <3>2. ExecutingOn({"Vector"}) /\ exe' = exe /\ shadow' = shadow /\ Instr.f = "next"
      BY <2>2 DEF VectorNext
    <3>3. Num(m).k = "num" /\ Bit(b).k = "num"
      BY DEF Num, Bit
    <3> QED
      BY <3>1, <3>2, <3>3
  <2> QED
    BY <2>1, <2>2
<1>2. /\ Running /\ Instr.op = "method" /\ Instr.op \in Producers /\ ~ PassesOn(Instr)
      /\ o \in 1..Len(heap) /\ heap[o].tag = tag /\ ObjectOK(code, heap[o], Len(heap))
      /\ Tracked => KindOK(code, Known, heap[o])
  <2>1. ExecutingOn({tag})
    BY <1>1
  <2> QED
    BY <2>1, ReceiverKnown
<1> DEFINE w == [heap[o].words EXCEPT ![f] = n]
<1>3. Rewritten(heap, heap', o, w)
  <2>1. PICK g : g = heap'
    OBVIOUS
  <2>2. g = [heap EXCEPT ![o].words[f] = n] /\ w = [heap[o].words EXCEPT ![f] = n]
    BY <1>1, <2>1
  <2> HIDE DEF o, w
  <2> QED
    BY <1>2, <2>1, <2>2, WordOfHeap
<1>4. /\ w = [heap[o].words EXCEPT ![f] = n] /\ DOMAIN w = DOMAIN heap[o].words
      /\ \A k \in DOMAIN w : w[k] = IF k = f THEN n ELSE heap[o].words[k]
  OBVIOUS
<1>5. heap[o].tag \notin DOMAIN code.types
  BY <1>1, <1>2, RuntimeTypes DEF GInv
<1> HIDE DEF o, w
<1>6. ASSUME Tracked
      PROVE  /\ RefsIn(heap[o].words) = {} \/ heap[o].words[f].k # "ref"
             /\ KindOK(code, Known, [tag |-> heap[o].tag, words |-> w])
  <2>1. KindOK(code, Known, heap[o]) /\ RefsIn(heap[o].words) = {}
    BY <1>2, <1>5, <1>6 DEF KindOK
  <2>4. RefsIn(w) = {}
    BY <1>1, <1>4, <2>1 DEF RefsIn
  <2>2. CASE tag = "Range" /\ f = "current"
    <3>1. "current" \in DOMAIN w
      BY <1>2, <1>4, <2>2 DEF ObjectOK
    <3>2. w["current"].k # "ref"
      BY <1>1, <1>4, <2>2, <3>1
    <3> QED
      BY <1>2, <1>5, <2>1, <2>2, <2>4, <3>2 DEF KindOK
  <2>3. CASE tag = "Vector" /\ f = "pos"
    <3>1. "items" \in DOMAIN w
      BY <1>2, <1>4, <2>3 DEF ObjectOK
    <3>2. w["items"] = heap[o].words["items"]
      BY <1>4, <2>3, <3>1
    <3> QED
      BY <1>2, <1>5, <2>1, <2>3, <2>4, <3>2 DEF KindOK
  <2> QED
    BY <1>1, <2>2, <2>3
<1>7. /\ HInv' /\ LiveIn(heap) \subseteq LiveIn(heap')
      /\ Tracked => /\ KindsOK(code, Known, heap')
                    /\ Reach(heap, shadow) \subseteq Reach(heap', shadow)
  BY <1>1, <1>2, <1>3, <1>4, <1>6, NumberWritten
<1>8. Instr.op = "method" /\ Instr.f \in BuiltinMethods /\ b.k # "ref" /\ Define(b)
  BY <1>1, <1>2 DEF BuiltinMethods
<1> QED
  BY <1>1, <1>2, <1>7, <1>8, StoringNumber

\* __range_current, __vec_current and __vec_size.
LEMMA CurrentRooted ==
  ASSUME LawfulOnes, RootedOnes, GInv, RangeCurrent \/ VectorCurrent \/ VectorSize
  PROVE  HInv' /\ NInv' /\ RInv'
<1>1. exe' = exe /\ heap' = heap /\ shadow' = shadow /\ Instr.f \in BuiltinMethods
  BY DEF RangeCurrent, VectorCurrent, VectorSize, BuiltinMethods
<1>2. HInv'
  BY <1>1, SameHeap
<1>3. CASE ~ Tracked
  BY <1>1, <1>2, <1>3, Untracked
<1>4. CASE Tracked
  <2>1. PICK v : v.k # "ref" /\ Define(v) /\ \E tags : ExecutingOn(tags)
    <3>1. CASE RangeCurrent
      <4>1. ExecutingOn({"Range"}) /\ Define(heap[Loaded[1].v].words["current"])
        BY <3>1 DEF RangeCurrent
      <4>2. KindOK(code, Known, heap[Loaded[1].v]) /\ heap[Loaded[1].v].tag = "Range"
        BY <1>4, <4>1, ReceiverKnown
      <4>3. heap[Loaded[1].v].words["current"].k # "ref"
        BY <4>2 DEF KindOK
      <4> QED
        BY <4>1, <4>3
    <3>2. CASE VectorCurrent
      <4>1. PICK n : /\ ExecutingOn({"Vector"}) /\ HasItem(Loaded[1], n)
                     /\ Define(Items(Loaded[1])[n])
        BY <3>2 DEF VectorCurrent
      <4>2. /\ KindOK(code, Known, heap[Loaded[1].v]) /\ heap[Loaded[1].v].tag = "Vector"
            /\ Slot(Loaded[1], Len(heap))
        BY <1>4, <4>1, ReceiverKnown
      <4>3. HasTag(Loaded[1], {"Vector", "ObjArray"}) /\ n \in DOMAIN Items(Loaded[1])
        BY <4>1 DEF HasItem
      <4>4. DOMAIN Items(Loaded[1]) = 1..Len(Items(Loaded[1]))
        BY <4>2, <4>3, ItemsHeld DEF GInv
      <4>5. Items(Loaded[1])[n].k # "ref"
        BY <4>2, <4>3, <4>4 DEF KindOK, Items
      <4> QED
        BY <4>1, <4>5
    <3>3. CASE VectorSize
      BY <3>3, NumbersAreNone DEF VectorSize
    <3> QED
      BY <3>1, <3>2, <3>3
  <2>2. Running /\ Instr.op = "method" /\ Instr.op \in Producers /\ ~ PassesOn(Instr)
    BY <2>1, ReceiverKnown
  <2> QED
    BY <1>1, <1>4, <2>1, <2>2, SameHeap, StoringNumber
<1> QED
  BY <1>3, <1>4

-----------------------------------------------------------------------------
(* The steps that make objects.                                            *)

\* The runtime's functions that allocate and give what they made.
LEMMA StoringNew ==
  ASSUME LawfulOnes, RootedOnes, GInv, Running, IsCallOf(Instr, Allocators),
         NEW h \in Heaps, NEW tag, NEW words, Allocate(h, tag, words),
         RefsIn(words) \subseteq LiveIn(h), Define(NewObject), exe' = exe, shadow' = shadow,
         Tracked => KindOK(code, Known, [tag |-> tag, words |-> words])
  PROVE  HInv' /\ NInv' /\ RInv'
<1>1. /\ HInv' /\ Reach(heap, shadow) \subseteq Reach(heap', shadow)
      /\ Lives(heap', NewObject)
  BY NewHeap
<1>2. Tracked => KindsOK(code, Known, heap')
  BY NewKinds DEF GInv, NInv
<1>3. /\ Instr.op \in Producers /\ Allocates(Instr) /\ ~ PassesOn(Instr) /\ ~ Computes(Instr)
      /\ Instr.op # "get"
  BY DEF IsCallOf, Producers, Calls, Allocates, Allocators, PassesOn, Computes
<1>4. PICK v : v = NewObject
  OBVIOUS
<1>5. v.k = "ref" /\ Define(v) /\ Lives(heap', v)
  BY <1>1, <1>4 DEF NewObject, Ref
<1>6. \A F : Places(F, Instr) = {} /\ ~ GivesReached(F, Instr)
  BY <1>3 DEF Places, GivesReached
<1>7. GivesSuch(v, Frame.fn, Instr)
  BY <1>5 DEF GivesSuch, Gives
<1> QED
  BY <1>1, <1>2, <1>3, <1>5, <1>6, <1>7, Storing

\* hulk_number_to_string.
LEMMA ConversionRooted ==
  ASSUME LawfulOnes, RootedOnes, GInv, NumberToString
  PROVE  HInv' /\ NInv' /\ RInv'
<1>1. /\ Executing("call") /\ Instr.f = "hulk_number_to_string"
      /\ Define(NewObject) /\ exe' = exe /\ shadow' = shadow
  BY DEF NumberToString
<1>2. PICK h, n : h \in Heaps /\ Allocate(h, "String", Text(n))
  BY DEF NumberToString
<1>3. Running /\ IsCallOf(Instr, Allocators)
  BY <1>1, RuntimeCall DEF GInv, IsCallOf, Allocators
<1>4. PICK words : words = Text(n)
  OBVIOUS
<1>5. RefsIn(words) = {} /\ \A A : KindOK(code, A, [tag |-> "String", words |-> words])
  BY <1>3, <1>4, NewKind DEF GInv
<1>6. h \in Heaps /\ Allocate(h, "String", words) /\ RefsIn(words) \subseteq LiveIn(h)
  BY <1>2, <1>4, <1>5
<1> QED
  BY <1>1, <1>3, <1>5, <1>6, StoringNew

\* hulk_range_new, whose range holds two numbers.
LEMMA RangeRooted ==
  ASSUME LawfulOnes, RootedOnes, GInv, RangeNew
  PROVE  HInv' /\ NInv' /\ RInv'
<1> DEFINE words == [current |-> Num(Loaded[1].v - 1), max |-> Double(Loaded[2])]
<1>1. /\ Executing("call") /\ Instr.f = "range"
      /\ Define(NewObject) /\ exe' = exe /\ shadow' = shadow
  BY DEF RangeNew
<1>2. PICK h \in Heaps : Allocate(h, "Range", words)
  BY DEF RangeNew
<1>3. Running /\ Instr.op = "call"
  BY <1>1, RuntimeCall DEF GInv
<1>4. IsCallOf(Instr, Allocators)
  BY <1>1, <1>3 DEF IsCallOf, Allocators
<1>5. /\ DOMAIN words = {"current", "max"} /\ words["current"].k = "num"
      /\ words["max"].k = "num"
  BY DEF Num, Double
<1> HIDE DEF words
<1>6. RefsIn(words) = {}
  BY <1>5 DEF RefsIn
<1>7. KindOK(code, Known, [tag |-> "Range", words |-> words])
  <2>1. "Range" \notin DOMAIN code.types
    BY <1>3, RuntimeTypes DEF GInv
  <2> QED
    BY <1>5, <1>6, <2>1 DEF KindOK
<1> QED
  BY <1>1, <1>2, <1>3, <1>4, <1>6, <1>7, StoringNew

\* __vec_new and __arr_new.
LEMMA VectorRooted ==
  ASSUME LawfulOnes, RootedOnes, GInv, VectorNew
  PROVE  HInv' /\ NInv' /\ RInv'
<1>1. /\ Executing("call") /\ Instr.f \in {"__vec_new", "__arr_new"}
      /\ Define(NewObject) /\ exe' = exe /\ shadow' = shadow
  BY DEF VectorNew
<1> DEFINE items == IF Instr.f = "__vec_new" THEN <<>> ELSE [i \in 1..Loaded[1].v |-> Num(0)]
           words == [pos |-> Num(0), items |-> Raw(items)]
<1>2. PICK h \in Heaps : Allocate(h, "Vector", words)
  BY DEF VectorNew
<1>3. Running /\ Instr.op = "call" /\ Slot(Loaded[1], Len(heap))
  BY <1>1, RuntimeCall DEF GInv
<1>4. IsCallOf(Instr, Allocators)
  BY <1>1, <1>3 DEF IsCallOf, Allocators
<1>5. \A j \in 1..Len(items) : items[j].k # "ref"
  <2>1. items = <<>> \/ items = [i \in 1..Loaded[1].v |-> Num(0)]
    OBVIOUS
  <2> HIDE DEF items
  <2>2. CASE items = <<>>
    BY <2>2, EmptySeq
  <2>3. CASE items = [i \in 1..Loaded[1].v |-> Num(0)]
    <3>1. PICK n, x : n \in Int /\ n = Loaded[1].v /\ x = Num(0)
      BY <1>3 DEF Slot
    <3>2. items = [i \in 1..n |-> x] /\ n \in Int
      BY <2>3, <3>1
    <3>3. \A j \in 1..Len([i \in 1..n |-> x]) : [i \in 1..n |-> x][j] = x
      BY <3>2, Repeated
    <3> QED
      BY <3>1, <3>2, <3>3, NumbersAreNone
  <2> QED
    BY <2>1, <2>2, <2>3
<1> HIDE DEF items
<1>6. /\ DOMAIN words = {"pos", "items"} /\ words["pos"].k = "num"
      /\ words["items"].k = "raw" /\ words["items"].v = items
  BY DEF Num, Raw
<1> HIDE DEF words
<1>7. RefsIn(words) = {}
  BY <1>6 DEF RefsIn
<1>8. KindOK(code, Known, [tag |-> "Vector", words |-> words])
  <2>1. "Vector" \notin DOMAIN code.types
    BY <1>3, RuntimeTypes DEF GInv
  <2> QED
    BY <1>5, <1>6, <1>7, <2>1 DEF KindOK
<1> QED
  BY <1>1, <1>2, <1>3, <1>4, <1>7, <1>8, StoringNew

\* __objarr_new, which rooted code does not call.
LEMMA ObjectArrayRooted ==
  ASSUME LawfulOnes, RootedOnes, GInv, ObjArrayNew
  PROVE  HInv' /\ NInv' /\ RInv'
<1>1. /\ Executing("call") /\ Instr.f = "__objarr_new" /\ exe' = exe /\ shadow' = shadow
  BY DEF ObjArrayNew
<1>2. PICK h, words : /\ h \in Heaps /\ Allocate(h, "ObjArray", words)
                      /\ \E x : words = [items |-> Raw(x)]
  BY DEF ObjArrayNew
<1>3. Running /\ IsCallOf(Instr, {"__objarr_new"})
  BY <1>1, RuntimeCall DEF GInv, IsCallOf
<1>4. RefsIn(words) = {}
  BY <1>2 DEF RefsIn, Raw
<1>5. HInv'
  BY <1>1, <1>2, <1>3, <1>4, NewHeap
<1>6. ~ Tracked
  BY <1>3, HereIsKnown DEF UsesSafely
<1> QED
  BY <1>1, <1>5, <1>6, Untracked

\* hulk_string_concat, when it has copied the characters.
LEMMA CopiedRooted ==
  ASSUME LawfulOnes, RootedOnes, GInv, ConcatCopy
  PROVE  HInv' /\ NInv' /\ RInv'
<1> DEFINE o == Loaded[3].v
<1>1. PICK n, w : /\ heap' = [heap EXCEPT ![o].words = w] /\ w = Text(n)
  BY DEF ConcatCopy
<1>2. /\ Running /\ IsConcat /\ Len(Loaded) = 3
      /\ Define(Loaded[3]) /\ exe' = exe /\ shadow' = shadow
  BY DEF ConcatCopy
<1>3. Loads(Instr, Loaded, heap)
  BY <1>2, UnderWay DEF GInv, FrameOK, Loaded
<1>4. Loaded[3].k = "ref" /\ heap[o].tag = "String" /\ Slot(Loaded[3], Len(heap))
  BY <1>2, <1>3 DEF Loads, IsConcat
<1>5. o \in 1..Len(heap) /\ HeapOK(code, heap)
  BY <1>4, HeapNow DEF Slot, GInv
<1>6. RefsIn(w) = {} /\ \A A : KindOK(code, A, [tag |-> "String", words |-> w])
  BY <1>1, <1>2, NewKind DEF GInv
<1>7. /\ Instr.op \in Producers /\ Allocates(Instr) /\ ~ PassesOn(Instr) /\ ~ Computes(Instr)
      /\ Instr.op # "get" /\ IsCallOf(Instr, {"__hulk_concat"})
  BY <1>2 DEF IsConcat, IsCallOf, Producers, Calls, Allocates, Allocators, PassesOn, Computes
<1>8. \A F : Places(F, Instr) = {} /\ ~ GivesReached(F, Instr)
  BY <1>7 DEF Places, GivesReached
<1> HIDE DEF o
<1>9. Rewritten(heap, heap', o, w)
  <2>1. PICK c, h : c = code /\ h = heap
    OBVIOUS
  <2>2. HeapOK(c, h) /\ o \in 1..Len(h)
    BY <1>5, <2>1
  <2>3. Rewritten(h, [h EXCEPT ![o].words = w], o, w)
    BY <2>2, WordsReplaced
  <2> QED
    BY <1>1, <2>1, <2>3
<1>10. o \in LiveIn(heap) => RefsIn(w) \subseteq LiveIn(heap)
  BY <1>6
<1>11. /\ HInv' /\ LiveIn(heap) \subseteq LiveIn(heap')
       /\ RefsIn(w) = RefsIn(heap[o].words) => Reach(heap, shadow) \subseteq Reach(heap', shadow)
  BY <1>2, <1>9, <1>10, RewrittenHeap
<1>12. ASSUME Tracked
       PROVE  /\ KindsOK(code, Known, heap')
              /\ Reach(heap, shadow) \subseteq Reach(heap', shadow)
              /\ Lives(heap', Loaded[3])
  <2>1. KindOK(code, Known, heap[o])
    BY <1>5, <1>12, HeapNow DEF GInv, NInv, KindsOK
  <2>2. RefsIn(w) = RefsIn(heap[o].words)
    <3>1. "String" \notin DOMAIN code.types
      BY <1>2, RuntimeTypes DEF GInv
    <3> QED
      BY <1>4, <1>6, <2>1, <3>1 DEF KindOK, o
  <2>3. KindsOK(code, Known, heap')
    <3>1. PICK g : g = heap'
      OBVIOUS
    <3>2. KindOK(code, Known, [tag |-> heap[o].tag, words |-> w])
      BY <1>4, <1>6 DEF o
    <3> QED
      BY <1>9, <1>12, <3>1, <3>2, RewrittenKinds DEF GInv, NInv
  <2>4. Lives(heap, Loaded[3])
    <3>1. InnermostOK(code, Frame, heap, shadow) /\ Instr = At(code, Frame)
      BY <1>2, <1>12, HereIsKnown, UnderWay DEF GInv
    <3> QED
      BY <1>2, <1>7, <3>1 DEF InnermostOK, Loaded
  <2> QED
    BY <1>11, <2>2, <2>3, <2>4 DEF Lives
<1>13. PICK v : v = Loaded[3]
  OBVIOUS
<1>14. v.k = "ref" /\ Define(v) /\ (Tracked => Lives(heap', v))
  BY <1>2, <1>4, <1>12, <1>13
<1>15. GivesSuch(v, Frame.fn, Instr)
  BY <1>7, <1>14 DEF GivesSuch, Gives, IsCallOf, Allocators
<1> QED
  BY <1>2, <1>7, <1>8, <1>11, <1>12, <1>14, <1>15, Storing

-----------------------------------------------------------------------------
(* Control and the shadow stack.                                           *)

\* The label a jump names is one of the places it may lead to.
LEMMA LeapRooted ==
  ASSUME LawfulOnes, RootedOnes, GInv, Running, Instr.op \in {"jump", "jumpif"},
         GoTo(Instr.to), exe' = exe, heap' = heap, shadow' = shadow
  PROVE  HInv' /\ NInv' /\ RInv'
<1> DEFINE q == CHOOSE i \in 1..Len(Body) : IsLabel(Body, i, Instr.to)
<1>1. IsLawful(code) /\ FrameOK(code, Frame, heap) /\ Body = code.bodies[Frame.fn]
  BY UnderWay DEF GInv
<1>2. Frame.fn \in DOMAIN code.bodies /\ Frame.pc \in 1..Len(Body)
  BY <1>1 DEF FrameOK
<1>3. HasTargets(Body)
  BY <1>1, <1>2 DEF IsLawful, IsBody
<1>4. \E i \in 1..Len(Body) : IsLabel(Body, i, Instr.to)
  BY <1>2, <1>3 DEF HasTargets, Instr
<1>5. q \in 1..Len(Body) /\ IsLabel(Body, q, Instr.to)
  BY <1>4
<1>6. SetFrame([Frame EXCEPT !.pc = q, !.loaded = <<>>])
  <2>1. ASSUME NEW p
        PROVE  [Frame EXCEPT !.loaded = <<>>, !.pc = p] = [Frame EXCEPT !.pc = p, !.loaded = <<>>]
    <3>1. IsFrame(Frame)
      BY FrameIsRecord DEF GInv
    <3> HIDE DEF q
    <3> QED
      BY <3>1, FrameAdvanced, Zenon
  <2>2. SetFrame([Frame EXCEPT !.loaded = <<>>, !.pc = q])
    BY DEF GoTo
  <2> QED
    BY <2>1, <2>2
<1> HIDE DEF q
<1>7. q \in Successors(Body, Frame.pc)
  BY <1>5 DEF Successors, Instr
<1>8. Instr.op \notin Producers /\ Instr.op \notin {"push", "pop"}
  BY DEF Producers, Calls
<1>9. ShadowMoves(Body, Frame.pc, Frame, shadow, shadow')
  BY <1>8, ShadowStands
<1>10. /\ HInv' /\ LiveIn(heap) \subseteq LiveIn(heap')
       /\ Reach(heap, shadow) \subseteq Reach(heap', shadow')
       /\ Tracked => KindsOK(code, Known, heap')
  BY SameHeap
<1> QED
  BY <1>6, <1>7, <1>8, <1>9, <1>10, Leading

\* Labels, jumps and branches.
LEMMA ControlRooted ==
  ASSUME LawfulOnes, RootedOnes, GInv, DoLabel \/ DoJump \/ DoJumpIf
  PROVE  HInv' /\ NInv' /\ RInv'
<1>1. /\ Running /\ Instr.op \in {"label", "jump", "jumpif"}
      /\ exe' = exe /\ heap' = heap /\ shadow' = shadow
      /\ \/ Instr.op \in {"jump", "jumpif"} /\ GoTo(Instr.to)
         \/ Instr.op \in {"label", "jumpif"} /\ Continue
  BY DEF DoLabel, DoJump, DoJumpIf, Executing
<1>2. CASE Instr.op \in {"jump", "jumpif"} /\ GoTo(Instr.to)
  BY <1>1, <1>2, LeapRooted
<1>3. CASE Instr.op \in {"label", "jumpif"} /\ Continue
  <2>1. Instr.op \notin Producers \cup {"jump", "return"} /\ Instr.op \notin {"push", "pop"}
    BY <1>3 DEF Producers, Calls
  <2>2. ShadowMoves(Body, Frame.pc, Frame, shadow, shadow')
    BY <1>1, <2>1, ShadowStands
  <2>3. /\ HInv' /\ LiveIn(heap) \subseteq LiveIn(heap')
        /\ Reach(heap, shadow) \subseteq Reach(heap', shadow')
        /\ Tracked => KindsOK(code, Known, heap')
    BY <1>1, SameHeap
  <2> QED
    BY <1>1, <1>3, <2>1, <2>2, <2>3, GoingOn
<1> QED
  BY <1>1, <1>2, <1>3

\* emit_shadow_push: what is pushed has not been freed, and from here on it and
\* what it leads to will not be.
LEMMA PushRooted ==
  ASSUME LawfulOnes, RootedOnes, GInv, DoShadowPush
  PROVE  HInv' /\ NInv' /\ RInv'
<1> DEFINE v == IF Loaded[1].k = "num" THEN Null ELSE Loaded[1]
<1>1. /\ Executing("push") /\ Continue /\ exe' = exe /\ heap' = heap
      /\ shadow' = Append(shadow, v)
  BY DEF DoShadowPush
<1>2. Running /\ Instr.op = "push" /\ HasShape(Instr) /\ 1 \in 1..Len(Loaded) /\ IInv
      /\ 1 \in 1..Len(Instr.args)
  BY <1>1, Executed, UnderWay, Counted DEF GInv
<1>3. Lives(heap, Loaded[1])
  BY <1>2, NeededOperand DEF Needs
<1>4. Lives(heap, v) /\ (v.k = "ref" => v = Loaded[1]) /\ (Loaded[1].k = "ref" => v = Loaded[1])
  <2>1. CASE Loaded[1].k = "num"
    BY <2>1 DEF Lives, Null
  <2>2. CASE Loaded[1].k # "num"
    BY <1>3, <2>2
  <2> QED
    BY <2>1, <2>2
<1> HIDE DEF v
<1>5. IsSeq(shadow) /\ Len(shadow) \in Nat /\ DOMAIN shadow = 1..Len(shadow)
  BY <1>2, SequenceHas DEF IInv, ShadowOK
<1>6. /\ IsSeq(shadow') /\ Len(shadow') = Len(shadow) + 1
      /\ \A i \in 1..Len(shadow) : shadow'[i] = shadow[i]
      /\ shadow'[Len(shadow) + 1] = v
  BY <1>1, <1>4, <1>5, Appended
<1>7. DOMAIN shadow' = 1..Len(shadow) + 1 /\ Len(shadow') \in Nat
  BY <1>5, <1>6, SequenceHas
<1>8. \A i \in 1..Len(shadow) + 1 : i \in 1..Len(shadow) \/ i = Len(shadow) + 1
  BY <1>5
<1>9. RefsIn(shadow') \subseteq RefsIn(shadow) \cup (IF v.k = "ref" THEN {v.v} ELSE {})
  BY <1>5, <1>6, <1>7, <1>8 DEF RefsIn
<1>10. RefsIn(shadow) \subseteq RefsIn(shadow')
  <2>1. \A i \in DOMAIN shadow : i \in DOMAIN shadow' /\ shadow'[i] = shadow[i]
    BY <1>5, <1>6, <1>7
  <2> QED
    BY <2>1 DEF RefsIn
<1>11. NothingDangles(heap, shadow) /\ NothingDangles(heap, shadow')
  BY <1>4, <1>9 DEF GInv, HInv, NothingDangles, Lives
<1>12. HInv' /\ LiveIn(heap) \subseteq LiveIn(heap')
  BY <1>1, <1>11 DEF HInv, GInv
<1>13. CASE ~ Tracked
  BY <1>1, <1>12, <1>13, Untracked
<1>14. CASE Tracked
  <2>1. Reach(heap, shadow) \subseteq Reach(heap', shadow')
    <3>1. Reach(heap, shadow) \subseteq LiveIn(heap)
      BY <1>11, ReachedIsSound
    <3> QED
      BY <1>1, <1>10, <1>11, <3>1, ReachedStays
  <2>2. Tracked => KindsOK(code, Known, heap')
    BY <1>1 DEF GInv, NInv
  <2>3. /\ Frame.base \in Nat /\ Frame.base <= Len(shadow) /\ DepthAt(Body, Frame.pc) \in Nat
        /\ Len(shadow) = Frame.base + DepthAt(Body, Frame.pc)
    BY <1>2, BelowIsThere
  <2>4. ASSUME Instr.args[1].k = "temp", Instr.args[1].v \in DOMAIN Frame.temps
        PROVE  Anchored(shadow', Frame.base, DepthAt(Body, Frame.pc) + 1,
                        Frame.temps[Instr.args[1].v])
    <3>1. Came(Instr.args[1], Loaded[1], Frame.temps)
      BY <1>2, <1>14, HereIsKnown DEF Took, Where
    <3>2. Loaded[1] = Frame.temps[Instr.args[1].v]
      BY <2>4, <3>1 DEF Came
    <3>3. PICK d, m \in Nat : d = DepthAt(Body, Frame.pc) /\ m = Frame.base
                              /\ Len(shadow) = m + d /\ d \in Nat
      BY <2>3
    <3>4. m + (d + 1) \in 1..Len(shadow') /\ d + 1 # 0 /\ shadow'[m + (d + 1)] = v
      BY <1>6, <3>3
    <3> QED
      BY <1>4, <3>2, <3>3, <3>4 DEF Anchored
  <2>5. ShadowMoves(Body, Frame.pc, Frame, shadow, shadow')
    <3>1. Body[Frame.pc] = Instr
      BY DEF Instr
    <3>2. Frame.base <= Len(shadow') /\ Len(shadow') = Frame.base + DepthAt(Body, Frame.pc) + Change(Instr)
      BY <1>2, <1>6, <2>3 DEF Change
    <3> QED
      BY <1>6, <1>7, <2>3, <2>4, <3>1, <3>2 DEF ShadowMoves
  <2>6. Instr.op \notin Producers \cup {"jump", "return"}
    BY <1>2 DEF Producers, Calls
  <2> QED
    BY <1>1, <1>2, <1>12, <2>1, <2>2, <2>5, <2>6, GoingOn
<1> QED
  BY <1>13, <1>14

\* emit_shadow_pop: what only the popped reference led to is no longer reached.
LEMMA PopRooted ==
  ASSUME LawfulOnes, RootedOnes, GInv, DoShadowPop
  PROVE  HInv' /\ NInv' /\ RInv'
<1>1. /\ Executing("pop") /\ Continue /\ exe' = exe /\ heap' = heap
      /\ shadow' = Front(shadow) /\ shadow # <<>>
  BY DEF DoShadowPop
<1>2. Running /\ Instr.op = "pop" /\ IInv
  BY <1>1, Executed DEF GInv
<1>3. IsSeq(shadow) /\ Len(shadow) \in Nat /\ Len(shadow) # 0 /\ DOMAIN shadow = 1..Len(shadow)
  BY <1>1, <1>2, SequenceHas DEF IInv, ShadowOK
<1>4. PICK m \in Nat : m = Len(shadow) - 1 /\ m <= Len(shadow)
  <2>1. PICK n \in Nat : n = Len(shadow) /\ n # 0
    BY <1>3
  <2>2. n - 1 \in Nat /\ n - 1 <= n
    BY <2>1
  <2> QED
    BY <2>1, <2>2
<1>5. shadow' = SubSeq(shadow, 1, m)
  BY <1>1, <1>4 DEF Front
<1>6. IsSeq(shadow') /\ Len(shadow') = m /\ \A i \in 1..m : shadow'[i] = shadow[i]
  BY <1>3, <1>4, <1>5, Beginning
<1>7. DOMAIN shadow' = 1..m
  BY <1>6, SequenceHas
<1>8. RefsIn(shadow') \subseteq RefsIn(shadow)
  <2>1. \A i \in DOMAIN shadow' : i \in DOMAIN shadow /\ shadow'[i] = shadow[i]
    BY <1>3, <1>4, <1>6, <1>7
  <2> QED
    BY <2>1 DEF RefsIn
<1>9. HInv' /\ LiveIn(heap) \subseteq LiveIn(heap')
  BY <1>1, <1>8 DEF HInv, GInv, NothingDangles
<1>10. /\ Frame.base \in Nat /\ DepthAt(Body, Frame.pc) \in Nat
       /\ Len(shadow) = Frame.base + DepthAt(Body, Frame.pc) /\ Body[Frame.pc] = Instr
  BY <1>2, BelowIsThere DEF Instr
<1>11. DepthAt(Body, Frame.pc) > 0
  <2>1. /\ IsLawful(code) /\ FrameOK(code, Frame, heap) /\ Body = code.bodies[Frame.fn]
    BY <1>2, UnderWay
  <2>2. Frame.fn \in DOMAIN code.bodies /\ Frame.pc \in 1..Len(Body)
    BY <2>1 DEF FrameOK
  <2>3. IsBody(code, Body)
    BY <2>1, <2>2 DEF IsLawful
  <2> QED
    BY <1>2, <1>10, <2>2, <2>3 DEF IsBody, IsBalanced
<1>12. ShadowMoves(Body, Frame.pc, Frame, shadow, shadow')
  <2>1. PICK b, d \in Nat : b = Frame.base /\ d = DepthAt(Body, Frame.pc) /\ d > 0
                            /\ Len(shadow) = b + d /\ d \in Nat
    BY <1>10, <1>11
  <2>2. m = b + d + -1 /\ b <= m
    BY <1>4, <2>1
  <2>3. Change(Instr) = -1
    BY <1>2 DEF Change
  <2>4. \A j \in 1..b + d : j <= m => shadow'[j] = shadow[j]
    BY <1>6, <2>1
  <2> QED
    BY <1>2, <1>6, <1>7, <1>10, <2>1, <2>2, <2>3, <2>4 DEF ShadowMoves
<1>13. Instr.op \notin Producers \cup {"jump", "return"}
  BY <1>2 DEF Producers, Calls
<1>14. Tracked => KindsOK(code, Known, heap')
  BY <1>1 DEF GInv, NInv
<1> QED
  BY <1>1, <1>2, <1>9, <1>12, <1>13, <1>14, GoingOn

-----------------------------------------------------------------------------
(* Calls.                                                                  *)

\* What a function is known to have been given, where it begins.
LEMMA EntryFacts ==
  ASSUME NEW c, NEW fn, NEW A, A = Analysis(c)
  PROVE  LET E == Entry(A, fn)
         IN  /\ \A y \in E.kept : fn \notin A.quiet /\ <<fn, y[1]>> \in A.inputs /\ y[2] = 0
             /\ \A t \in E.reached : fn \notin A.quiet /\ <<fn, t>> \in A.inputs
             /\ \A t \in E.live : <<fn, t>> \in A.inputs
<1> DEFINE ps == {x[2] : x \in {x \in A.inputs : x[1] = fn}}
           E == Entry(A, fn)
<1>1. \A x \in A.inputs : x = <<x[1], x[2]>>
  <2>1. ASSUME NEW g, NEW S, NEW x \in {g} \X S PROVE x = <<x[1], x[2]>>
    OBVIOUS
  <2>2. A.inputs = UNION {{g} \X Inputs(c.bodies[g]) : g \in DOMAIN c.bodies}
    BY DEF Analysis
  <2> QED
    BY <2>1, <2>2
<1>2. \A t \in ps : <<fn, t>> \in A.inputs
  BY <1>1
<1>3. /\ E.kept = IF fn \in A.quiet THEN {} ELSE {<<t, 0>> : t \in ps}
      /\ E.reached = IF fn \in A.quiet THEN {} ELSE ps
      /\ E.live = ps
  BY DEF Entry
<1> HIDE DEF ps, E
<1>4. ASSUME NEW y \in E.kept
      PROVE  fn \notin A.quiet /\ <<fn, y[1]>> \in A.inputs /\ y[2] = 0
  <2>1. fn \notin A.quiet /\ y \in {<<t, 0>> : t \in ps}
    BY <1>3
  <2>2. PICK t \in ps : y = <<t, 0>>
    BY <2>1
  <2>3. y[1] = t /\ y[2] = 0
    BY <2>2
  <2> QED
    BY <1>2, <2>1, <2>3
<1> QED
  BY <1>2, <1>3, <1>4 DEF E

\* An argument that is kept is on what will be the caller's part of the stack.
LEMMA KeptOperand ==
  ASSUME LawfulOnes, RootedOnes, GInv, Running, Tracked,
         NEW a \in 1..Len(Instr.args), Where(Instr, a) \in 1..Len(Loaded),
         IsKept(FactsOf(code, Frame), Instr.args[a])
  PROVE  Anchored(shadow, Len(shadow), 0, Loaded[Where(Instr, a)])
<1> DEFINE w == Instr.args[a]
           v == Loaded[Where(Instr, a)]
           F == FactsOf(code, Frame)
<1> SUFFICES Anchored(shadow, Len(shadow), 0, v)
  OBVIOUS
<1>1. Came(w, v, Frame.temps) /\ KeptHolds(F, shadow, Frame)
  BY HereIsKnown DEF Took, InnermostOK
<1>2. IsConstant(w) \/ (w.k = "temp" /\ w.v \in Temps(F.kept))
  BY DEF IsKept
<1>3. Frame.base \in Nat /\ Len(shadow) \in Nat /\ Frame.base <= Len(shadow)
  BY BelowIsThere DEF GInv
<1> HIDE DEF w, v, F
<1>4. CASE IsConstant(w)
  BY <1>1, <1>4, ConstantOperand DEF Anchored
<1>5. CASE w.k = "temp" /\ w.v \in Temps(F.kept)
  <2>1. PICK x \in F.kept : x[1] = w.v
    BY <1>5 DEF Temps
  <2>2. Anchored(shadow, Frame.base, x[2], v)
    BY <1>1, <1>5, <2>1 DEF Came, KeptHolds
  <2> SUFFICES ASSUME v.k = "ref" PROVE \E j \in 1..Len(shadow) : shadow[j] = v
    BY DEF Anchored
  <2>3. CASE x[2] = 0
    <3>1. PICK j \in 1..Frame.base : shadow[j] = v
      BY <2>2, <2>3 DEF Anchored
    <3> QED
      BY <1>3, <3>1
  <2>4. CASE x[2] # 0
    BY <2>2, <2>4 DEF Anchored
  <2> QED
    BY <2>3, <2>4
<1> QED
  BY <1>2, <1>4, <1>5

\* A parameter holds what was loaded for it: the object of new, or an argument.
LEMMA ParameterIsLoaded ==
  ASSUME LawfulOnes, IInv, Running,
         Len(Loaded) = Len(Instr.args) + (IF Instr.op = "new" THEN 1 ELSE 0),
         NEW t \in 0..Len(Loaded) - 1
  PROVE  \/ Instr.op = "new" /\ Loaded # <<>> /\ t + 1 = 1
         \/ \E a \in 1..Len(Instr.args) :
              /\ t = ParameterOf(Instr, a) /\ Where(Instr, a) \in 1..Len(Loaded)
              /\ t + 1 = Where(Instr, a)
<1>1. HasShape(Instr) /\ FrameOK(code, Frame, heap) /\ Instr = At(code, Frame)
  BY UnderWay
<1>2. PICK n \in Nat : n = Len(Instr.args)
  BY <1>1, Counted
<1>4. CASE Instr.op = "new"
  <2>1. Len(Loaded) = n + 1 /\ t \in 0..n
    BY <1>2, <1>4
  <2>2. CASE t = 0
    <3>1. IsSeq(Loaded)
      BY <1>1 DEF FrameOK, Loads, Loaded
    <3>2. Loaded # <<>>
      BY <1>2, <2>1, <3>1, SequenceHas, n + 1 # 0
    <3> QED
      BY <1>4, <2>2, <3>2
  <2>3. CASE t # 0
    <3>1. t \in 1..n /\ t + 1 \in 1..n + 1
      BY <1>2, <2>1, <2>3
    <3> QED
      BY <1>2, <1>4, <2>1, <3>1 DEF ParameterOf, Where
  <2> QED
    BY <2>2, <2>3
<1>5. CASE Instr.op # "new"
  <2>1. Len(Loaded) = n
    BY <1>2, <1>5
  <2>2. t \in 0..n - 1
    BY <2>1
  <2>3. t + 1 \in 1..n /\ t = (t + 1) - 1
    BY <1>2, <2>2
  <2> QED
    BY <1>2, <1>5, <2>1, <2>3 DEF ParameterOf, Where
<1> QED
  BY <1>4, <1>5

\* What a function reads of what it is passed has not been freed, and is on the
\* shadow stack if the function may start a collection.
LEMMA PassedRooted ==
  ASSUME LawfulOnes, RootedOnes, GInv, Running, Tracked,
         Instr.op \in Calls, Instr.op = "call" => Instr.f \notin Runtime,
         NEW fn \in Callees(code, Instr),
         Len(Loaded) = Len(Instr.args) + (IF Instr.op = "new" THEN 1 ELSE 0),
         NEW t \in DOMAIN NewFrame(fn, Loaded).temps, <<fn, t>> \in Known.inputs
  PROVE  LET v == NewFrame(fn, Loaded).temps[t]
         IN  /\ Lives(heap, v)
             /\ fn \notin Known.quiet => Anchored(shadow, Len(shadow), 0, v)
<1>1. /\ InnermostOK(code, Frame, heap, shadow) /\ Instr = At(code, Frame) /\ IInv
      /\ UsesSafely(code, Known, Frame.fn, FactsOf(code, Frame), Instr)
  BY HereIsKnown, UnderWay DEF GInv
<1>2. t \in 0..Len(Loaded) - 1 /\ NewFrame(fn, Loaded).temps[t] = Loaded[t + 1]
  BY DEF NewFrame
<1> DEFINE v == Loaded[t + 1]
<1>3. CASE Instr.op = "new" /\ Loaded # <<>> /\ t + 1 = 1
  BY <1>1, <1>2, <1>3 DEF InnermostOK, Loaded, UsesSafely
<1>4. ASSUME NEW a \in 1..Len(Instr.args), t = ParameterOf(Instr, a),
             Where(Instr, a) \in 1..Len(Loaded), t + 1 = Where(Instr, a)
      PROVE  Lives(heap, v) /\ (fn \notin Known.quiet => Anchored(shadow, Len(shadow), 0, v))
  <2>1. a \in Used(code, Known, Instr)
    BY <1>4 DEF Used
  <2>2. CASE Instr.op = "new"
    <3>1. fn \in Known.quiet /\ IsReached(FactsOf(code, Frame), Instr.args[a])
      BY <1>1, <2>1, <2>2 DEF UsesSafely
    <3> QED
      BY <1>4, <3>1, ReachedOperand
  <2>3. CASE Instr.op # "new" /\ Callees(code, Instr) \subseteq Known.quiet
    <3>1. fn \in Known.quiet /\ IsSafe(FactsOf(code, Frame), Instr, a)
      BY <1>1, <2>1, <2>3 DEF UsesSafely
    <3>2. ~ HasLiteral(Instr) => ~ Allocates(Instr)
      BY <2>3 DEF Allocates, IsCallOf, Allocators, Runtime
    <3> QED
      BY <1>4, <3>1, <3>2, SafeOperand
  <2>4. CASE Instr.op # "new" /\ ~ (Callees(code, Instr) \subseteq Known.quiet)
    <3>1. IsKept(FactsOf(code, Frame), Instr.args[a])
      BY <1>1, <2>1, <2>4 DEF UsesSafely
    <3>2. Anchored(shadow, Len(shadow), 0, v)
      BY <1>4, <3>1, KeptOperand
    <3>3. NothingDangles(heap, shadow) /\ Len(shadow) \in Nat /\ DOMAIN shadow = 1..Len(shadow)
      BY <1>1, BelowIsThere DEF GInv, HInv
    <3>4. Stays(heap, shadow, v)
      <4> HIDE DEF v
      <4>1. PICK m \in Nat : m = Len(shadow)
        BY <3>3
      <4>2. m <= m
        OBVIOUS
      <4> QED
        BY <3>2, <3>3, <4>1, <4>2, AnchoredIsReached
    <3> QED
      BY <3>2, <3>3, <3>4, ReachedIsLive
  <2> QED
    BY <2>2, <2>3, <2>4
<1>5. \/ Instr.op = "new" /\ Loaded # <<>> /\ t + 1 = 1
      \/ \E a \in 1..Len(Instr.args) :
           /\ t = ParameterOf(Instr, a) /\ Where(Instr, a) \in 1..Len(Loaded)
           /\ t + 1 = Where(Instr, a)
  BY <1>1, <1>2, ParameterIsLoaded
<1>6. Lives(heap, v) /\ (fn \notin Known.quiet => Anchored(shadow, Len(shadow), 0, v))
  <2>1. CASE \E a \in 1..Len(Instr.args) :
               /\ t = ParameterOf(Instr, a) /\ Where(Instr, a) \in 1..Len(Loaded)
               /\ t + 1 = Where(Instr, a)
    <3>1. PICK a \in 1..Len(Instr.args) :
            /\ t = ParameterOf(Instr, a) /\ Where(Instr, a) \in 1..Len(Loaded)
            /\ t + 1 = Where(Instr, a)
      BY <2>1
    <3> QED
      BY <1>4, <3>1
  <2> QED
    BY <1>2, <1>3, <1>5, <2>1
<1> QED
  BY <1>2, <1>6

\* The calls under way and one more: what was known of the innermost is known
\* of it as long as nothing has been freed.
LEMMA EnteredRooted ==
  ASSUME NEW c, NEW A, NEW fs, IsSeq(fs), Len(fs) > 0, NEW h, NEW s, StackRooted(c, A, fs, h, s),
         NEW x, InnermostOK(c, x, h, s),
         At(c, fs[Len(fs)]).op = "new" => fs[Len(fs)].loaded # <<>>
  PROVE  StackRooted(c, A, Append(fs, x), h, s)
<1> DEFINE n  == Len(fs)
           gs == Append(fs, x)
<1>1. n \in Nat /\ n \in 1..n /\ n > 0
  BY SequenceHas
<1>2. IsSeq(gs) /\ Len(gs) = n + 1 /\ (\A i \in 1..n : gs[i] = fs[i]) /\ gs[n + 1] = x
  BY <1>1, Appended
<1> HIDE DEF gs
<1>3. ASSUME NEW i \in 1..n PROVE WaitingOK(c, A, gs, i, h, s)
  <2>1. gs[i] = fs[i]
    BY <1>2
  <2>2. CASE i = n
    <3>1. InnermostOK(c, fs[i], h, s)
      BY <1>1, <2>2 DEF StackRooted
    <3> QED
      BY <2>1, <2>2, <3>1 DEF InnermostOK, WaitingOK
  <2>3. CASE i # n
    <3>1. i \in 1..n - 1
      BY <1>1, <2>3
    <3>2. WaitingOK(c, A, fs, i, h, s)
      BY <3>1 DEF StackRooted
    <3>3. \A j \in i + 1..n : j \in i + 1..n + 1 /\ gs[j] = fs[j]
      BY <1>1, <1>2
    <3>4. QuietAbove(A, gs, i) => QuietAbove(A, fs, i)
      BY <1>2, <3>3 DEF QuietAbove
    <3> QED
      BY <2>1, <3>2, <3>4 DEF WaitingOK
  <2> QED
    BY <2>2, <2>3
<1>4. n + 1 - 1 = n
  BY <1>1
<1>5. StackRooted(c, A, gs, h, s)
  BY <1>2, <1>3, <1>4 DEF StackRooted
<1> QED
  BY <1>5 DEF gs

\* And where numbers and references are known to be, with what it has been passed.
LEMMA EnteredSorted ==
  ASSUME NEW c, NEW A, NEW fs, IsSeq(fs), Len(fs) > 0, StackSorted(c, A, fs),
         NEW x, x.fn \in Callees(c, At(c, fs[Len(fs)])), Sorted(c, A, x),
         Took(At(c, x), x.loaded, x.temps)
  PROVE  StackSorted(c, A, Append(fs, x))
<1> DEFINE n  == Len(fs)
           gs == Append(fs, x)
<1>1. n \in Nat /\ n > 0
  BY SequenceHas
<1>2. IsSeq(gs) /\ Len(gs) = n + 1 /\ (\A i \in 1..n : gs[i] = fs[i]) /\ gs[n + 1] = x
  BY <1>1, Appended
<1> HIDE DEF gs
<1>3. \A i \in 1..n + 1 : i \in 1..n \/ i = n + 1
  BY <1>1
<1>4. \A i \in 1..n + 1 : Sorted(c, A, gs[i])
  BY <1>2, <1>3 DEF StackSorted
<1>5. CallsOf(c, gs)
  <2> SUFFICES ASSUME NEW i \in 1..n PROVE gs[i + 1].fn \in Callees(c, At(c, gs[i]))
    BY <1>1, <1>2 DEF CallsOf
  <2>1. CASE i = n
    BY <1>2, <2>1
  <2>2. CASE i # n
    <3>1. i \in 1..n - 1 /\ i + 1 \in 1..n
      BY <1>1, <2>2
    <3>2. gs[i + 1] = fs[i + 1] /\ gs[i] = fs[i]
      BY <1>2, <3>1
    <3> QED
      BY <3>1, <3>2 DEF StackSorted, CallsOf
  <2> QED
    BY <2>1, <2>2
<1>6. StackSorted(c, A, gs)
  BY <1>2, <1>4, <1>5 DEF StackSorted
<1> QED
  BY <1>6 DEF gs

\* A call of a function the instruction may call.
LEMMA EnteringRooted ==
  ASSUME LawfulOnes, RootedOnes, GInv, Running,
         Instr.op \in Calls, Instr.op = "call" => Instr.f \notin Runtime,
         NEW fn \in Callees(code, Instr), fn \in DOMAIN code.bodies,
         Len(Loaded) = Len(Instr.args) + (IF Instr.op = "new" THEN 1 ELSE 0),
         Enters(fn, Loaded)
  PROVE  HInv' /\ NInv' /\ RInv'
<1> DEFINE x == NewFrame(fn, Loaded)
<1>1. frames' = Append(frames, x) /\ exe' = exe /\ heap' = heap /\ shadow' = shadow
  BY DEF Enters
<1>2. HInv' /\ code' = code /\ Known' = Known /\ Tracked' = Tracked
  BY <1>1, SameHeap DEF code, Known, Tracked
<1> SUFFICES ASSUME Tracked
             PROVE  /\ StackSorted(code, Known, Append(frames, x))
                    /\ StackRooted(code, Known, Append(frames, x), heap, shadow)
  BY <1>1, <1>2 DEF NInv, RInv, GInv
<1>3. /\ IsLawful(code) /\ IsSeq(frames) /\ Len(frames) > 0 /\ Frame = frames[Len(frames)]
      /\ Instr = At(code, Frame) /\ Body = code.bodies[Frame.fn] /\ IInv
  BY UnderWay DEF GInv
<1>4. /\ IsRooted(code) /\ Frame.fn \in DOMAIN code.bodies /\ Frame.pc \in 1..Len(Body)
      /\ Sorted(code, Known, Frame)
  BY HereIsKnown
<1>5. /\ x.fn = fn /\ x.pc = 1 /\ x.loaded = <<>> /\ x.base = Len(shadow)
      /\ DOMAIN x.temps = 0..Len(Loaded) - 1 /\ \A t \in DOMAIN x.temps : x.temps[t] = Loaded[t + 1]
  BY DEF NewFrame
<1>6. \A t \in DOMAIN x.temps : <<fn, t>> \in Known.inputs =>
         /\ Lives(heap, x.temps[t])
         /\ fn \notin Known.quiet => Anchored(shadow, Len(shadow), 0, x.temps[t])
  BY PassedRooted
<1> HIDE DEF x
<1>7. At(code, Frame).op = "new" => Frame.loaded # <<>>
  <2> SUFFICES ASSUME Instr.op = "new" PROVE Loaded # <<>>
    BY <1>3 DEF Loaded
  <2>1. PICK m \in Nat : m = Len(Instr.args)
    BY <1>3, UnderWay, Counted
  <2>2. IsSeq(Loaded)
    BY LoadedSoFar
  <2>3. m + 1 # 0
    OBVIOUS
  <2> QED
    BY <2>1, <2>2, <2>3, SequenceHas
<1>8. Sorted(code, Known, x)
  <2>1. ASSUME NEW sort \in Sorts, NEW t \in DOMAIN x.temps, x.temps[t].k = sort
        PROVE  <<fn, t>> \in Known.held[sort].temps
    <3>0. Instr = code.bodies[Frame.fn][Frame.pc] /\ Frame.pc \in 1..Len(code.bodies[Frame.fn])
      BY <1>3, <1>4 DEF Instr
    <3>1. CASE Instr.op = "new" /\ Loaded # <<>> /\ t + 1 = 1
      <4>1. t = 0
        <5>1. PICK m \in Nat : m = Len(Loaded)
          BY LoadedSoFar
        <5>2. t \in 0..m - 1
          BY <1>5, <5>1
        <5> QED
          BY <3>1, <5>2
      <4>2. sort = "ref"
        BY <1>3, <1>4, <1>5, <2>1, <3>1 DEF Sorted, Loaded, Sorts
      <4> QED
        BY <1>4, <3>0, <3>1, <4>1, <4>2, SortedCode DEF Known
    <3>2. ASSUME NEW a \in 1..Len(Instr.args), t = ParameterOf(Instr, a),
                 Where(Instr, a) \in 1..Len(Loaded), t + 1 = Where(Instr, a)
          PROVE  <<fn, t>> \in Known.held[sort].temps
      <4>1. Loaded[Where(Instr, a)].k = sort
        BY <1>5, <2>1, <3>2
      <4>2. MayBe(sort, Known.held[sort], Frame.fn, Instr.args[a])
        BY <3>2, <4>1, SortLoaded
      <4> QED
        BY <1>4, <3>0, <3>2, <4>2, SortedCode DEF Known
    <3> QED
      BY <1>3, <1>5, <3>1, <3>2, ParameterIsLoaded
  <2> QED
    BY <1>5, <2>1 DEF Sorted
<1>9. Took(At(code, x), x.loaded, x.temps)
  <2>1. Len(At(code, x).args) \in Nat
    <3>1. 1 \in 1..Len(code.bodies[fn])
      BY <1>3, AtTheStart
    <3> QED
      BY <1>3, <1>5, <3>1, LawfulBody, Counted DEF At
  <2>2. Len(x.loaded) = 0
    BY <1>5, EmptySeq
  <2> QED
    BY <2>1, <2>2, NothingTook
<1>10. InnermostOK(code, x, heap, shadow)
  <2> DEFINE E == Entry(Known, fn)
  <2>1. Within(FactsOf(code, x), E)
    BY <1>4, <1>5, RootedBody DEF FactsOf, Known
  <2>2. /\ \A y \in E.kept : fn \notin Known.quiet /\ <<fn, y[1]>> \in Known.inputs /\ y[2] = 0
        /\ \A t \in E.reached : fn \notin Known.quiet /\ <<fn, t>> \in Known.inputs
        /\ \A t \in E.live : <<fn, t>> \in Known.inputs
    BY EntryFacts DEF Known
  <2> HIDE DEF E
  <2>3. KeptHolds(E, shadow, x)
    <3> SUFFICES ASSUME NEW y \in E.kept, y[1] \in DOMAIN x.temps
                 PROVE  Anchored(shadow, x.base, y[2], x.temps[y[1]])
      BY DEF KeptHolds
    <3> QED
      BY <1>5, <1>6, <2>2
  <2>4. ReachedHolds(E, heap, shadow, x)
    <3> SUFFICES ASSUME NEW t \in E.reached, t \in DOMAIN x.temps
                 PROVE  Stays(heap, shadow, x.temps[t])
      BY DEF ReachedHolds
    <3>1. Anchored(shadow, Len(shadow), 0, x.temps[t])
      BY <1>6, <2>2
    <3>2. /\ NothingDangles(heap, shadow) /\ DOMAIN shadow = 1..Len(shadow)
      BY <1>3, BelowIsThere DEF GInv, HInv
    <3>3. PICK m \in Nat : m = Len(shadow)
      BY <1>3, BelowIsThere
    <3>4. m <= m
      OBVIOUS
    <3> QED
      BY <3>1, <3>2, <3>3, <3>4, AnchoredIsReached
  <2>5. LiveHolds(E, heap, x)
    BY <1>6, <2>2 DEF LiveHolds
  <2> QED
    BY <1>5, <2>1, <2>3, <2>4, <2>5, Arrived
<1>11. StackSorted(code, Known, frames) /\ StackRooted(code, Known, frames, heap, shadow)
  BY DEF GInv, NInv, RInv
<1>12. StackSorted(code, Known, Append(frames, x))
  BY <1>3, <1>5, <1>8, <1>9, <1>11, EnteredSorted
<1>13. StackRooted(code, Known, Append(frames, x), heap, shadow)
  BY <1>3, <1>7, <1>10, <1>11, EnteredRooted
<1> QED
  BY <1>12, <1>13

\* resolve_call, emit_static_call and emit_new's call of the constructor.
LEMMA FunctionRooted ==
  ASSUME LawfulOnes, RootedOnes, GInv, CallFunction \/ CallStatic \/ CallInit
  PROVE  HInv' /\ NInv' /\ RInv'
<1>1. CASE CallFunction
  <2>1. Executing("call") /\ Instr.f \notin Runtime /\ Enters(Instr.f, Loaded)
    BY <1>1 DEF CallFunction
  <2>2. /\ Running /\ Instr.op = "call" /\ Len(Loaded) = Len(Instr.args) /\ Len(Loaded) \in Nat
        /\ CallsFit(code, Instr)
    BY <2>1, Executed, UnderWay DEF GInv
  <2>3. Instr.f \in DOMAIN code.bodies /\ Instr.f \in Callees(code, Instr)
    BY <2>1, <2>2 DEF CallsFit, CanTake, Callees
  <2>4. Instr.op \in Calls /\ Len(Loaded) = Len(Instr.args) + (IF Instr.op = "new" THEN 1 ELSE 0)
    BY <2>2 DEF Calls
  <2> QED
    BY <2>1, <2>2, <2>3, <2>4, EnteringRooted
<1>2. CASE CallStatic
  <2>1. Executing("static") /\ Enters(Instr.f, Loaded)
    BY <1>2 DEF CallStatic
  <2>2. /\ Running /\ Instr.op = "static" /\ Len(Loaded) = Len(Instr.args) /\ Len(Loaded) \in Nat
        /\ CallsFit(code, Instr)
    BY <2>1, Executed, UnderWay DEF GInv
  <2>3. Instr.f \in DOMAIN code.bodies /\ Instr.f \in Callees(code, Instr)
    BY <2>2 DEF CallsFit, CanTake, Callees
  <2>4. Instr.op \in Calls /\ Len(Loaded) = Len(Instr.args) + (IF Instr.op = "new" THEN 1 ELSE 0)
    BY <2>2 DEF Calls
  <2> QED
    BY <2>1, <2>2, <2>3, <2>4, EnteringRooted
<1>3. CASE CallInit
  <2>1. Executing("new") /\ Enters(Instr.f \o ".__init__", Loaded)
    BY <1>3 DEF CallInit
  <2>2. /\ Running /\ Instr.op = "new" /\ Len(Loaded) = Len(Instr.args) + 1
        /\ CallsFit(code, Instr)
    BY <2>1, Executed, UnderWay DEF GInv
  <2>3. Instr.f \o ".__init__" \in DOMAIN code.bodies
        /\ Instr.f \o ".__init__" \in Callees(code, Instr)
    BY <2>2 DEF CallsFit, CanTake, Callees
  <2>4. Instr.op \in Calls /\ Len(Loaded) = Len(Instr.args) + (IF Instr.op = "new" THEN 1 ELSE 0)
    BY <2>2 DEF Calls
  <2> QED
    BY <2>1, <2>2, <2>3, <2>4, EnteringRooted
<1> QED
  BY <1>1, <1>2, <1>3

\* emit_method_call: the receiver's implementation is one of those there are.
LEMMA MethodRooted ==
  ASSUME LawfulOnes, RootedOnes, GInv, CallMethod
  PROVE  HInv' /\ NInv' /\ RInv'
<1> DEFINE T == heap[Loaded[1].v].tag
           O == Owner(T, Instr.f)
<1>1. /\ ExecutingOn(DOMAIN code.types) /\ Owners(T, Instr.f) # {}
      /\ Enters(O \o "." \o Instr.f, Loaded)
  BY DEF CallMethod, Implementation
<1>2. Executing("method") /\ T \in DOMAIN code.types
  BY <1>1, RuntimeMethod DEF ExecutingOn, GInv
<1>3. /\ Running /\ Instr.op = "method" /\ Len(Loaded) = Len(Instr.args) /\ Len(Loaded) \in Nat
      /\ IInv /\ CallsFit(code, Instr)
  BY <1>2, Executed, UnderWay DEF GInv
<1>4. O \in DOMAIN code.types /\ Instr.f \in code.types[O].methods
  BY <1>1, <1>2, <1>3, OwnersImplement
<1> HIDE DEF T, O
<1>5. O \o "." \o Instr.f \in DOMAIN code.bodies
  BY <1>3, <1>4 DEF CallsFit, CanTake
<1>6. O \o "." \o Instr.f \in Callees(code, Instr)
  BY <1>3, <1>4 DEF Callees
<1>7. Instr.op \in Calls /\ Len(Loaded) = Len(Instr.args) + (IF Instr.op = "new" THEN 1 ELSE 0)
  BY <1>3 DEF Calls
<1> QED
  BY <1>1, <1>3, <1>5, <1>6, <1>7, EnteringRooted

-----------------------------------------------------------------------------
(* Returns.                                                                *)

\* The calls under way without the innermost, and with the next one moved on.
LEMMA ReturnedSequence ==
  ASSUME NEW fs, IsSeq(fs), Len(fs) > 1, NEW x
  PROVE  LET gs == Append(SubSeq(fs, 1, Len(fs) - 2), x)
         IN  /\ IsSeq(gs) /\ Len(gs) = Len(fs) - 1 /\ gs[Len(fs) - 1] = x
             /\ \A i \in 1..Len(fs) - 2 : gs[i] = fs[i]
<1>1. PICK n \in Nat : n = Len(fs) /\ n > 1
  BY SequenceHas
<1>2. PICK m \in Nat : m = n - 2 /\ m <= n /\ m + 1 = n - 1
  BY <1>1
<1>3. IsSeq(SubSeq(fs, 1, m)) /\ Len(SubSeq(fs, 1, m)) = m /\ \A i \in 1..m : SubSeq(fs, 1, m)[i] = fs[i]
  BY <1>1, <1>2, Beginning
<1>4. LET gs == Append(SubSeq(fs, 1, m), x)
      IN  IsSeq(gs) /\ Len(gs) = m + 1 /\ gs[m + 1] = x /\ \A i \in 1..m : gs[i] = fs[i]
  BY <1>3, Appended
<1> QED
  BY <1>1, <1>2, <1>4

LEMMA ReturnedSorted ==
  ASSUME NEW c, NEW A, NEW fs, IsSeq(fs), Len(fs) > 1, StackSorted(c, A, fs),
         NEW x, x.fn = fs[Len(fs) - 1].fn, Sorted(c, A, x), Took(At(c, x), x.loaded, x.temps)
  PROVE  StackSorted(c, A, Append(SubSeq(fs, 1, Len(fs) - 2), x))
<1> DEFINE gs == Append(SubSeq(fs, 1, Len(fs) - 2), x)
<1>1. PICK n \in Nat : n = Len(fs) /\ n > 1
  BY SequenceHas
<1>2. PICK m \in Nat : m = n - 2 /\ m + 1 = n - 1
  BY <1>1
<1>3. IsSeq(gs) /\ Len(gs) = m + 1 /\ gs[m + 1] = x /\ \A i \in 1..m : gs[i] = fs[i]
  BY <1>1, <1>2, ReturnedSequence
<1> HIDE DEF gs
<1>4. \A i \in 1..m : i \in 1..n /\ i \in 1..n - 1
  BY <1>1, <1>2
<1>5. \A i \in 1..m + 1 : i \in 1..m \/ i = m + 1
  BY <1>2
<1>6. \A i \in 1..Len(gs) : Sorted(c, A, gs[i])
  BY <1>1, <1>3, <1>4, <1>5 DEF StackSorted
<1>7. \A i \in 1..m : gs[i + 1].fn = fs[i + 1].fn
  <2> TAKE i \in 1..m
  <2>1. CASE i = m
    BY <1>1, <1>2, <1>3, <2>1
  <2>2. CASE i # m
    <3>1. i + 1 \in 1..m
      BY <1>2, <2>2
    <3> QED
      BY <1>3, <3>1
  <2> QED
    BY <2>1, <2>2
<1>8. CallsOf(c, gs)
  <2>1. Len(gs) - 1 = m
    BY <1>2, <1>3
  <2>2. \A i \in 1..m : gs[i + 1].fn \in Callees(c, At(c, gs[i]))
    BY <1>1, <1>3, <1>4, <1>7 DEF StackSorted, CallsOf
  <2> QED
    BY <2>1, <2>2 DEF CallsOf
<1>9. StackSorted(c, A, gs)
  BY <1>3, <1>6, <1>8 DEF StackSorted
<1> QED
  BY <1>9 DEF gs

\* A function that is quiet has called one that is.
LEMMA ReturnedRooted ==
  ASSUME NEW c, NEW A, NEW fs, IsSeq(fs), Len(fs) > 1, NEW h, NEW s, StackRooted(c, A, fs, h, s),
         NEW x, x.fn = fs[Len(fs) - 1].fn, InnermostOK(c, x, h, s),
         x.fn \in A.quiet => fs[Len(fs)].fn \in A.quiet
  PROVE  StackRooted(c, A, Append(SubSeq(fs, 1, Len(fs) - 2), x), h, s)
<1> DEFINE gs == Append(SubSeq(fs, 1, Len(fs) - 2), x)
<1>1. PICK n \in Nat : n = Len(fs) /\ n > 1
  BY SequenceHas
<1>2. PICK m \in Nat : m = n - 2 /\ m + 1 = n - 1
  BY <1>1
<1>3. IsSeq(gs) /\ Len(gs) = m + 1 /\ gs[m + 1] = x /\ \A i \in 1..m : gs[i] = fs[i]
  BY <1>1, <1>2, ReturnedSequence
<1> HIDE DEF gs
<1>4. ASSUME NEW i \in 1..m PROVE WaitingOK(c, A, gs, i, h, s)
  <2>1. gs[i] = fs[i] /\ i \in 1..n - 1
    BY <1>1, <1>2, <1>3
  <2>2. WaitingOK(c, A, fs, i, h, s)
    BY <1>1, <2>1 DEF StackRooted
  <2>3. ASSUME QuietAbove(A, gs, i) PROVE QuietAbove(A, fs, i)
    <3>1. gs[m + 1].fn \in A.quiet
      BY <1>2, <1>3, <2>3 DEF QuietAbove
    <3>2. fs[m + 1].fn \in A.quiet /\ fs[n].fn \in A.quiet
      BY <1>1, <1>2, <1>3, <3>1
    <3>3. ASSUME NEW j \in i + 1..n, j # n, j # m + 1 PROVE fs[j].fn \in A.quiet
      <4>1. j \in i + 1..m + 1 /\ j \in 1..m
        BY <1>2, <3>3
      <4> QED
        BY <1>3, <2>3, <4>1 DEF QuietAbove
    <3> QED
      BY <1>1, <3>2, <3>3 DEF QuietAbove
  <2> QED
    BY <2>1, <2>2, <2>3 DEF WaitingOK
<1>5. Len(gs) - 1 = m
  BY <1>2, <1>3
<1>6. StackRooted(c, A, gs, h, s)
  BY <1>3, <1>4, <1>5 DEF StackRooted
<1> QED
  BY <1>6 DEF gs

\* What a caller gets back has not been freed.
LEMMA ResultRooted ==
  ASSUME LawfulOnes, RootedOnes, GInv, Tracked, Executing("return"), Len(frames) > 1,
         NEW f, f = frames[Len(frames) - 1],
         NEW v, v = IF At(code, f).op = "new" THEN f.loaded[1] ELSE Loaded[1]
  PROVE  /\ Frame.fn \in Callees(code, At(code, f)) /\ Lives(heap, v)
         /\ GivesSuch(v, f.fn, At(code, f))
<1> DEFINE call == At(code, f)
<1>1. Running /\ Instr.op = "return" /\ IInv
  BY Executed DEF GInv
<1>2. /\ IsLawful(code) /\ IsSeq(frames) /\ Frame = frames[Len(frames)]
      /\ Body = code.bodies[Frame.fn] /\ HasShape(Instr)
      /\ StackOK(code, frames, heap, Len(shadow))
  BY <1>1, UnderWay DEF IInv
<1>3. PICK n \in Nat : n = Len(frames) /\ n > 1
  BY <1>2, SequenceHas
<1>4. n \in 1..n /\ n - 1 \in 1..n /\ n - 1 \in 1..n - 1 /\ n - 1 + 1 = n
  BY <1>3
<1>5. FrameOK(code, f, heap) /\ Waits(code, f) /\ Frame.fn # MainName
  BY <1>2, <1>3, <1>4 DEF StackOK
<1>6. /\ IsRooted(code) /\ Frame.fn \in DOMAIN code.bodies /\ Frame.pc \in 1..Len(Body)
  BY <1>1, HereIsKnown
<1>7. f.fn \in DOMAIN code.bodies /\ f.pc \in 1..Len(code.bodies[f.fn])
  BY <1>5 DEF FrameOK
<1>8. /\ StackSorted(code, Known, frames) /\ StackRooted(code, Known, frames, heap, shadow)
  BY DEF GInv, NInv, RInv
<1>9. Frame.fn \in Callees(code, call)
  BY <1>2, <1>3, <1>4, <1>8 DEF StackSorted, CallsOf
<1>10. UsesSafely(code, Known, f.fn, FactsOf(code, f), call)
  BY <1>6, <1>7, RootedBody DEF FactsOf, Known, At
<1>11. 1 \in 1..Len(Loaded) /\ 1 \in 1..Len(Instr.args)
  <2>1. Len(Instr.args) = 1
    BY <1>1, <1>2, Counted
  <2>2. Len(Loaded) = Len(Instr.args)
    BY <1>1, <1>5, Executed
  <2> QED
    BY <2>1, <2>2
<1>12. CASE call.op = "new"
  <2>1. WaitingOK(code, Known, frames, n - 1, heap, shadow)
    BY <1>3, <1>4, <1>8 DEF StackRooted
  <2>2. Frame.fn \in Known.quiet
    BY <1>9, <1>10, <1>12 DEF UsesSafely
  <2>3. QuietAbove(Known, frames, n - 1)
    BY <1>2, <1>3, <1>4, <2>2 DEF QuietAbove
  <2>4. Lives(heap, v)
    BY <1>3, <1>12, <2>1, <2>3 DEF WaitingOK
  <2>5. v.k # "num"
    <3>1. Sorted(code, Known, f)
      BY <1>3, <1>4, <1>8 DEF StackSorted
    <3>2. f.loaded # <<>>
      <4>1. 1 \in 1..Len(f.loaded)
        BY <1>5, <1>12 DEF Waits
      <4> QED
        BY <4>1, EmptySeq
    <3> QED
      BY <1>12, <3>1, <3>2 DEF Sorted
  <2>6. GivesSuch(v, f.fn, call)
    BY <1>12, <2>5 DEF GivesSuch, Gives, Sorts
  <2> QED
    BY <1>9, <2>4, <2>6
<1>13. CASE call.op # "new"
  <2>1. v = Loaded[1]
    BY <1>13
  <2>2. Lives(heap, v)
    BY <1>1, <1>5, <1>11, <2>1, NeededOperand DEF Needs
  <2>3. ASSUME NEW sort \in Sorts, v.k = sort PROVE Gives(sort, code, Known.held[sort], f.fn, call)
    <3>1. Where(Instr, 1) = 1
      BY <1>1 DEF Where
    <3>2. MayBe(sort, Known.held[sort], Frame.fn, Instr.args[1])
      BY <1>1, <1>11, <2>1, <2>3, <3>1, SortLoaded
    <3>3. Instr = code.bodies[Frame.fn][Frame.pc] /\ Frame.pc \in 1..Len(code.bodies[Frame.fn])
      BY <1>2, <1>6 DEF Instr
    <3>4. Frame.fn \in Known.held[sort].results
      BY <1>1, <1>6, <1>11, <3>2, <3>3, SortedCode DEF Known
    <3> QED
      BY <1>9, <1>13, <3>4 DEF Gives
  <2> QED
    BY <1>9, <2>2, <2>3 DEF GivesSuch
<1> QED
  BY <1>12, <1>13

\* emit_return_for_fn: the caller goes on with the result.
LEMMA ReturnRooted ==
  ASSUME LawfulOnes, RootedOnes, GInv, DoReturn
  PROVE  HInv' /\ NInv' /\ RInv'
<1> DEFINE n == Len(frames)
           f == frames[n - 1]
           call == code.bodies[f.fn][f.pc]
           v == IF call.op = "new" THEN f.loaded[1] ELSE Loaded[1]
           T == Stored(f.temps, call.dst, v)
           b == code.bodies[f.fn]
           F == FactsOf(code, f)
           x == [fn |-> f.fn, pc |-> f.pc + 1, loaded |-> <<>>, base |-> f.base, temps |-> T]
<1>1. /\ Executing("return") /\ n > 1 /\ exe' = exe /\ heap' = heap /\ shadow' = shadow
      /\ frames' = Append(SubSeq(frames, 1, n - 2),
                          [f EXCEPT !.pc = f.pc + 1, !.loaded = <<>>, !.temps = T])
  BY DEF DoReturn
<1>2. Running /\ Instr.op = "return" /\ IInv
  BY <1>1, Executed DEF GInv
<1>3. /\ IsLawful(code) /\ IsSeq(frames) /\ n \in Nat /\ Frame = frames[n]
      /\ StackOK(code, frames, heap, Len(shadow)) /\ Instr = At(code, Frame)
      /\ Depth_(code, Frame) = Len(shadow) /\ FrameOK(code, Frame, heap)
      /\ Body = code.bodies[Frame.fn]
  BY <1>2, UnderWay DEF IInv
<1>4. n \in 1..n /\ n - 1 \in 1..n /\ n - 1 \in 1..n - 1 /\ n - 1 + 1 = n
  BY <1>1, <1>3
<1>5. /\ FrameOK(code, f, heap) /\ Waits(code, f) /\ Depth_(code, f) = Frame.base
  BY <1>3, <1>4 DEF StackOK
<1>6. /\ IsFrame(f) /\ f.fn \in DOMAIN code.bodies /\ f.pc \in 1..Len(b) /\ f.base \in Nat
      /\ call = At(code, f) /\ call.op \in Calls
  BY <1>5 DEF FrameOK, At, Waits
<1>7. frames' = Append(SubSeq(frames, 1, n - 2), x)
  <2>1. [f EXCEPT !.pc = f.pc + 1, !.loaded = <<>>, !.temps = T] = x
    <3> HIDE DEF f, T
    <3> QED
      BY <1>6, FrameUpdated
  <2> QED
    BY <1>1, <2>1
<1>8. HInv' /\ code' = code /\ Known' = Known /\ Tracked' = Tracked
  BY <1>1, SameHeap DEF code, Known, Tracked
<1>9. /\ x.fn = f.fn /\ x.pc = f.pc + 1 /\ x.loaded = <<>> /\ x.base = f.base /\ x.temps = T
  OBVIOUS
<1>10. T = Stored(f.temps, call.dst, v) /\ (v = IF call.op = "new" THEN f.loaded[1] ELSE Loaded[1])
       /\ F = FactsOf(code, f) /\ b = code.bodies[f.fn] /\ f = frames[n - 1] /\ call = b[f.pc]
       /\ n = Len(frames)
  OBVIOUS
<1> HIDE DEF f, call, v, T, b, F, x, n
<1> SUFFICES ASSUME Tracked
             PROVE  /\ StackSorted(code, Known, frames')
                    /\ StackRooted(code, Known, frames', heap, shadow)
  BY <1>1, <1>8 DEF NInv, RInv, GInv
<1>11. IsRooted(code)
  BY <1>2, HereIsKnown
<1>12. /\ Frame.fn \in Callees(code, call) /\ Lives(heap, v)
       /\ GivesSuch(v, f.fn, call)
  BY <1>1, <1>6, <1>10, ResultRooted
<1>13. StackSorted(code, Known, frames) /\ StackRooted(code, Known, frames, heap, shadow)
  BY DEF GInv, NInv, RInv
<1>14. call.op \in Producers /\ Change(call) = 0 /\ f.pc + 1 \in Successors(b, f.pc)
       /\ call.op \notin {"set", "pop", "push"}
  BY <1>6, <1>10 DEF Calls, Producers, Change, Successors
<1>15. Sorted(code, Known, x)
  <2>1. Sorted(code, Known, f)
    BY <1>3, <1>4, <1>10, <1>13 DEF StackSorted
  <2>2. ASSUME NEW sort \in Sorts, v.k = sort PROVE <<f.fn, call.dst>> \in Known.held[sort].temps
    <3>1. f.fn \in DOMAIN code.bodies /\ f.pc \in 1..Len(code.bodies[f.fn])
          /\ call = code.bodies[f.fn][f.pc]
      BY <1>6, <1>10
    <3>2. Gives(sort, code, Known.held[sort], f.fn, call)
      BY <1>12, <2>2 DEF GivesSuch
    <3> QED
      BY <1>11, <1>14, <3>1, <3>2, SortedCode DEF Known
  <2>3. \A t \in DOMAIN T : IF t = call.dst THEN T[t] = v ELSE t \in DOMAIN f.temps /\ T[t] = f.temps[t]
    BY <1>10 DEF Stored
  <2> QED
    BY <1>9, <2>1, <2>2, <2>3 DEF Sorted
<1>16. f.pc + 1 \in 1..Len(b) /\ DepthAt(b, f.pc) \in Nat
  BY <1>3, <1>6, <1>10, <1>14, AlongPaths, LawfulBody
<1>17. Took(At(code, x), x.loaded, x.temps)
  <2>1. Len(At(code, x).args) \in Nat
    BY <1>3, <1>6, <1>9, <1>10, <1>16, LawfulBody, Counted DEF At
  <2>2. Len(x.loaded) = 0
    BY <1>9, EmptySeq
  <2> QED
    BY <2>1, <2>2, NothingTook
<1>18. /\ Within(FactsOf(code, x), After(code, Known, b, f.pc, F))
       /\ \A y \in F.kept : y[2] \in 0..DepthAt(b, f.pc)
  BY <1>6, <1>9, <1>10, <1>11, <1>14, RootedBody DEF FactsOf, Known
<1>19. ShadowMoves(b, f.pc, f, shadow, shadow)
  <2>1. Frame.base = Len(shadow)
    <3>1. /\ Frame.fn \in DOMAIN code.bodies /\ Frame.pc \in 1..Len(Body) /\ Frame.base \in Nat
      BY <1>3 DEF FrameOK
    <3>2. IsBody(code, Body)
      BY <1>3, <3>1 DEF IsLawful
    <3>3. DepthAt(Body, Frame.pc) = 0
      BY <1>2, <3>1, <3>2 DEF IsBody, IsBalanced, Instr
    <3> QED
      BY <1>3, <3>1, <3>3 DEF Depth_
  <2>2. Len(shadow) = f.base + DepthAt(b, f.pc)
    BY <1>5, <1>10, <2>1 DEF Depth_
  <2>3. Len(shadow) \in Nat /\ DOMAIN shadow = 1..Len(shadow)
    BY <1>2, BelowIsThere
  <2>4. PICK p, q \in Nat : p = f.base /\ q = DepthAt(b, f.pc)
    BY <1>6, <1>16
  <2>5. p <= p + q /\ p + q = p + q + 0
    OBVIOUS
  <2> QED
    BY <1>10, <1>14, <2>2, <2>3, <2>4, <2>5 DEF ShadowMoves
<1>20. WaitingOK(code, Known, frames, n - 1, heap, shadow)
  BY <1>4, <1>10, <1>13 DEF StackRooted
<1>21. KeptHolds(F, shadow, f) /\ (Frame.fn \in Known.quiet /\ ~ Allocates(call) => LiveHolds(F, heap, f))
  <2>0. \A j \in n - 1 + 1..Len(frames) : j = n
    <3>1. n - 1 + 1 = n /\ Len(frames) = n /\ n \in Nat
      BY <1>3, <1>4, <1>10
    <3> QED
      BY <3>1
  <2>1. Frame.fn \in Known.quiet => QuietAbove(Known, frames, n - 1)
    BY <1>3, <2>0 DEF QuietAbove
  <2> QED
    BY <1>6, <1>10, <1>20, <2>1 DEF WaitingOK
<1> DEFINE L == Left(code, Known, b, f.pc, F)
<1>22. KeptHolds(L, shadow, f) /\ ReachedHolds(L, heap, shadow, f) /\ LiveHolds(L, heap, f)
  <2>1. NothingDangles(heap, shadow)
    BY DEF GInv, HInv
  <2>2. ~ Allocates(b[f.pc]) /\ Callees(code, b[f.pc]) \subseteq Known.quiet =>
          LiveHolds(F, heap, f) /\ LiveIn(heap) \subseteq LiveIn(heap)
    BY <1>10, <1>12, <1>21
  <2>3. Callees(code, b[f.pc]) # {}
    BY <1>10, <1>12
  <2> QED
    BY <1>6, <1>16, <1>18, <1>19, <1>21, <2>1, <2>2, <2>3, LeftHolds
<1>23. Places(F, call) = {} /\ ~ GivesReached(F, call)
  <2>1. call.op = "call" => call.f \notin Runtime
    BY <1>12 DEF Callees
  <2>2. ~ Computes(call) /\ ~ PassesOn(call) /\ call.op # "get"
    BY <1>6, <2>1 DEF Computes, PassesOn, IsCallOf, Calls, Runtime
  <2> QED
    BY <2>2 DEF Places, GivesReached
<1>24. LET G == After(code, Known, b, f.pc, F)
       IN  KeptHolds(G, shadow, x) /\ ReachedHolds(G, heap, shadow, x) /\ LiveHolds(G, heap, x)
  <2>1. call = b[f.pc]
    BY <1>10
  <2>2. /\ b[f.pc].op \in Producers /\ Places(F, b[f.pc]) = {} /\ ~ GivesReached(F, b[f.pc])
        /\ x.base = f.base /\ x.temps = Stored(f.temps, b[f.pc].dst, v)
    BY <1>9, <1>10, <1>14, <1>23, <2>1
  <2> QED
    BY <1>12, <1>22, <2>2, AfterHolds
<1>25. InnermostOK(code, x, heap, shadow)
  BY <1>9, <1>18, <1>24, Arrived
<1>26. x.fn \in Known.quiet => Frame.fn \in Known.quiet
  BY <1>6, <1>9, <1>10, <1>11, <1>12, RootedCode DEF Known
<1>27. StackSorted(code, Known, frames')
  BY <1>1, <1>3, <1>7, <1>9, <1>10, <1>13, <1>15, <1>17, ReturnedSorted
<1>28. StackRooted(code, Known, frames', heap, shadow)
  <2>1. /\ IsSeq(frames) /\ Len(frames) > 1 /\ x.fn = frames[Len(frames) - 1].fn
        /\ x.fn \in Known.quiet => frames[Len(frames)].fn \in Known.quiet
    BY <1>1, <1>3, <1>9, <1>10, <1>26
  <2>2. StackRooted(code, Known, Append(SubSeq(frames, 1, Len(frames) - 2), x), heap, shadow)
    BY <1>13, <1>25, <2>1, ReturnedRooted
  <2> QED
    BY <1>7, <1>10, <2>2
<1> QED
  BY <1>27, <1>28

\* And the program ends.
LEMMA MainRooted ==
  ASSUME LawfulOnes, RootedOnes, GInv, ReturnFromMain
  PROVE  HInv' /\ NInv' /\ RInv'
<1>1. /\ frames' = <<>> /\ exe' = exe /\ heap' = heap /\ shadow' = shadow
  BY DEF ReturnFromMain
<1>2. IInv'
  BY MainReturns DEF GInv
<1>3. shadow' = <<>>
  BY <1>1, <1>2 DEF IInv, Running
<1> QED
  BY <1>1, <1>3, EndingRooted

-----------------------------------------------------------------------------
(* The invariant, and what it says.                                        *)

LEMMA InitiallyGInv ==
  ASSUME LawfulOnes, RootedOnes, Init
  PROVE  GInv
<1>1. IInv /\ exe \in Executables /\ heap = <<>> /\ shadow = <<>>
  BY InitiallyIInv DEF Init
<1>2. DOMAIN heap = {} /\ DOMAIN shadow = {}
  BY <1>1
<1>3. RefsIn(shadow) = {} /\ LiveIn(heap) = {}
  BY <1>2 DEF RefsIn, LiveIn
<1>4. HInv
  BY <1>2, <1>3 DEF HInv, NothingDangles
<1>5. CASE ~ Tracked
  BY <1>1, <1>4, <1>5 DEF GInv, NInv, RInv
<1>6. CASE Tracked
  <2> DEFINE x == [fn |-> MainName, pc |-> 1, loaded |-> <<>>, base |-> 0, temps |-> NoTemps]
             E == Entry(Known, MainName)
  <2>1. frames = <<x>>
    BY <1>6 DEF Init, Tracked
  <2>2. IsLawful(code) /\ IsRooted(code)
    BY <1>1, <1>6 DEF LawfulOnes, RootedOnes, Tracked, code
  <2>3. MainName \in DOMAIN code.bodies /\ Inputs(code.bodies[MainName]) = {}
    BY <2>2 DEF IsLawful
  <2>4. x.fn = MainName /\ x.pc = 1 /\ x.loaded = <<>> /\ x.base = 0 /\ DOMAIN x.temps = {}
    BY DEF NoTemps
  <2> HIDE DEF x
  <2>5. Len(frames) = 1 /\ frames[1] = x /\ 1..Len(frames) - 1 = {} /\ 1..Len(frames) = {1}
    BY <2>1
  <2>6. Sorted(code, Known, x)
    BY <2>4 DEF Sorted
  <2>7. Took(At(code, x), x.loaded, x.temps)
    <3>1. Len(At(code, x).args) \in Nat
      <4>1. 1 \in 1..Len(code.bodies[MainName])
        BY <2>2, <2>3, AtTheStart
      <4> QED
        BY <2>2, <2>3, <2>4, <4>1, LawfulBody, Counted DEF At
    <3>2. Len(x.loaded) = 0
      BY <2>4, EmptySeq
    <3> QED
      BY <3>1, <3>2, NothingTook
  <2>8. StackSorted(code, Known, frames)
    BY <2>5, <2>6, <2>7 DEF StackSorted, CallsOf
  <2>9. Within(FactsOf(code, x), E)
    BY <2>2, <2>3, <2>4, RootedBody DEF FactsOf, Known
  <2>10. KeptHolds(E, shadow, x) /\ ReachedHolds(E, heap, shadow, x) /\ LiveHolds(E, heap, x)
    BY <2>4 DEF KeptHolds, ReachedHolds, LiveHolds
  <2>11. InnermostOK(code, x, heap, shadow)
    BY <2>4, <2>9, <2>10, Arrived
  <2>12. StackRooted(code, Known, frames, heap, shadow)
    BY <2>5, <2>11 DEF StackRooted
  <2>13. KindsOK(code, Known, heap)
    BY <1>2 DEF KindsOK
  <2> QED
    BY <1>1, <1>4, <2>8, <2>12, <2>13 DEF GInv, NInv, RInv
<1> QED
  BY <1>5, <1>6

\* A stuttering step.
LEMMA UnchangedGInv ==
  ASSUME GInv, UNCHANGED vars
  PROVE  GInv'
<1>1. exe' = exe /\ frames' = frames /\ heap' = heap /\ shadow' = shadow
  BY DEF vars
<1>2. IInv'
  BY UnchangedIInv DEF GInv
<1>3. HInv' /\ NInv' /\ RInv'
  BY <1>1 DEF GInv, HInv, NInv, RInv, Tracked, Known, code
<1> QED
  BY <1>2, <1>3 DEF GInv

\* Each action of the program preserves the invariant.
LEMMA NextPreservesGInv ==
  ASSUME LawfulOnes, RootedOnes, GInv, Next
  PROVE  GInv'
<1>1. IInv'
  BY NextPreservesIInv DEF GInv
<1>2. HInv' /\ NInv' /\ RInv'
  <2>1. CASE LoadString \/ LoadOperand \/ AllocateNew \/ ConcatCoerce
    BY <2>1, LiteralRooted, OperandRooted, ObjectRooted, CoercionRooted
  <2>2. CASE DoCopy \/ DoBinOp \/ DoUnOp \/ DoGetField \/ DoSetField
    BY <2>2, CopyRooted, BinaryRooted, UnaryRooted, FieldRooted, FieldSetRooted
  <2>3. CASE DoLabel \/ DoJump \/ DoJumpIf \/ DoShadowPush \/ DoShadowPop
    BY <2>3, ControlRooted, PushRooted, PopRooted
  <2>4. CASE Concat \/ ConcatCopy \/ NumberToString \/ RangeNew \/ DoPrint
    BY <2>4, ConcatRooted, CopiedRooted, ConversionRooted, RangeRooted, PrintRooted
  <2>5. CASE StringEq \/ TypeTest \/ Downcast
    BY <2>5, PrintRooted, DowncastRooted
  <2>6. CASE VectorNew \/ ObjArrayNew \/ VectorPush \/ DoGetIndex \/ DoSetIndex
    BY <2>6, VectorRooted, ObjectArrayRooted, GrowthRooted, ElementRooted, ElementSetRooted
  <2>7. CASE CallFunction \/ CallStatic \/ CallMethod \/ CallInit
    BY <2>7, FunctionRooted, MethodRooted
  <2>8. CASE RangeNext \/ RangeCurrent \/ VectorNext \/ VectorCurrent \/ VectorSize
    BY <2>8, PositionRooted, CurrentRooted
  <2>9. CASE DoReturn \/ ReturnFromMain
    BY <2>9, ReturnRooted, MainRooted
  <2>10. CASE Terminated
    BY <2>10, UnchangedGInv DEF Terminated, GInv
  <2> QED
    BY <2>1, <2>2, <2>3, <2>4, <2>5, <2>6, <2>7, <2>8, <2>9, <2>10 DEF Next
<1> QED
  BY <1>1, <1>2 DEF GInv

\* However long rooted code runs and wherever collections start, what is known
\* of its temporaries by its text is true of those of every call under way.
THEOREM RootsHold ==
  ASSUME LawfulOnes, RootedOnes
  PROVE  Spec => []GInv
<1>1. Init => GInv
  BY InitiallyGInv
<1>2. GInv /\ [Next]_vars => GInv'
  BY NextPreservesGInv, UnchangedGInv
<1> QED
  BY <1>1, <1>2, PTL DEF Spec

\* What the instruction under way dereferences has not been freed.
LEMMA TouchedLives ==
  ASSUME LawfulOnes, RootedOnes, GInv, Running, NextIndex > Operands, NEW v \in Touched
  PROVE  Lives(heap, v)
<1>1. /\ HasShape(Instr) /\ FrameOK(code, Frame, heap) /\ Instr = At(code, Frame) /\ IInv
      /\ IsSeq(Loaded) /\ Len(Loaded) \in Nat /\ DOMAIN Loaded = 1..Len(Loaded)
  BY UnderWay, LoadedSoFar, SequenceHas DEF GInv
<1>2. PICK n \in Nat : n = Len(Instr.args)
  BY <1>1, Counted
<1>3. \/ /\ \/ Instr.op \in {"get", "set", "method", "getindex", "setindex"}
            \/ IsCallOf(Instr, {"__hulk_is", "__hulk_as", "__vec_push"})
         /\ v = Loaded[1]
      \/ IsCallOf(Instr, {"__hulk_concat", "__hulk_str_eq", "print"}) /\ v \in Range(Loaded)
  BY DEF Touched, IsCallOf
<1>4. CASE /\ \/ Instr.op \in {"get", "set", "method", "getindex", "setindex"}
              \/ IsCallOf(Instr, {"__hulk_is", "__hulk_as", "__vec_push"})
           /\ v = Loaded[1]
  <2>1. Instr.op \notin {"new", "return"}
    BY <1>4 DEF IsCallOf
  <2>2. Len(Loaded) + 1 > n
    BY <1>2, <2>1 DEF NextIndex, Operands
  <2>3. n = 1 \/ n = 2 \/ n = 3 \/ n >= 1
    BY <1>1, <1>2, <1>4, Counted DEF IsCallOf
  <2>4. 1 \in 1..Len(Loaded) /\ 1 \in 1..Len(Instr.args)
    <3>1. PICK m \in Nat : m = Len(Loaded)
      BY <1>1
    <3>2. m + 1 > n /\ 1 <= n
      BY <2>2, <2>3, <3>1
    <3>3. 1 <= m
      BY <3>2
    <3> QED
      BY <1>2, <3>1, <3>2, <3>3
  <2>5. 1 \in Needs(Frame.fn, Instr)
    BY <1>4, <2>4 DEF Needs, IsCallOf
  <2> QED
    BY <1>4, <2>4, <2>5, NeededOperand
<1>5. CASE IsCallOf(Instr, {"__hulk_concat", "__hulk_str_eq", "print"}) /\ v \in Range(Loaded)
  <2>1. PICK a \in 1..Len(Loaded) : v = Loaded[a]
    BY <1>1, <1>5 DEF Range
  <2>2. ~ IsTypeTest(Instr) /\ Instr.op # "new" /\ Where(Instr, a) = a
    BY <1>5 DEF IsTypeTest, IsCallOf, Where
  <2>3. Slot(v, Len(heap))
    BY <1>1, <2>1, <2>2 DEF FrameOK, Loads, Loaded
  <2>4. CASE ~ Tracked
    <3>1. LiveIn(heap) = 1..Len(heap)
      BY <1>1, <2>4, HeapNow DEF Tracked, GInv, HInv, IInv
    <3> QED
      BY <2>3, <3>1 DEF Lives, Slot
  <2>5. CASE Tracked
    <3>1. /\ Took(Instr, Loaded, Frame.temps) /\ InnermostOK(code, Frame, heap, shadow)
          /\ UsesSafely(code, Known, Frame.fn, FactsOf(code, Frame), Instr)
      BY <2>5, HereIsKnown
    <3>2. CASE IsCallOf(Instr, {"__hulk_str_eq", "print"})
      <4>1. Len(Loaded) <= n + 0
        BY <1>2, <3>1, <3>2 DEF Took, IsCallOf
      <4>2. a \in 1..Len(Instr.args)
        BY <1>1, <1>2, <4>1
      <4>3. a \in Needs(Frame.fn, Instr)
        BY <3>2, <4>2 DEF Needs, IsCallOf
      <4> QED
        BY <2>1, <4>3, NeededOperand
    <3>3. CASE IsCallOf(Instr, {"__hulk_concat"})
      <4>1. Len(Loaded) <= 3 /\ Len(Instr.args) = 2
        <5>1. Len(Instr.args) = 2
          BY <1>1, <3>3, Counted DEF IsCallOf
        <5>2. Len(Loaded) <= 2 + 1
          BY <3>1, <3>3, <5>1 DEF Took
        <5> QED
          BY <5>1, <5>2
      <4>2. CASE a = 3
        <5>1. Len(Loaded) = 3
          BY <1>1, <4>1, <4>2
        <5> QED
          BY <1>1, <2>1, <3>1, <3>3, <4>2, <5>1 DEF InnermostOK, Loaded
      <4>3. CASE a # 3
        <5>1. a \in 1..2 /\ a \in 1..Len(Instr.args)
          BY <1>1, <4>1, <4>3
        <5>2. IsReached(FactsOf(code, Frame), Instr.args[a])
          BY <3>1, <3>3, <5>1 DEF UsesSafely
        <5> QED
          BY <2>1, <2>2, <2>5, <5>1, <5>2, ReachedOperand
      <4> QED
        BY <4>2, <4>3
    <3> QED
      BY <1>5, <3>2, <3>3 DEF IsCallOf
  <2> QED
    BY <2>4, <2>5
<1> QED
  BY <1>3, <1>4, <1>5

\* A source that was rejected runs nothing.
StartedInv == code.ok \/ (frames = <<>> /\ heap = <<>>)

\* Nor does anything but a program that runs change.
LEMMA OnlyRunning ==
  ASSUME Next
  PROVE  exe' = exe /\ (Running \/ UNCHANGED vars)
<1>1. CASE LoadString \/ LoadOperand \/ AllocateNew \/ ConcatCoerce
  BY <1>1 DEF LoadString, LoadOperand, AllocateNew, ConcatCoerce, LoadingOperand, CoercionDue
<1>2. CASE DoCopy \/ DoBinOp \/ DoUnOp \/ DoGetField \/ DoSetField
  BY <1>2 DEF DoCopy, DoBinOp, DoUnOp, DoGetField, DoSetField, Executing
<1>3. CASE DoLabel \/ DoJump \/ DoJumpIf \/ DoShadowPush \/ DoShadowPop
  BY <1>3 DEF DoLabel, DoJump, DoJumpIf, DoShadowPush, DoShadowPop, Executing
<1>4. CASE Concat \/ ConcatCopy \/ NumberToString \/ RangeNew \/ DoPrint
  BY <1>4 DEF Concat, ConcatCopy, NumberToString, RangeNew, DoPrint, Executing
<1>5. CASE StringEq \/ TypeTest \/ Downcast
  BY <1>5 DEF StringEq, TypeTest, Downcast, Executing
<1>6. CASE VectorNew \/ ObjArrayNew \/ VectorPush \/ DoGetIndex \/ DoSetIndex
  BY <1>6 DEF VectorNew, ObjArrayNew, VectorPush, DoGetIndex, DoSetIndex, Executing
<1>7. CASE CallFunction \/ CallStatic \/ CallMethod \/ CallInit
  BY <1>7 DEF CallFunction, CallStatic, CallMethod, CallInit, Enters, ExecutingOn, Executing
<1>8. CASE RangeNext \/ RangeCurrent \/ VectorNext \/ VectorCurrent \/ VectorSize
  BY <1>8 DEF RangeNext, RangeCurrent, VectorNext, VectorCurrent, VectorSize, ExecutingOn, Executing
<1>9. CASE DoReturn \/ ReturnFromMain
  BY <1>9 DEF DoReturn, ReturnFromMain, Executing
<1>10. CASE Terminated
  BY <1>10 DEF Terminated, vars
<1> QED
  BY <1>1, <1>2, <1>3, <1>4, <1>5, <1>6, <1>7, <1>8, <1>9, <1>10 DEF Next

\* So it runs nothing later either.
LEMMA StartedStays ==
  ASSUME StartedInv, [Next]_vars
  PROVE  StartedInv'
<1>1. exe' = exe /\ (Running \/ UNCHANGED vars)
  BY OnlyRunning DEF vars
<1> QED
  BY <1>1 DEF StartedInv, code, Running, vars

\* Generated code never follows a reference to an object the collector has
\* freed, and leaves none, nor a number, where mark would follow it, whatever
\* the program, however long it runs and wherever its allocations collect, if
\* its text has its references where a collection finds them, and its types'
\* tags name the words they are in (Rooting; lowerer.rs emit_let, emit_mem.rs
\* emit_new and build_type_tag, gc.c mark).
THEOREM FreedIsNeverFollowed ==
  ASSUME LawfulOnes, RootedOnes
  PROVE  Spec => []NoDanglingAccess
<1>2. GInv /\ StartedInv => NoDanglingAccess
  <2> SUFFICES ASSUME GInv, StartedInv PROVE NoDanglingAccess
    OBVIOUS
  <2>1. \A v : Lives(heap, v) => IsLive(v)
    BY DEF Lives, LiveIn, IsLive
  <2>2. Running /\ ~ CoercionDue /\ NextIndex > Operands => \A v \in Touched : IsLive(v)
    BY <2>1, TouchedLives
  <2>3. NothingDangles(heap, shadow)
    BY DEF GInv, HInv
  <2>4. \A i \in DOMAIN shadow : IsLive(shadow[i])
    BY <2>3 DEF NothingDangles, RefsIn, LiveIn, IsLive
  <2>5. ASSUME NEW o \in LiveSet, NEW f \in DOMAIN TracedIn(heap[o])
        PROVE  /\ IsLive(TracedIn(heap[o])[f])
               /\ ~ (exe.collects /\ TracedIn(heap[o])[f].k = "num")
    <3>1. /\ f \in Traced(code, heap[o].tag) /\ f \in DOMAIN heap[o].words
          /\ TracedIn(heap[o])[f] = heap[o].words[f]
      BY DEF TracedIn
    <3>2. IsLive(heap[o].words[f])
      BY <2>3, <3>1 DEF NothingDangles, RefsIn, LiveIn, LiveSet, IsLive
    <3>3. ASSUME exe.collects PROVE heap[o].words[f].k # "num"
      <4>1. o \in DOMAIN heap /\ Tracked
        <5>1. o \in DOMAIN heap
          BY DEF LiveSet
        <5>2. heap # <<>>
          BY <5>1
        <5> QED
          BY <3>3, <5>1, <5>2 DEF StartedInv, Tracked
      <4>2. KindOK(code, Known, heap[o]) /\ TagsAreExact(code, Known.held)
        BY <4>1 DEF GInv, IInv, NInv, KindsOK, RootedOnes, Tracked, IsRooted, Known, code
      <4>3. heap[o].tag \in DOMAIN code.types
        BY <3>1 DEF Traced
      <4>4. f \in FieldsOf(code, heap[o].tag) /\ f \notin Known.held["num"].fields
        BY <3>1, <4>2, <4>3 DEF KindOK, TagsAreExact
      <4> QED
        BY <3>1, <4>2, <4>3, <4>4 DEF KindOK, Sorts
    <3> QED
      BY <3>1, <3>2, <3>3
  <2> QED
    BY <2>2, <2>4, <2>5 DEF NoDanglingAccess
<1>3. Init => StartedInv
  BY DEF Init, StartedInv
<1>4. StartedInv /\ [Next]_vars => StartedInv'
  BY StartedStays
<1> QED
  BY <1>2, <1>3, <1>4, RootsHold, PTL DEF Spec
=============================================================================
