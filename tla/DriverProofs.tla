---------------------------- MODULE DriverProofs ----------------------------
(***************************************************************************)
(* Proofs about Driver, for any compilers, any command lines and any       *)
(* sources: what a process knows of its source in each phase, what the     *)
(* files are made from, and, when one compilation follows the other, that  *)
(* each leaves the program of its own source.                              *)
(***************************************************************************)
EXTENDS Driver, TLAPS

Phases ==
  {"read", "lex", "parse", "resolve", "expand", "lower", "generate", "text",
   "object", "write", "link", "run", "succeeded", "failed", "exited", Idle, Killed}

Contents ==
  [kind : Texts \cup {"partial", "object", "executable"},
   of   : {j.source.name : j \in Jobs}]

\* The types of the variables.
Typed ==
  /\ pc \in [Compilers -> Phases]
  /\ job \in [Compilers -> Jobs]
  /\ bag \in [Compilers -> SUBSET Kinds]
  /\ exit \in [Compilers -> Nat]
  /\ \A p \in DOMAIN files : files[p] \in Contents
  /\ started \in 0..MaxJobs

-----------------------------------------------------------------------------
(* What a process in a phase has found out of its source.                  *)

Sound(j) == j.source.readable /\ j.source.errors = {}

\* A text that may be written: of what the source got through.
GotThrough(j) ==
  CASE j.emit \in {"tokens", "ast"} -> TRUE
    [] j.emit = "hir"               -> j.source.errors \subseteq {"macro"}
    [] OTHER                        -> j.source.errors = {}

\* The texts a compilation that is in a phase has not been asked for.
TextsBefore(ph) ==
  CASE ph = "parse"    -> {"tokens"}
    [] ph = "resolve"  -> {"tokens", "ast"}
    [] ph \in {"expand", "lower"} -> {"tokens", "ast", "hir"}
    [] ph = "generate" -> Texts \ {"llvm-ir"}
    [] ph \in {"object", "write", "link", "run"} -> Texts
    [] OTHER           -> {}

\* Before the first gate the bag is what the source has of the errors the
\* phases so far look for; behind a gate the source has none of them.
OnTheWay(ph, j, b) ==
  /\ ph \in {"read", "lex"}  => b = {}
  /\ ph \in {"lex", "parse", "resolve"} => j.source.readable
  /\ ph = "parse"            => b = {"lexical"} \cap j.source.errors
  /\ ph = "resolve"          => b = {"lexical", "syntactic"} \cap j.source.errors
  /\ ph = "expand"           => /\ b = {} /\ j.source.readable
                                /\ j.source.errors \subseteq {"macro"}
  /\ ph \in {"lower", "generate", "object", "write", "link", "run"} => Sound(j)
  /\ j.tool = "compile"      => j.emit \notin TextsBefore(ph)
  /\ ph \in {"object", "write", "link", "run", "generate", "lower", "expand"} =>
       j.tool # "check"
  /\ ph = "run"              => j.tool = "run"
  /\ ph = "text"             => /\ j.tool = "compile" /\ j.emit \in Texts
                                /\ GotThrough(j)

\* A hulk process tells in the end what the source has.
AtTheEnd(ph, j, b, x) ==
  /\ ph = "succeeded" /\ j.tool = "hulk" => Sound(j)
  /\ ph = "failed"    => b # {}
  /\ ph = "failed" /\ j.tool = "hulk" =>
       /\ "lexical" \in b <=> j.source.readable /\ "lexical" \in j.source.errors
       /\ "lexical" \notin b =>
            ("syntactic" \in b <=> j.source.readable /\ "syntactic" \in j.source.errors)
  /\ ph = "exited"    <=> x # NoCode
  /\ ph = "exited" /\ j.tool = "hulk" =>
       /\ x = 1 <=> j.source.readable /\ "lexical" \in j.source.errors
       /\ x = 2 <=> /\ j.source.readable /\ "syntactic" \in j.source.errors
                    /\ "lexical" \notin j.source.errors
       /\ x = 0 => Sound(j)

Knows(c) ==
  /\ OnTheWay(pc[c], job[c], bag[c])
  /\ AtTheEnd(pc[c], job[c], bag[c], exit[c])

\* The object file is there when it is written to or linked.
ObjectThere == \A c \in Compilers : pc[c] \in {"write", "link"} => ObjectPath \in DOMAIN files

\* The inductive invariant, however many compilers are at work at once.
IInv == Typed /\ (\A c \in Compilers : Knows(c)) /\ OnlySoundSourcesGetCode /\ ObjectThere

-----------------------------------------------------------------------------
(* With one compiler at a time.                                            *)

AtMostOneAtWork ==
  \A c, d \in Compilers : pc[c] \notin Ended /\ pc[d] \notin Ended => c = d

\* What is linked is the object file the process has just written.
OwnObject ==
  \A c \in Compilers :
    /\ pc[c] = "write" => files[ObjectPath] = File("partial", job[c])
    /\ pc[c] = "link"  => files[ObjectPath] = File("object", job[c])

SequentialInv == IInv /\ AtMostOneAtWork /\ OwnObject /\ OutputIsOfItsSource

-----------------------------------------------------------------------------
(* The types.                                                              *)

\* The steps of one process.
Acts(c) == Start(c) \/ Step(c) \/ Kill(c)

\* A process moves to a phase, and nothing else than its own component of pc
\* changes.
LEMMA GoToMoves ==
  ASSUME Typed, NEW c \in Compilers, NEW ph \in Phases, GoTo(c, ph)
  PROVE  /\ pc' \in [Compilers -> Phases]
         /\ pc'[c] = ph
         /\ \A d \in Compilers \ {c} : pc'[d] = pc[d]
BY DEF Typed, GoTo

\* A file that is written is there, the others stay as they are.
LEMMA PutWrites ==
  ASSUME NEW path, NEW content, Put(path, content)
  PROVE  /\ DOMAIN files' = DOMAIN files \cup {path}
         /\ files'[path] = content
         /\ \A p \in DOMAIN files : p # path => files'[p] = files[p]
BY DEF Put

\* Files with proper contents stay such when one is written.
LEMMA PutTyped ==
  ASSUME Typed, NEW path, NEW content \in Contents, Put(path, content)
  PROVE  \A p \in DOMAIN files' : files'[p] \in Contents
<1>1. PICK new : new = files'
  OBVIOUS
<1>2. /\ DOMAIN new = DOMAIN files \cup {path}
      /\ new[path] = content
      /\ \A p \in DOMAIN files : p # path => new[p] = files[p]
  BY <1>1, PutWrites
<1>3. \A p \in DOMAIN files : files[p] \in Contents
  BY DEF Typed
<1> QED
  BY <1>1, <1>2, <1>3

\* What a job's files hold.
LEMMA FileTyped ==
  ASSUME NEW j \in Jobs, NEW k \in Texts \cup {"partial", "object", "executable"}
  PROVE  File(k, j) \in Contents
BY DEF File, Contents

\* The linker makes an executable of an object, from the same source.
LEMMA LinkedTyped ==
  ASSUME NEW f \in Contents
  PROVE  /\ [f EXCEPT !.kind = "executable"] \in Contents
         /\ [f EXCEPT !.kind = "executable"].kind = "executable"
         /\ [f EXCEPT !.kind = "executable"].of = f.of
BY DEF Contents

\* The variables keep their types.
LEMMA TypedStep == ASSUME IInv, NEW c \in Compilers, Acts(c) PROVE Typed'
<1> USE DEF IInv
<1>1. CASE Start(c)
  <2>1. PICK j \in Jobs : job' = [job EXCEPT ![c] = j]
    BY <1>1 DEF Start
  <2>2. pc' \in [Compilers -> Phases]
    BY <1>1, GoToMoves DEF Start, Phases
  <2>3. started' \in 0..MaxJobs
    BY <1>1, JobsAssumption DEF Start, Typed
  <2> QED
    BY <1>1, <2>1, <2>2, <2>3 DEF Start, Typed, NoCode
<1>2. CASE Read(c)
  BY <1>2 DEF Read, Typed, GoTo, FailWith, Phases, Kinds
<1>3. CASE Lex(c)
  BY <1>3 DEF Lex, Typed, GoTo, Report, Found, Phases, Kinds
<1>4. CASE Parse(c)
  BY <1>4 DEF Parse, Typed, GoTo, Report, Found, Phases, Kinds
<1>5. CASE BuildHir(c)
  <2>1. bag' \in [Compilers -> SUBSET Kinds]
    BY <1>5 DEF BuildHir, Report, Found, Typed, Kinds
  <2>2. pc' \in [Compilers -> Phases]
    BY <1>5 DEF BuildHir, GoTo, Typed, Phases
  <2> QED
    BY <1>5, <2>1, <2>2 DEF BuildHir, Typed
<1>6. CASE RunMiddleend(c)
  <2>1. bag' \in [Compilers -> SUBSET Kinds]
    BY <1>6 DEF RunMiddleend, Report, Found, Typed, Kinds
  <2>2. pc' \in [Compilers -> Phases]
    BY <1>6 DEF RunMiddleend, GoTo, Typed, Phases
  <2> QED
    BY <1>6, <2>1, <2>2 DEF RunMiddleend, Typed
<1>7. CASE Generate(c)
  <2>1. \/ FailWith(c, "semantic")
        \/ GoTo(c, "text") /\ UNCHANGED bag
        \/ GoTo(c, "object") /\ UNCHANGED bag
    BY <1>7 DEF Generate
  <2>2. bag' \in [Compilers -> SUBSET Kinds] /\ pc' \in [Compilers -> Phases]
    BY <2>1 DEF FailWith, GoTo, Typed, Phases, Kinds
  <2> QED
    BY <1>7, <2>2 DEF Generate, Typed
<1>8. CASE WriteText(c)
  <2>1. job[c] \in Jobs /\ job[c].emit \in Texts
    BY <1>8 DEF WriteText, At, Typed, Knows, OnTheWay
  <2>2. File(job[c].emit, job[c]) \in Contents
    BY <2>1, FileTyped
  <2>3. \A p \in DOMAIN files' : files'[p] \in Contents
    BY <1>8, <2>2, PutTyped DEF WriteText
  <2> QED
    BY <1>8, <2>3 DEF WriteText, GoTo, Typed, Phases
<1>9. CASE OpenObject(c)
  <2>1. File("partial", job[c]) \in Contents
    BY FileTyped DEF Typed
  <2>2. \A p \in DOMAIN files' : files'[p] \in Contents
    BY <1>9, <2>1, PutTyped DEF OpenObject
  <2> QED
    BY <1>9, <2>2 DEF OpenObject, GoTo, Typed, Phases
<1>10. CASE WriteObject(c)
  <2>1. File("object", job[c]) \in Contents
    BY FileTyped DEF Typed
  <2>2. \A p \in DOMAIN files' : files'[p] \in Contents
    BY <1>10, <2>1, PutTyped DEF WriteObject
  <2> QED
    BY <1>10, <2>2 DEF WriteObject, GoTo, Typed, Phases
<1>11. CASE Link(c)
  <2>1. files[ObjectPath] \in Contents
    BY <1>11 DEF Link, At, ObjectThere, Typed
  <2>2. [files[ObjectPath] EXCEPT !.kind = "executable"] \in Contents
    BY <2>1, LinkedTyped
  <2>3. \A p \in DOMAIN files' : files'[p] \in Contents
    <3>1. CASE Put(OutputPath(job[c]), [files[ObjectPath] EXCEPT !.kind = "executable"])
      BY <2>2, <3>1, PutTyped
    <3>2. CASE UNCHANGED files
      BY <3>2 DEF Typed
    <3> QED
      BY <1>11, <3>1, <3>2 DEF Link
  <2>4. bag' \in [Compilers -> SUBSET Kinds] /\ pc' \in [Compilers -> Phases]
    BY <1>11 DEF Link, FailWith, GoTo, Typed, Phases, Kinds
  <2> QED
    BY <1>11, <2>3, <2>4 DEF Link, Typed
<1>12. CASE WriteFails(c)
  BY <1>12 DEF WriteFails, FailWith, Typed, GoTo, Phases, Kinds
<1>13. CASE Run(c)
  <2>1. PICK status \in 0..1 : Exits(c, status)
    BY <1>13 DEF Run
  <2> QED
    BY <2>1 DEF Exits, Typed, GoTo, Phases
<1>14. CASE Succeed(c)
  BY <1>14 DEF Succeed, Exits, Typed, GoTo, Phases
<1>15. CASE Fail(c)
  <2>1. PICK code \in Nat : Exits(c, code)
    BY <1>15 DEF Fail, ExitCode
  <2> QED
    BY <2>1 DEF Exits, Typed, GoTo, Phases
<1>16. CASE Kill(c)
  BY <1>16 DEF Kill, Typed, GoTo, Phases
<1>17. CASE OverflowStack(c) \/ Lower(c)
  BY <1>17 DEF OverflowStack, Lower, Typed, GoTo, Phases, Killed
<1>18. CASE PanicInLowering(c)
  <2>1. Exits(c, PanicCode) /\ PanicCode \in Nat
    BY <1>18 DEF PanicInLowering, PanicCode
  <2> QED
    BY <2>1 DEF Exits, Typed, GoTo, Phases
<1> QED
  BY <1>1, <1>2, <1>3, <1>4, <1>5, <1>6, <1>7, <1>8, <1>9, <1>10, <1>11,
     <1>12, <1>13, <1>14, <1>15, <1>16, <1>17, <1>18 DEF Acts, Step

-----------------------------------------------------------------------------
(* What the processes know.                                                *)

\* A step of one process leaves the others as they are.
LEMMA OthersKept ==
  ASSUME Typed, NEW c \in Compilers, Acts(c), NEW d \in Compilers \ {c}
  PROVE  pc'[d] = pc[d] /\ job'[d] = job[d] /\ bag'[d] = bag[d] /\ exit'[d] = exit[d]
<1> USE DEF Typed, GoTo
<1>1. CASE Start(c)
  BY <1>1 DEF Start
<1>2. CASE Read(c) \/ WriteFails(c)
  BY <1>2 DEF Read, WriteFails, FailWith
<1>3. CASE Lex(c) \/ Parse(c)
  BY <1>3 DEF Lex, Parse, Report
<1>4. CASE BuildHir(c) \/ RunMiddleend(c)
  BY <1>4 DEF BuildHir, RunMiddleend, Report
<1>5. CASE Generate(c)
  <2>1. \/ FailWith(c, "semantic")
        \/ GoTo(c, "text") /\ UNCHANGED bag
        \/ GoTo(c, "object") /\ UNCHANGED bag
    BY <1>5 DEF Generate
  <2> QED
    BY <1>5, <2>1 DEF Generate, FailWith
<1>6. CASE WriteText(c) \/ OpenObject(c) \/ WriteObject(c)
  BY <1>6 DEF WriteText, OpenObject, WriteObject
<1>7. CASE Link(c)
  <2>1. \/ GoTo(c, "run") /\ UNCHANGED bag
        \/ GoTo(c, "succeeded") /\ UNCHANGED bag
        \/ FailWith(c, "semantic")
    BY <1>7 DEF Link
  <2> QED
    BY <1>7, <2>1 DEF Link, FailWith
<1>8. CASE Run(c) \/ Succeed(c) \/ PanicInLowering(c) \/ Fail(c)
  <2>1. PICK code : Exits(c, code)
    BY <1>8 DEF Run, Succeed, PanicInLowering, Fail
  <2> QED
    BY <2>1 DEF Exits
<1>9. CASE Kill(c) \/ OverflowStack(c) \/ Lower(c)
  BY <1>9 DEF Kill, OverflowStack, Lower
<1> QED
  BY <1>1, <1>2, <1>3, <1>4, <1>5, <1>6, <1>7, <1>8, <1>9 DEF Acts, Step

\* A process that starts knows nothing yet.
LEMMA StartKnows == ASSUME IInv, NEW c \in Compilers, Start(c) PROVE Knows(c)'
<1>1. pc'[c] = "read" /\ bag'[c] = {} /\ exit'[c] = NoCode
  BY DEF Start, GoTo, IInv, Typed
<1> QED
  BY <1>1 DEF Knows, OnTheWay, AtTheEnd, TextsBefore

\* A phase that has a single error of its own to report fails the compilation
\* of a source that has no error the exit code should have named before.
LEMMA FailWithKnows ==
  ASSUME IInv, NEW c \in Compilers, FailWith(c, "semantic"), job'[c] = job[c], exit'[c] = exit[c],
         pc[c] \notin {"exited"},
         \/ job[c].tool # "hulk"
         \/ ~ job[c].source.readable
         \/ job[c].source.errors \cap {"lexical", "syntactic"} = {}
  PROVE  Knows(c)'
<1>1. pc'[c] = "failed" /\ bag'[c] = {"semantic"}
  BY DEF FailWith, GoTo, IInv, Typed
<1>2. exit'[c] = NoCode
  BY DEF IInv, Typed, Knows, AtTheEnd, TextsBefore
<1> QED
  BY <1>1, <1>2 DEF Knows, OnTheWay, AtTheEnd, TextsBefore

\* The front end, up to the first gate.
LEMMA FrontEndKnows ==
  ASSUME IInv, NEW c \in Compilers, Read(c) \/ Lex(c) \/ Parse(c) \/ BuildHir(c)
  PROVE  Knows(c)'
<1> DEFINE j == job[c]
<1>1. /\ j \in Jobs /\ job'[c] = j /\ exit'[c] = NoCode /\ exit[c] = NoCode
      /\ bag[c] \subseteq Kinds
  BY DEF IInv, Typed, Knows, AtTheEnd, Read, Lex, Parse, BuildHir, At
<1>2. j.source.errors \subseteq Kinds \cup {"macro"}
  BY <1>1, JobsAssumption
<1>3. CASE Read(c)
  <2>1. CASE j.source.readable
    <3>1. pc'[c] = "lex" /\ bag'[c] = {}
      BY <1>3, <2>1 DEF Read, At, GoTo, IInv, Typed, Knows, OnTheWay
    <3> QED
      BY <1>1, <2>1, <3>1 DEF Knows, OnTheWay, AtTheEnd, TextsBefore
  <2>2. CASE ~ j.source.readable
    BY <1>1, <1>3, <2>2, FailWithKnows DEF Read, At
  <2> QED
    BY <2>1, <2>2
<1>4. CASE Lex(c)
  <2>1. bag'[c] = {"lexical"} \cap j.source.errors /\ j.source.readable
    BY <1>4 DEF Lex, At, Report, Found, IInv, Typed, Knows, OnTheWay
  <2>2. \/ pc'[c] = "parse" /\ (j.tool = "compile" => j.emit # "tokens")
        \/ pc'[c] = "text" /\ j.tool = "compile" /\ j.emit = "tokens"
    BY <1>4 DEF Lex, GoTo, IInv, Typed, Emits
  <2> QED
    BY <1>1, <2>1, <2>2 DEF Knows, OnTheWay, AtTheEnd, Texts, GotThrough, TextsBefore
<1>5. CASE Parse(c)
  <2>1. bag'[c] = {"lexical", "syntactic"} \cap j.source.errors /\ j.source.readable
    BY <1>5 DEF Parse, At, Report, Found, IInv, Typed, Knows, OnTheWay
  <2>2. \/ pc'[c] = "resolve" /\ (j.tool = "compile" => j.emit # "ast")
        \/ pc'[c] = "text" /\ j.tool = "compile" /\ j.emit = "ast"
    BY <1>5 DEF Parse, GoTo, IInv, Typed, Emits
  <2>3. j.tool = "compile" => j.emit # "tokens"
    BY <1>5 DEF Parse, At, IInv, Knows, OnTheWay, TextsBefore
  <2> QED
    BY <1>1, <2>1, <2>2, <2>3 DEF Knows, OnTheWay, AtTheEnd, Texts, GotThrough, TextsBefore
<1>6. CASE BuildHir(c)
  <2>1. bag'[c] = Kinds \cap j.source.errors /\ j.source.readable
    BY <1>6 DEF BuildHir, At, Report, Found, IInv, Typed, Knows, OnTheWay, Kinds
  <2>2. CASE bag'[c] # {}
    <3>1. pc'[c] = "failed"
      BY <1>6, <2>2 DEF BuildHir, GoTo, IInv, Typed
    <3> QED
      BY <1>1, <2>1, <2>2, <3>1 DEF Knows, OnTheWay, AtTheEnd, Kinds, TextsBefore
  <2>3. CASE bag'[c] = {}
    <3>1. j.source.errors \subseteq {"macro"}
      BY <1>2, <2>1, <2>3
    <3>2. \/ pc'[c] = "succeeded" /\ j.tool = "check"
          \/ pc'[c] = "text" /\ j.tool = "compile" /\ j.emit = "hir"
          \/ /\ pc'[c] = "expand" /\ j.tool # "check"
             /\ j.tool = "compile" => j.emit # "hir"
      BY <1>6, <2>3 DEF BuildHir, GoTo, IInv, Typed, Emits
    <3>3. j.tool = "compile" => j.emit \notin {"tokens", "ast"}
      BY <1>6 DEF BuildHir, At, IInv, Knows, OnTheWay, TextsBefore
    <3> QED
      BY <1>1, <2>1, <2>3, <3>1, <3>2, <3>3 DEF Knows, OnTheWay, AtTheEnd, Texts, GotThrough, TextsBefore
  <2> QED
    BY <2>2, <2>3
<1> QED
  BY <1>3, <1>4, <1>5, <1>6

\* Macro expansion, the second gate, lowering and the generation of code.
LEMMA MiddleEndKnows ==
  ASSUME IInv, NEW c \in Compilers,
         RunMiddleend(c) \/ OverflowStack(c) \/ Lower(c) \/ Generate(c)
  PROVE  Knows(c)'
<1> DEFINE j == job[c]
<1>1. /\ j \in Jobs /\ job'[c] = j /\ exit'[c] = NoCode /\ exit[c] = NoCode
  BY DEF IInv, Typed, Knows, AtTheEnd, RunMiddleend, OverflowStack, Lower, Generate, At
<1>2. j.emit \in Texts \cup {"object", "executable"}
  BY <1>1, JobsAssumption
<1>3. CASE RunMiddleend(c)
  <2>1. j.source.errors \subseteq {"macro"} /\ j.source.readable /\ j.tool # "check"
    BY <1>3 DEF RunMiddleend, At, IInv, Knows, OnTheWay
  <2>2. bag'[c] = IF "macro" \in j.source.errors THEN {"semantic"} ELSE {}
    BY <1>3 DEF RunMiddleend, At, Report, IInv, Typed, Knows, OnTheWay
  <2>3. CASE "macro" \in j.source.errors
    <3>1. pc'[c] = "failed"
      BY <1>3, <2>2, <2>3 DEF RunMiddleend, GoTo, IInv, Typed
    <3> QED
      BY <1>1, <2>1, <2>2, <2>3, <3>1 DEF Knows, OnTheWay, AtTheEnd, TextsBefore
  <2>4. CASE "macro" \notin j.source.errors
    <3>1. pc'[c] = "lower"
      BY <1>3, <2>2, <2>4 DEF RunMiddleend, GoTo, IInv, Typed
    <3>2. j.source.errors = {}
      BY <2>1, <2>4
    <3>3. j.tool = "compile" => j.emit \notin {"tokens", "ast", "hir"}
      BY <1>3 DEF RunMiddleend, At, IInv, Knows, OnTheWay, TextsBefore
    <3> QED
      BY <1>1, <2>1, <2>2, <2>4, <3>1, <3>2, <3>3
      DEF Knows, OnTheWay, AtTheEnd, Sound, TextsBefore
  <2> QED
    BY <2>3, <2>4
<1>5. CASE OverflowStack(c)
  <2>1. pc'[c] = Killed
    BY <1>5 DEF OverflowStack, GoTo, IInv, Typed
  <2> QED
    BY <1>1, <2>1 DEF Knows, OnTheWay, AtTheEnd, TextsBefore, Killed
<1>6. CASE Lower(c)
  <2>1. Sound(j) /\ j.tool # "check"
    BY <1>6 DEF Lower, At, IInv, Knows, OnTheWay
  <2>2. j.tool = "compile" => j.emit \notin {"tokens", "ast", "hir"}
    BY <1>6 DEF Lower, At, IInv, Knows, OnTheWay, TextsBefore
  <2>3. \/ pc'[c] = "text" /\ j.tool = "compile" /\ j.emit = "banner"
        \/ pc'[c] = "generate" /\ (j.tool = "compile" => j.emit # "banner")
    BY <1>6 DEF Lower, GoTo, IInv, Typed, Emits
  <2> QED
    BY <1>1, <2>1, <2>2, <2>3
    DEF Knows, OnTheWay, AtTheEnd, Sound, Texts, GotThrough, TextsBefore
<1>4. CASE Generate(c)
  <2>1. Sound(j) /\ j.tool # "check"
    BY <1>4 DEF Generate, At, IInv, Knows, OnTheWay
  <2>2. \/ FailWith(c, "semantic")
        \/ GoTo(c, "text") /\ Emits(c, "llvm-ir")
        \/ GoTo(c, "object") /\ ~ Emits(c, "llvm-ir")
    BY <1>4 DEF Generate
  <2>3. CASE FailWith(c, "semantic")
    BY <1>1, <1>4, <2>1, <2>3, FailWithKnows DEF Generate, At, Sound
  <2>4. CASE GoTo(c, "text") /\ Emits(c, "llvm-ir")
    <3>1. pc'[c] = "text"
      BY <2>4 DEF GoTo, IInv, Typed
    <3> QED
      BY <1>1, <2>1, <2>4, <3>1
      DEF Knows, OnTheWay, AtTheEnd, Sound, Texts, GotThrough, Emits, TextsBefore
  <2>5. CASE GoTo(c, "object") /\ ~ Emits(c, "llvm-ir")
    <3>1. pc'[c] = "object"
      BY <2>5 DEF GoTo, IInv, Typed
    <3>2. j.tool = "compile" => j.emit \notin Texts
      BY <1>4, <2>5 DEF Generate, At, IInv, Knows, OnTheWay, TextsBefore, Emits
    <3> QED
      BY <1>1, <2>1, <2>5, <3>1, <3>2 DEF Knows, OnTheWay, AtTheEnd, Sound, Emits, Texts, TextsBefore
  <2> QED
    BY <2>2, <2>3, <2>4, <2>5
<1> QED
  BY <1>3, <1>4, <1>5, <1>6

\* The files, the link, the exit.
LEMMA BackEndKnows ==
  ASSUME IInv, NEW c \in Compilers,
         \/ WriteText(c) \/ OpenObject(c) \/ WriteObject(c) \/ Link(c)
         \/ WriteFails(c) \/ Run(c) \/ Succeed(c) \/ PanicInLowering(c)
         \/ Fail(c) \/ Kill(c)
  PROVE  Knows(c)'
<1> DEFINE j == job[c]
<1>1. /\ j \in Jobs /\ job'[c] = j /\ exit[c] = NoCode
  BY DEF IInv, Typed, Knows, AtTheEnd, WriteText, OpenObject, WriteObject,
         Link, WriteFails, Run, Succeed, PanicInLowering, Fail, Kill, At, Exits, Ended
<1>2. CASE WriteText(c)
  <2>1. pc'[c] = "succeeded" /\ j.tool = "compile" /\ exit'[c] = NoCode
    BY <1>1, <1>2 DEF WriteText, At, GoTo, IInv, Typed, Knows, OnTheWay
  <2> QED
    BY <1>1, <2>1 DEF Knows, OnTheWay, AtTheEnd, TextsBefore
<1>3. CASE OpenObject(c) \/ WriteObject(c)
  <2>1. Sound(j) /\ j.tool # "check" /\ (j.tool = "compile" => j.emit \notin Texts)
    BY <1>3 DEF OpenObject, WriteObject, At, IInv, Knows, OnTheWay, TextsBefore
  <2>2. pc'[c] \in {"write", "link"} /\ exit'[c] = NoCode
    BY <1>1, <1>3 DEF OpenObject, WriteObject, GoTo, IInv, Typed
  <2> QED
    BY <1>1, <2>1, <2>2 DEF Knows, OnTheWay, AtTheEnd, Sound, TextsBefore
<1>4. CASE Link(c)
  <2>1. Sound(j) /\ j.tool # "check" /\ (j.tool = "compile" => j.emit \notin Texts)
    BY <1>4 DEF Link, At, IInv, Knows, OnTheWay, TextsBefore
  <2>2. CASE FailWith(c, "semantic")
    BY <1>1, <1>4, <2>1, <2>2, FailWithKnows DEF Link, At, Sound
  <2>3. CASE GoTo(c, IF j.tool = "run" THEN "run" ELSE "succeeded")
    <3>1. /\ pc'[c] = IF j.tool = "run" THEN "run" ELSE "succeeded"
          /\ exit'[c] = NoCode
      BY <1>1, <1>4, <2>3 DEF Link, GoTo, IInv, Typed
    <3> QED
      BY <1>1, <2>1, <3>1 DEF Knows, OnTheWay, AtTheEnd, Sound, TextsBefore
  <2> QED
    BY <1>4, <2>2, <2>3 DEF Link
<1>5. CASE WriteFails(c)
  <2>1. j.tool # "hulk" \/ Sound(j)
    BY <1>5 DEF WriteFails, At, IInv, Knows, OnTheWay
  <2> QED
    BY <1>1, <1>5, <2>1, FailWithKnows DEF WriteFails, At, Sound
<1>6. CASE Run(c)
  <2>1. PICK status \in 0..1 : Exits(c, status)
    BY <1>6 DEF Run
  <2>2. pc'[c] = "exited" /\ exit'[c] # NoCode
    BY <2>1 DEF Exits, GoTo, IInv, Typed, NoCode
  <2>3. j.tool = "run"
    BY <1>6 DEF Run, At, IInv, Knows, OnTheWay
  <2> QED
    BY <1>1, <2>2, <2>3 DEF Knows, OnTheWay, AtTheEnd, TextsBefore
<1>7. CASE Succeed(c)
  <2>1. pc'[c] = "exited" /\ exit'[c] = 0
    BY <1>7 DEF Succeed, Exits, GoTo, IInv, Typed
  <2>2. j.tool = "hulk" => Sound(j)
    BY <1>7 DEF Succeed, At, IInv, Knows, AtTheEnd
  <2> QED
    BY <1>1, <2>1, <2>2 DEF Knows, OnTheWay, AtTheEnd, TextsBefore, NoCode, Sound
<1>8. CASE Fail(c)
  <2>1. /\ pc'[c] = "exited"
        /\ exit'[c] = IF j.tool = "hulk" THEN ExitCode(bag[c]) ELSE 1
    BY <1>8 DEF Fail, Exits, GoTo, IInv, Typed
  <2>2. j.tool = "hulk" =>
          /\ "lexical" \in bag[c] <=> j.source.readable /\ "lexical" \in j.source.errors
          /\ "lexical" \notin bag[c] =>
               ("syntactic" \in bag[c] <=>
                  j.source.readable /\ "syntactic" \in j.source.errors)
    BY <1>8 DEF Fail, At, IInv, Knows, AtTheEnd
  <2> QED
    BY <1>1, <2>1, <2>2 DEF Knows, OnTheWay, AtTheEnd, TextsBefore, NoCode, ExitCode
<1>9. CASE Kill(c)
  <2>1. pc'[c] = Killed /\ exit'[c] = NoCode
    BY <1>1, <1>9 DEF Kill, GoTo, IInv, Typed
  <2> QED
    BY <1>1, <2>1 DEF Knows, OnTheWay, AtTheEnd, TextsBefore, Killed
<1>10. CASE PanicInLowering(c)
  <2>1. pc'[c] = "exited" /\ exit'[c] = PanicCode
    BY <1>10 DEF PanicInLowering, Exits, GoTo, IInv, Typed
  <2>2. Sound(j)
    BY <1>10 DEF PanicInLowering, At, IInv, Knows, OnTheWay
  <2> QED
    BY <1>1, <2>1, <2>2 DEF Knows, OnTheWay, AtTheEnd, TextsBefore, NoCode, PanicCode, Sound
<1> QED
  BY <1>2, <1>3, <1>4, <1>5, <1>6, <1>7, <1>8, <1>9, <1>10

\* Every process goes on knowing what its phase says, whoever takes the step.
LEMMA KnowsStep ==
  ASSUME IInv, NEW c \in Compilers, Acts(c) PROVE \A d \in Compilers : Knows(d)'
<1>1. Knows(c)'
  BY StartKnows, FrontEndKnows, MiddleEndKnows, BackEndKnows DEF Acts, Step
<1>2. ASSUME NEW d \in Compilers \ {c} PROVE Knows(d)'
  <2>1. pc'[d] = pc[d] /\ job'[d] = job[d] /\ bag'[d] = bag[d] /\ exit'[d] = exit[d]
    BY OthersKept DEF IInv
  <2> QED
    BY <2>1 DEF IInv, Knows
<1> QED
  BY <1>1, <1>2

-----------------------------------------------------------------------------
(* What the files are made from.                                           *)

\* A step writes at most one file: a text the source got through to, an object
\* of a sound source, or an executable made from an object.
LEMMA WhatIsWritten ==
  ASSUME IInv, NEW c \in Compilers, Acts(c)
  PROVE  \/ UNCHANGED files
         \/ \E path, kind :
              /\ Put(path, File(kind, job[c]))
              /\ kind \notin {"tokens", "ast"} =>
                   job[c].source.errors \subseteq IF kind = "hir" THEN {"macro"} ELSE {}
         \/ /\ ObjectPath \in DOMAIN files /\ files[ObjectPath].kind = "object"
            /\ Put(OutputPath(job[c]), [files[ObjectPath] EXCEPT !.kind = "executable"])
<1>1. CASE WriteText(c)
  <2>1. /\ Put(OutputPath(job[c]), File(job[c].emit, job[c]))
        /\ job[c].emit \in Texts /\ GotThrough(job[c])
    BY <1>1 DEF WriteText, At, IInv, Knows, OnTheWay
  <2>2. job[c].emit \notin {"tokens", "ast"} =>
          job[c].source.errors \subseteq IF job[c].emit = "hir" THEN {"macro"} ELSE {}
    BY <2>1 DEF GotThrough
  <2> QED
    BY <2>1, <2>2
<1>2. CASE OpenObject(c)
  <2>1. Put(ObjectPath, File("partial", job[c])) /\ Sound(job[c])
    BY <1>2 DEF OpenObject, At, IInv, Knows, OnTheWay
  <2> QED
    BY <2>1 DEF Sound
<1>3. CASE WriteObject(c)
  <2>1. Put(ObjectPath, File("object", job[c])) /\ Sound(job[c])
    BY <1>3 DEF WriteObject, At, IInv, Knows, OnTheWay
  <2> QED
    BY <2>1 DEF Sound
<1>4. CASE Link(c)
  BY <1>4 DEF Link, At, IInv, ObjectThere
<1>5. CASE ~ (WriteText(c) \/ OpenObject(c) \/ WriteObject(c) \/ Link(c))
  <2>1. UNCHANGED files
    BY <1>5 DEF Acts, Start, Step, Read, Lex, Parse, BuildHir, RunMiddleend, OverflowStack,
       Lower, PanicInLowering, Generate, WriteFails, Run, Succeed, Fail, Exits, Kill
  <2> QED
    BY <2>1
<1> QED
  BY <1>1, <1>2, <1>3, <1>4, <1>5

\* A content of this kind comes from a source with no errors that would forbid it.
MayExist(f) ==
  f.kind \notin {"tokens", "ast"} =>
    \E j \in Jobs :
      /\ j.source.name = f.of
      /\ j.source.errors \subseteq IF f.kind = "hir" THEN {"macro"} ELSE {}

\* Every file is made from a source without errors, whoever else writes files.
LEMMA SoundStep ==
  ASSUME IInv, NEW c \in Compilers, Acts(c) PROVE OnlySoundSourcesGetCode'
<1>1. \A p \in DOMAIN files : MayExist(files[p])
  BY DEF IInv, OnlySoundSourcesGetCode, MayExist
<1>2. SUFFICES \A p \in DOMAIN files' : MayExist(files'[p])
  BY DEF OnlySoundSourcesGetCode, MayExist
<1>3. ASSUME NEW path, NEW content, Put(path, content), MayExist(content)
      PROVE  \A p \in DOMAIN files' : MayExist(files'[p])
  <2>1. \A p \in DOMAIN files' : p = path \/ p \in DOMAIN files
    BY <1>3, PutWrites
  <2> QED
    BY <1>1, <1>3, <2>1, PutWrites
<1>4. CASE UNCHANGED files
  BY <1>1, <1>4
<1>5. ASSUME NEW path, NEW kind, Put(path, File(kind, job[c])),
             kind \notin {"tokens", "ast"} =>
               job[c].source.errors \subseteq IF kind = "hir" THEN {"macro"} ELSE {}
      PROVE  \A p \in DOMAIN files' : MayExist(files'[p])
  <2>1. job[c] \in Jobs
    BY DEF IInv, Typed
  <2>2. MayExist(File(kind, job[c]))
    BY <1>5, <2>1 DEF MayExist, File
  <2> QED
    BY <1>3, <1>5, <2>2
<1>6. ASSUME ObjectPath \in DOMAIN files, files[ObjectPath].kind = "object",
             Put(OutputPath(job[c]), [files[ObjectPath] EXCEPT !.kind = "executable"])
      PROVE  \A p \in DOMAIN files' : MayExist(files'[p])
  <2>1. MayExist(files[ObjectPath]) /\ files[ObjectPath] \in Contents
    BY <1>1, <1>6 DEF IInv, Typed
  <2>2. PICK f : f = [files[ObjectPath] EXCEPT !.kind = "executable"]
    OBVIOUS
  <2>3. f.kind = "executable" /\ f.of = files[ObjectPath].of
    BY <2>1, <2>2, LinkedTyped
  <2>4. PICK j \in Jobs : j.source.name = f.of /\ j.source.errors \subseteq {}
    BY <1>6, <2>1, <2>3 DEF MayExist
  <2>5. MayExist(f)
    BY <2>3, <2>4 DEF MayExist
  <2> QED
    BY <1>3, <1>6, <2>2, <2>5
<1> QED
  BY <1>4, <1>5, <1>6, WhatIsWritten

\* The object file is there when it is needed: files are not deleted.
LEMMA ObjectThereStep ==
  ASSUME IInv, NEW c \in Compilers, Acts(c) PROVE ObjectThere'
<1>1. DOMAIN files \subseteq DOMAIN files'
  BY WhatIsWritten, PutWrites
<1>2. pc'[c] \in {"write", "link"} => ObjectPath \in DOMAIN files'
  <2>1. CASE OpenObject(c) \/ WriteObject(c)
    BY <2>1, PutWrites DEF OpenObject, WriteObject
  <2>2. CASE ~ (OpenObject(c) \/ WriteObject(c))
    <3>1. PICK ph : GoTo(c, ph) /\ ph \notin {"write", "link"}
      BY <2>2 DEF Acts, Start, Step, Read, Lex, Parse, BuildHir, RunMiddleend, OverflowStack,
         Lower, PanicInLowering, Generate, WriteText, Link, WriteFails, FailWith, Run,
         Succeed, Fail, Exits, Kill, Killed
    <3> QED
      BY <3>1 DEF GoTo, IInv, Typed
  <2> QED
    BY <2>1, <2>2
<1>3. \A d \in Compilers \ {c} : pc'[d] = pc[d]
  BY OthersKept DEF IInv
<1> QED
  BY <1>1, <1>2, <1>3 DEF IInv, ObjectThere

\* The invariant is inductive.
LEMMA InitIInv == Init => IInv
<1> SUFFICES ASSUME Init PROVE IInv
  OBVIOUS
<1>1. Typed
  BY JobsAssumption DEF Init, Typed, Phases, Idle, NoCode
<1>2. ASSUME NEW c \in Compilers PROVE Knows(c)
  <2>1. pc[c] = Idle /\ bag[c] = {} /\ exit[c] = NoCode
    BY DEF Init
  <2> QED
    BY <2>1 DEF Knows, OnTheWay, AtTheEnd, TextsBefore, Idle
<1>3. OnlySoundSourcesGetCode /\ ObjectThere
  BY DEF Init, OnlySoundSourcesGetCode, ObjectThere, Idle
<1> QED
  BY <1>1, <1>2, <1>3 DEF IInv

\* Every step keeps the invariant.
LEMMA StepIInv == IInv /\ [Next]_vars => IInv'
<1> SUFFICES ASSUME IInv, [Next]_vars PROVE IInv'
  OBVIOUS
<1>1. CASE UNCHANGED vars
  BY <1>1 DEF vars, IInv, Typed, Knows, OnlySoundSourcesGetCode, ObjectThere
<1>2. CASE Next
  <2>1. PICK c \in Compilers : Acts(c)
    BY <1>2 DEF Next, Acts
  <2> QED
    BY <2>1, TypedStep, KnowsStep, SoundStep, ObjectThereStep DEF IInv
<1> QED
  BY <1>1, <1>2

\* What every process knows of its source, and what the files are made from,
\* however many compilers are at work at once.
THEOREM InductiveInvariant == Spec => []IInv
BY InitIInv, StepIInv, PTL DEF Spec

-----------------------------------------------------------------------------
(* The properties that hold of compilers that overlap, too.                *)

\* The state is well formed, and no compilation fails without an error to
\* report.
THEOREM TypeCorrect == Spec => []TypeOK
<1>1. IInv => TypeOK
  BY DEF IInv, Typed, TypeOK, Knows, AtTheEnd, Contents
<1> QED
  BY <1>1, InductiveInvariant, PTL

\* The exit code of hulk names the most fundamental kind of error of the source.
THEOREM ExitCodesTell == Spec => []ExitCodeTellsTheError
<1>1. IInv => ExitCodeTellsTheError
  <2> SUFFICES ASSUME IInv, NEW c \in Compilers, pc[c] = "exited", job[c].tool = "hulk"
               PROVE  LET source == job[c].source
                      IN  /\ exit[c] = 1 <=> source.readable /\ "lexical" \in source.errors
                          /\ exit[c] = 2 <=> /\ source.readable
                                             /\ "syntactic" \in source.errors
                                             /\ "lexical" \notin source.errors
                          /\ exit[c] = 0 => source.readable /\ source.errors = {}
    BY DEF ExitCodeTellsTheError
  <2>1. AtTheEnd(pc[c], job[c], bag[c], exit[c])
    BY DEF IInv, Knows
  <2> QED
    BY <2>1 DEF AtTheEnd, Sound
<1> QED
  BY <1>1, InductiveInvariant, PTL

\* Behind the gates there is only code of sources without errors, though every
\* process links from the same path.
THEOREM OnlySoundCode == Spec => []OnlySoundSourcesGetCode
<1>1. IInv => OnlySoundSourcesGetCode
  BY DEF IInv
<1> QED
  BY <1>1, InductiveInvariant, PTL

-----------------------------------------------------------------------------
(* One compilation after the other.                                        *)

\* With one compiler at a time, whoever takes a step is the only one at work.
LEMMA OthersAtRest ==
  ASSUME IInv, AtMostOneAtWork, Overlap = FALSE,
         NEW c \in Compilers, Acts(c), NEW d \in Compilers \ {c}
  PROVE  pc[d] \in Ended /\ pc'[d] \in Ended
<1>1. pc[d] \in Ended
  <2>1. CASE Start(c)
    BY <2>1 DEF Start
  <2>2. CASE Step(c) \/ Kill(c)
    <3>1. pc[c] \notin Ended
      BY <2>2 DEF Step, Read, Lex, Parse, BuildHir, RunMiddleend, OverflowStack,
         Lower, PanicInLowering, Generate, WriteText, OpenObject, WriteObject, Link, WriteFails, Run, Succeed, Fail, At, Kill,
         Ended, Idle, Killed
    <3> QED
      BY <3>1 DEF AtMostOneAtWork
  <2> QED
    BY <2>1, <2>2 DEF Acts
<1> QED
  BY <1>1, OthersKept DEF IInv

\* No second process starts while one is at work.
LEMMA AtMostOneStep ==
  ASSUME IInv, AtMostOneAtWork, Overlap = FALSE, NEW c \in Compilers, Acts(c)
  PROVE  AtMostOneAtWork'
BY OthersAtRest DEF AtMostOneAtWork

\* The object file a process links is the one it has written.
LEMMA OwnObjectStep ==
  ASSUME SequentialInv, Overlap = FALSE, NEW c \in Compilers, Acts(c)
  PROVE  OwnObject'
<1>1. IInv /\ AtMostOneAtWork /\ OwnObject
  BY DEF SequentialInv
<1>2. ASSUME NEW d \in Compilers \ {c} PROVE pc'[d] \notin {"write", "link"}
  BY <1>1, OthersAtRest DEF Ended, Idle, Killed
<1>3. /\ pc'[c] = "write" => files'[ObjectPath] = File("partial", job'[c])
      /\ pc'[c] = "link"  => files'[ObjectPath] = File("object", job'[c])
  <2>1. CASE OpenObject(c)
    <3>1. pc'[c] = "write" /\ job' = job
      BY <1>1, <2>1 DEF OpenObject, GoTo, IInv, Typed
    <3> QED
      BY <2>1, <3>1, PutWrites DEF OpenObject
  <2>2. CASE WriteObject(c)
    <3>1. pc'[c] = "link" /\ job' = job
      BY <1>1, <2>2 DEF WriteObject, GoTo, IInv, Typed
    <3> QED
      BY <2>2, <3>1, PutWrites DEF WriteObject
  <2>3. CASE ~ (OpenObject(c) \/ WriteObject(c))
    <3>1. PICK ph : GoTo(c, ph) /\ ph \notin {"write", "link"}
      BY <2>3 DEF Acts, Start, Step, Read, Lex, Parse, BuildHir, RunMiddleend, OverflowStack,
         Lower, PanicInLowering, Generate, WriteText, Link, WriteFails, FailWith, Run,
         Succeed, Fail, Exits, Kill, Killed
    <3> QED
      BY <1>1, <3>1 DEF GoTo, IInv, Typed
  <2> QED
    BY <2>1, <2>2, <2>3
<1> QED
  BY <1>2, <1>3 DEF OwnObject

\* Of one process, what OutputIsOfItsSource says.
OutputOf(c) ==
  pc[c] \in {"succeeded", "run"} /\ job[c].tool # "check" =>
    /\ OutputPath(job[c]) \in DOMAIN files
    /\ files[OutputPath(job[c])] = File(Wants(c), job[c])

\* No job asks for an object file, in whose place Link leaves an executable.
NoObjectJobs == \A j \in Jobs : j.tool = "compile" => j.emit # "object"

\* What is there when a compilation succeeds is made from its own source.
LEMMA OutputStep ==
  ASSUME SequentialInv, Overlap = FALSE, NoObjectJobs, NEW c \in Compilers, Acts(c)
  PROVE  OutputIsOfItsSource'
<1>1. IInv /\ AtMostOneAtWork /\ OwnObject
  BY DEF SequentialInv
<1>2. ASSUME NEW d \in Compilers \ {c} PROVE OutputOf(d)'
  <2>1. pc'[d] \notin {"succeeded", "run"}
    BY <1>1, <1>2, OthersAtRest DEF Ended, Idle, Killed
  <2> QED
    BY <2>1 DEF OutputOf
<1>3. OutputOf(c)'
  <2>1. CASE WriteText(c)
    <3>1. job' = job /\ Wants(c) = job[c].emit
      BY <1>1, <2>1 DEF WriteText, At, IInv, Knows, OnTheWay, Wants
    <3>2. Put(OutputPath(job[c]), File(job[c].emit, job[c]))
      BY <2>1 DEF WriteText
    <3> QED
      BY <3>1, <3>2, PutWrites DEF OutputOf, Wants
  <2>2. CASE Link(c)
    <3>1. CASE FailWith(c, "semantic")
      <4>1. pc'[c] = "failed"
        BY <1>1, <3>1 DEF FailWith, GoTo, IInv, Typed
      <4> QED
        BY <4>1 DEF OutputOf
    <3>2. CASE Put(OutputPath(job[c]), [files[ObjectPath] EXCEPT !.kind = "executable"])
      <4>1. job' = job /\ Wants(c) = "executable"
        <5>1. job' = job /\ job[c] \in Jobs
          BY <1>1, <2>2 DEF Link, IInv, Typed
        <5>2. job[c].tool = "compile" => job[c].emit \notin Texts
          BY <1>1, <2>2 DEF Link, At, IInv, Knows, OnTheWay, TextsBefore
        <5> QED
          BY <5>1, <5>2, JobsAssumption DEF Wants, NoObjectJobs
      <4>2. files[ObjectPath] = [kind |-> "object", of |-> job[c].source.name]
        BY <1>1, <2>2 DEF Link, At, OwnObject, File
      <4>3. [files[ObjectPath] EXCEPT !.kind = "executable"] = File("executable", job[c])
        BY <4>2 DEF File
      <4>4. /\ OutputPath(job[c]) \in DOMAIN files'
            /\ files'[OutputPath(job[c])] = File("executable", job[c])
        BY <3>2, <4>3, PutWrites
      <4>5. job'[c] = job[c] /\ Wants(c)' = "executable"
        BY <4>1 DEF Wants
      <4> QED
        BY <4>4, <4>5 DEF OutputOf, OutputPath, File
    <3> QED
      BY <2>2, <3>1, <3>2 DEF Link
  <2>3. CASE BuildHir(c)
    <3>1. pc'[c] = "succeeded" => job'[c].tool = "check"
      BY <1>1, <2>3 DEF BuildHir, GoTo, IInv, Typed
    <3>2. pc'[c] # "run"
      BY <1>1, <2>3 DEF BuildHir, GoTo, IInv, Typed
    <3> QED
      BY <3>1, <3>2 DEF OutputOf
  <2>4. CASE ~ (WriteText(c) \/ Link(c) \/ BuildHir(c))
    <3>1. PICK ph : GoTo(c, ph) /\ ph \notin {"succeeded", "run"}
      BY <2>4 DEF Acts, Start, Step, Read, Lex, Parse, RunMiddleend, OverflowStack, Lower,
         PanicInLowering, Generate, OpenObject, WriteObject, WriteFails, FailWith, Run, Succeed, Fail, Exits, Kill, Killed
    <3>2. pc'[c] \notin {"succeeded", "run"}
      BY <1>1, <3>1 DEF GoTo, IInv, Typed
    <3> QED
      BY <3>2 DEF OutputOf
  <2> QED
    BY <2>1, <2>2, <2>3, <2>4
<1>4. \A d \in Compilers : OutputOf(d)'
  BY <1>2, <1>3
<1> QED
  BY <1>4 DEF OutputIsOfItsSource, OutputOf, Wants

\* When one compilation follows the other, killed ones among them, one that
\* succeeds leaves at its output path what the options promise, of its own
\* source, whichever paths they share.  That is false of hulkc compile --emit
\* object, which no job may be.
THEOREM OutputsAreOwn ==
  ASSUME Overlap = FALSE, NoObjectJobs PROVE Spec => []OutputIsOfItsSource
<1>1. Init => SequentialInv
  <2> SUFFICES ASSUME Init PROVE SequentialInv
    OBVIOUS
  <2>1. \A c \in Compilers : pc[c] = Idle
    BY DEF Init
  <2> QED
    BY <2>1, InitIInv
    DEF SequentialInv, AtMostOneAtWork, OwnObject, OutputIsOfItsSource, Ended, Idle
<1>2. SequentialInv /\ [Next]_vars => SequentialInv'
  <2> SUFFICES ASSUME SequentialInv, [Next]_vars PROVE SequentialInv'
    OBVIOUS
  <2>1. IInv'
    BY StepIInv DEF SequentialInv
  <2>2. CASE UNCHANGED vars
    BY <2>1, <2>2 DEF vars, SequentialInv, AtMostOneAtWork, OwnObject,
       OutputIsOfItsSource, Wants
  <2>3. CASE Next
    <3>1. PICK c \in Compilers : Acts(c)
      BY <2>3 DEF Next, Acts
    <3> QED
      BY <2>1, <3>1, AtMostOneStep, OwnObjectStep, OutputStep DEF SequentialInv
  <2> QED
    BY <2>2, <2>3
<1>3. SequentialInv => OutputIsOfItsSource
  BY DEF SequentialInv
<1> QED
  BY <1>1, <1>2, <1>3, PTL DEF Spec
=============================================================================
