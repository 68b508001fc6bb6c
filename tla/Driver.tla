------------------------------- MODULE Driver -------------------------------
(***************************************************************************)
(* The compilers hulk and hulkc as processes                               *)
(* (src/crates/hulk-driver/src/compile.rs, src/crates/hulk-cli, and        *)
(* pipeline.rs and link.rs of src/crates/hulk-codegen): the phases, the    *)
(* bag of diagnostics and its two gates, the files written, the exit code. *)
(*                                                                         *)
(* A source is given by what the phases find in it: whether it can be      *)
(* read, the kinds of error it has, whether LLVM gets a module and accepts *)
(* it, which phases never end on it, and which the process dies in.  A     *)
(* path is <<directory, stem, extension>>, a file's content [kind, of], of *)
(* which source; sources themselves are not among the files.  Every        *)
(* process writes its object file to the one path ObjectPath and has it    *)
(* linked from there.  A process may be killed at any moment; what it      *)
(* wrote stays.                                                            *)
(***************************************************************************)
EXTENDS Naturals

CONSTANTS Compilers,     \* processes
          Jobs,          \* command lines: [tool, emit, output, source, cwd]
          MaxJobs,       \* bound on the jobs started
          Overlap        \* whether one may start while another is at work

VARIABLES pc,            \* compiler -> the phase that comes next
          job,           \* compiler -> its command line
          bag,           \* compiler -> the kinds of error reported so far
          exit,          \* compiler -> its exit code
          files,         \* path -> content
          started        \* the number of jobs started

vars == <<pc, job, bag, exit, files, started>>

NoCode == 100          \* no exit code yet
PanicCode == 101       \* the exit code of a Rust program that panics
Idle   == "idle"
Killed == "killed"
Ended  == {Idle, "exited", Killed}
Texts  == {"tokens", "ast", "hir", "banner", "llvm-ir"}
Kinds  == {"lexical", "syntactic", "semantic"}
NoPath == <<>>         \* no -o option

\* What is asked of the compilers, and what their phases may find in a source.
ASSUME JobsAssumption ==
  /\ Overlap \in BOOLEAN /\ MaxJobs \in Nat
  /\ Jobs # {}
  /\ \A j \in Jobs :
       /\ j.tool \in {"hulk", "run", "check", "compile"}
       /\ j.emit \in Texts \cup {"object", "executable"}
       /\ j.source.readable \in BOOLEAN
       /\ j.source.errors \subseteq Kinds \cup {"macro"}
       /\ j.source.endless \subseteq {"resolve", "generate"}
       /\ j.source.fatal \subseteq {"resolve", "expand", "lower"}

ObjectPath == <<"temp", "hulk_out", "o">>

-----------------------------------------------------------------------------
\* resolve_output, and the paths the tools ask for; hulkc compile has an
\* option of its own.
OutputPath(j) ==
  CASE j.tool = "hulk" -> <<j.cwd, "output", "">>
    [] j.tool = "run"  -> <<"hulkc_run", j.source.stem, "">>
    [] j.output # NoPath -> j.output
    [] OTHER ->
         <<j.source.dir, j.source.stem,
           CASE j.emit = "executable" -> "" [] j.emit = "object" -> "o"
             [] j.emit = "llvm-ir" -> "ll"  [] OTHER -> j.emit>>

File(k, j)        == [kind |-> k, of |-> j.source.name]
Put(path, content) ==
  files' = [p \in DOMAIN files \cup {path} |-> IF p = path THEN content ELSE files[p]]

At(c, phase) == pc[c] = phase
GoTo(c, phase) == pc' = [pc EXCEPT ![c] = phase]
Report(c, ks)  == bag' = [bag EXCEPT ![c] = @ \cup ks]

\* What a phase finds in the source; macro errors are semantic ones.
Found(c, k) == {k} \cap job[c].source.errors

\* A phase reports a single error of its own and the compilation fails.
FailWith(c, k) ==
  /\ bag' = [bag EXCEPT ![c] = {k}]
  /\ GoTo(c, "failed")

Emits(c, k) == job[c].tool = "compile" /\ job[c].emit = k

-----------------------------------------------------------------------------
Init ==
  /\ pc = [c \in Compilers |-> Idle]
  /\ job = [c \in Compilers |-> CHOOSE j \in Jobs : TRUE]
  /\ bag = [c \in Compilers |-> {}]
  /\ exit = [c \in Compilers |-> NoCode]
  /\ files = [p \in {} |-> NoCode]
  /\ started = 0

Start(c) ==
  /\ pc[c] \in Ended /\ started < MaxJobs
  /\ Overlap \/ \A d \in Compilers : pc[d] \in Ended
  /\ \E j \in Jobs : job' = [job EXCEPT ![c] = j]
  /\ bag' = [bag EXCEPT ![c] = {}]
  /\ exit' = [exit EXCEPT ![c] = NoCode]
  /\ started' = started + 1
  /\ GoTo(c, "read") /\ UNCHANGED files

\* hulk looks first whether the file exists; a file that does not or cannot
\* be read counts as a semantic error.
Read(c) ==
  /\ At(c, "read")
  /\ IF job[c].source.readable THEN GoTo(c, "lex") /\ UNCHANGED bag
     ELSE FailWith(c, "semantic")
  /\ UNCHANGED <<job, exit, files, started>>

\* Tokens are written whatever the lexer reported.
Lex(c) ==
  /\ At(c, "lex")
  /\ Report(c, Found(c, "lexical"))
  /\ GoTo(c, IF Emits(c, "tokens") THEN "text" ELSE "parse")
  /\ UNCHANGED <<job, exit, files, started>>

Parse(c) ==
  /\ At(c, "parse")
  /\ Report(c, Found(c, "syntactic"))
  /\ GoTo(c, IF Emits(c, "ast") THEN "text" ELSE "resolve")
  /\ UNCHANGED <<job, exit, files, started>>

\* Wrong: a gate that looks at this phase's errors only.
GateOnOwnErrors(c) ==
  /\ At(c, "resolve")
  /\ Report(c, Found(c, "semantic"))
  /\ GoTo(c, IF Found(c, "semantic") # {} THEN "failed"
             ELSE IF job[c].tool = "check" THEN "succeeded"
             ELSE IF Emits(c, "hir") THEN "text" ELSE "expand")
  /\ UNCHANGED <<job, exit, files, started>>

\* The source lets the phase come to its end.
Ends(c, phase) == phase \notin job[c].source.endless \cup job[c].source.fatal

\* build_hir: the first gate, on everything reported so far.  The resolver may
\* climb round a cycle of parents for ever, as a loop or until the stack
\* overflows, as the build makes of the recursion (see Names).
BuildHir(c) ==
  /\ At(c, "resolve") /\ Ends(c, "resolve")
  /\ Report(c, Found(c, "semantic"))
  /\ GoTo(c, IF bag'[c] # {} THEN "failed"
             ELSE IF job[c].tool = "check" THEN "succeeded"
             ELSE IF Emits(c, "hir") THEN "text" ELSE "expand")
  /\ UNCHANGED <<job, exit, files, started>>

\* run_middleend: the second gate; desugar reports nothing.
RunMiddleend(c) ==
  /\ At(c, "expand") /\ Ends(c, "expand")
  /\ Report(c, IF "macro" \in job[c].source.errors THEN {"semantic"} ELSE {})
  /\ GoTo(c, IF bag'[c] # {} THEN "failed"
             ELSE "lower")
  /\ UNCHANGED <<job, exit, files, started>>

\* The resolver, or the expansion of a macro that calls itself, overflows the
\* stack: the process is aborted.
OverflowStack(c) ==
  /\ pc[c] \in {"resolve", "expand"} \cap job[c].source.fatal
  /\ GoTo(c, Killed)
  /\ UNCHANGED <<job, bag, exit, files, started>>

\* lower_program, for every representation from BANNER on.
Lower(c) ==
  /\ At(c, "lower") /\ Ends(c, "lower")
  /\ GoTo(c, IF Emits(c, "banner") THEN "text" ELSE "generate")
  /\ UNCHANGED <<job, bag, exit, files, started>>

\* Code generation and LLVM; inferring the signatures may never end (see
\* Signatures).  Only a module that is to become an object is verified.
Generate(c) ==
  /\ At(c, "generate") /\ Ends(c, "generate")
  /\ CASE job[c].source.module = "none" -> FailWith(c, "semantic")
       [] Emits(c, "llvm-ir") -> GoTo(c, "text") /\ UNCHANGED bag
       [] job[c].source.module = "invalid" -> FailWith(c, "semantic")
       [] OTHER -> GoTo(c, "object") /\ UNCHANGED bag
  /\ UNCHANGED <<job, exit, files, started>>

\* write_text
WriteText(c) ==
  /\ At(c, "text")
  /\ Put(OutputPath(job[c]), File(job[c].emit, job[c]))
  /\ GoTo(c, "succeeded")
  /\ UNCHANGED <<job, bag, exit, started>>

\* Wrong: an object file that is there is taken for this program's.
ReuseObject(c) ==
  /\ At(c, "object")
  /\ IF ObjectPath \in DOMAIN files
     THEN GoTo(c, "link") /\ UNCHANGED files
     ELSE GoTo(c, "write") /\ Put(ObjectPath, File("partial", job[c]))
  /\ UNCHANGED <<job, bag, exit, started>>

\* compile_to_object opens and truncates the file ...
OpenObject(c) ==
  /\ At(c, "object")
  /\ Put(ObjectPath, File("partial", job[c]))
  /\ GoTo(c, "write")
  /\ UNCHANGED <<job, bag, exit, started>>

\* ... and has it complete when it returns.  Of two writers the one that ends
\* last decides.
WriteObject(c) ==
  /\ At(c, "write")
  /\ Put(ObjectPath, File("object", job[c]))
  /\ GoTo(c, "link")
  /\ UNCHANGED <<job, bag, exit, started>>

\* Wrong: a failed link is tried again.
RetryLink(c) ==
  /\ At(c, "link")
  /\ \/ /\ files[ObjectPath].kind = "object"
        /\ Put(OutputPath(job[c]), [files[ObjectPath] EXCEPT !.kind = "executable"])
        /\ GoTo(c, IF job[c].tool = "run" THEN "run" ELSE "succeeded")
        /\ UNCHANGED bag
     \/ GoTo(c, "object") /\ UNCHANGED <<bag, files>>
  /\ UNCHANGED <<job, exit, started>>

\* Wrong: a failed link is not reported.
SilentLink(c) ==
  /\ At(c, "link")
  /\ \/ /\ files[ObjectPath].kind = "object"
        /\ Put(OutputPath(job[c]), [files[ObjectPath] EXCEPT !.kind = "executable"])
        /\ GoTo(c, IF job[c].tool = "run" THEN "run" ELSE "succeeded")
        /\ UNCHANGED bag
     \/ GoTo(c, "failed") /\ UNCHANGED <<bag, files>>
  /\ UNCHANGED <<job, exit, started>>

\* link_executable, whatever was asked for, an object too.  The linker may be
\* missing or refuse, and does refuse a partial object.
Link(c) ==
  /\ At(c, "link")
  /\ \/ /\ files[ObjectPath].kind = "object"
        /\ Put(OutputPath(job[c]), [files[ObjectPath] EXCEPT !.kind = "executable"])
        /\ GoTo(c, IF job[c].tool = "run" THEN "run" ELSE "succeeded")
        /\ UNCHANGED bag
     \/ FailWith(c, "semantic") /\ UNCHANGED files
  /\ UNCHANGED <<job, exit, started>>

\* A path that cannot be written, a text's, the object's, or the directory of
\* hulkc run.
WriteFails(c) ==
  /\ \/ pc[c] \in {"text", "object"}
     \/ At(c, "read") /\ job[c].tool = "run"
  /\ FailWith(c, "semantic")
  /\ UNCHANGED <<job, exit, files, started>>

Exits(c, code) ==
  /\ exit' = [exit EXCEPT ![c] = code]
  /\ GoTo(c, "exited")
  /\ UNCHANGED <<job, bag, files, started>>

\* hulkc run executes what is now at the path it had the program linked to,
\* and ends with the program's status.
Run(c) ==
  /\ At(c, "run")
  /\ \E status \in 0..1 : Exits(c, status)

Succeed(c) == At(c, "succeeded") /\ Exits(c, 0)

\* What the lowerer does not know makes it panic: no diagnostic, no gate.
PanicInLowering(c) ==
  /\ At(c, "lower") /\ "lower" \in job[c].source.fatal
  /\ Exits(c, PanicCode)

\* Wrong: the code of the last phase that reported.
LastKind(ks) == IF "semantic" \in ks THEN 3 ELSE IF "syntactic" \in ks THEN 2 ELSE 1

\* report_diagnostics: the most fundamental kind.
ExitCode(ks) == IF "lexical" \in ks THEN 1 ELSE IF "syntactic" \in ks THEN 2 ELSE 3

Fail(c) ==
  /\ At(c, "failed")
  /\ Exits(c, IF job[c].tool = "hulk" THEN ExitCode(bag[c]) ELSE 1)

Step(c) ==
  \/ Read(c) \/ Lex(c) \/ Parse(c) \/ BuildHir(c) \/ RunMiddleend(c)
  \/ OverflowStack(c) \/ Lower(c) \/ PanicInLowering(c) \/ Generate(c)
  \/ WriteText(c) \/ OpenObject(c) \/ WriteObject(c) \/ Link(c)
  \/ WriteFails(c) \/ Run(c) \/ Succeed(c) \/ Fail(c)

Kill(c) ==
  /\ pc[c] \notin Ended
  /\ GoTo(c, Killed)
  /\ UNCHANGED <<job, bag, exit, files, started>>

Next == \E c \in Compilers : Start(c) \/ Step(c) \/ Kill(c)

Spec     == Init /\ [][Next]_vars
FairSpec == Spec /\ \A c \in Compilers : WF_vars(Step(c))

-----------------------------------------------------------------------------
(* Properties.                                                             *)

\* A compilation that fails has reported something: hulk has a message of its
\* own for the other case (hulk.rs report_diagnostics).
TypeOK ==
  /\ \A c \in Compilers : bag[c] \subseteq Kinds /\ job[c] \in Jobs
  /\ \A c \in Compilers : pc[c] = "failed" => bag[c] # {}
  /\ \A c \in Compilers : (pc[c] = "exited") = (exit[c] # NoCode)
  /\ \A p \in DOMAIN files : files[p].kind \in Texts \cup {"partial", "object", "executable"}
  /\ started \in 0..MaxJobs

\* What the options promise: for object a native object file (options.rs:17,
\* main.rs:57), though Link leaves an executable.
Wants(c) == IF job[c].tool = "compile" THEN job[c].emit ELSE "executable"

\* A compilation that is about to report success, or to run its program, has
\* left at its output path what was asked for, made from its own source: not
\* from an earlier compilation's object file, a killed one's, or another's
\* that is under way (pipeline.rs, link.rs, compile.rs).
OutputIsOfItsSource ==
  \A c \in Compilers :
    pc[c] \in {"succeeded", "run"} /\ job[c].tool # "check" =>
      /\ OutputPath(job[c]) \in DOMAIN files
      /\ files[OutputPath(job[c])] = File(Wants(c), job[c])

\* hulk's exit code names the most fundamental kind of error the source has,
\* though the phases that find them run one after the other and stop early
\* (hulk.rs; REPORT 17.1).
ExitCodeTellsTheError ==
  \A c \in Compilers :
    LET source == job[c].source
    IN  pc[c] = "exited" /\ job[c].tool = "hulk" =>
          /\ exit[c] = 1 <=> source.readable /\ "lexical" \in source.errors
          /\ exit[c] = 2 <=> /\ source.readable /\ "syntactic" \in source.errors
                             /\ "lexical" \notin source.errors
          /\ exit[c] = 0 => source.readable /\ source.errors = {}

\* No code is generated from a source with errors of any kind, and no HIR from
\* one with errors that come before macro expansion: everything behind the
\* gates may take its input to be well formed (compile.rs).
OnlySoundSourcesGetCode ==
  \A p \in DOMAIN files :
    files[p].kind \notin {"tokens", "ast"} =>
      \E j \in Jobs :
        /\ j.source.name = files[p].of
        /\ j.source.errors \subseteq IF files[p].kind = "hir" THEN {"macro"} ELSE {}

\* The phases a job asks for, of those that may not end: check and the first
\* three representations need no code, the first two no resolution.
Needs(j) ==
  IF j.tool = "compile" /\ j.emit \in {"tokens", "ast"} THEN {}
  ELSE IF j.tool = "check" \/ (j.tool = "compile" /\ j.emit \in {"hir", "banner"})
       THEN {"resolve"}
  ELSE {"resolve", "generate"}

\* A compilation that is not killed ends, whatever fails on its way, unless it
\* needs a phase that never ends on its source: no failed write, link or phase
\* is tried again, and none waits for another process (compile.rs, link.rs).
CompilationsEnd ==
  \A c \in Compilers :
    pc[c] = "read" /\ Needs(job[c]) \cap job[c].source.endless = {}
      ~> pc[c] \in Ended
=============================================================================
