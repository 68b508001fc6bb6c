------------------------------ MODULE MCDriver ------------------------------
(***************************************************************************)
(* Command lines for Driver: every tool, every representation, and sources *)
(* with every combination of errors.                                       *)
(***************************************************************************)
EXTENDS Driver

Source(name, errors, module) ==
  [name |-> name, dir |-> "src", stem |-> "prog", readable |-> TRUE,
   errors |-> errors, module |-> module, endless |-> {}, fatal |-> {}]

ErrorKinds == {"lexical", "syntactic", "semantic", "macro"}

Hello == Source({"hello"}, {}, "valid")
World == Source({"world"}, {}, "valid")
Cyclic == Source({"cyclic"}, {"semantic"}, "valid")

Sources ==
  {Hello, World, Source({"unverified"}, {}, "invalid"), Source({"unlowered"}, {}, "none"),
   [Hello EXCEPT !.name = {"missing"}, !.readable = FALSE],
   [Hello EXCEPT !.name = {"unending"}, !.endless = {"generate"}],
   [Cyclic EXCEPT !.endless = {"resolve"}], [Cyclic EXCEPT !.fatal = {"resolve"}],
   [Hello EXCEPT !.name = {"recursive"}, !.fatal = {"expand"}],
   [Hello EXCEPT !.name = {"unknown"}, !.fatal = {"lower"}]}
  \cup {Source(errors, errors, "valid") : errors \in (SUBSET ErrorKinds) \ {{}}}

Job(tool, emit, source, cwd) ==
  [tool |-> tool, emit |-> emit, output |-> NoPath, source |-> source, cwd |-> cwd]

\* Two files compiled to one path, and to the path of the object file.
Given == <<"here", "given", "">>
Compiled(emit, s, output) == [Job("compile", emit, s, "here") EXCEPT !.output = output]
GivenJobs == {Compiled(e, s, Given) : e \in {"tokens", "executable"}, s \in {Hello, World}}
             \cup {Compiled("executable", Hello, ObjectPath)}

AllJobs ==
  {Job(tool, "executable", s, "here") : tool \in {"hulk", "run", "check"}, s \in Sources}
  \cup {Job("compile", e, s, "here") : e \in Texts \cup {"executable"}, s \in Sources}
  \cup GivenJobs

\* ./hulk hello.hulk and ./hulk world.hulk in two directories; hulkc run of
\* two files with one stem.
Overlapping ==
  {Job("hulk", "executable", Hello, "here"), Job("hulk", "executable", World, "there"),
   Job("run", "executable", Hello, "here"), Job("run", "executable", World, "here")}

\* hulkc compile prog.hulk --emit object
ObjectJobs == {Job("compile", "object", Hello, "here")}

\* Each of the three, taken alone, leaves an output that is not what was asked for.
Together == Overlapping \cup ObjectJobs
=============================================================================
