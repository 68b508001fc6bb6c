---------------------------- MODULE ManagedHeap -----------------------------
(***************************************************************************)
(* What the HULK runtime promises its client about managed memory: an      *)
(* object is freed only during a collection and only when no path leads to *)
(* it from the roots, and a collection ends only when nothing else is left.*)
(* Nothing is said of marking, lists, sizes or thresholds: HulkGC is shown *)
(* to implement this specification.                                        *)
(***************************************************************************)
EXTENDS Reachability

CONSTANT Obj

VARIABLES
  phase,   \* "mutator", "collecting", or "stopped" once the program aborted
  live,    \* the objects allocated and not freed
  edges,   \* edges[o]: the objects the traced fields of o refer to
  roots    \* the objects on the shadow stack

heapVars == <<phase, live, edges, roots>>

Reached == ReachableFrom(roots, edges)

HeapInit ==
  /\ phase = "mutator"
  /\ live = {} /\ roots = {}
  /\ edges = [o \in Obj |-> {}]

\* A new object refers to nothing.
Allocate(o) ==
  /\ phase = "mutator" /\ o \notin live
  /\ live' = live \cup {o}
  /\ edges' = [edges EXCEPT ![o] = {}]
  /\ UNCHANGED <<phase, roots>>

Mutate(o, targets) ==
  /\ phase = "mutator" /\ o \in live /\ targets \subseteq live
  /\ edges' = [edges EXCEPT ![o] = targets]
  /\ UNCHANGED <<phase, live, roots>>

AddRoot(o) ==
  /\ phase = "mutator" /\ o \in live
  /\ roots' = roots \cup {o}
  /\ UNCHANGED <<phase, live, edges>>

DropRoot(o) ==
  /\ phase = "mutator"
  /\ roots' = roots \ {o}
  /\ UNCHANGED <<phase, live, edges>>

BeginCollection ==
  /\ phase = "mutator" /\ phase' = "collecting"
  /\ UNCHANGED <<live, edges, roots>>

Release(o) ==
  /\ phase = "collecting" /\ o \in live \ Reached
  /\ live' = live \ {o}
  /\ edges' = [edges EXCEPT ![o] = {}]
  /\ UNCHANGED <<phase, roots>>

EndCollection ==
  /\ phase = "collecting" /\ live = Reached
  /\ phase' = "mutator"
  /\ UNCHANGED <<live, edges, roots>>

Stop ==
  /\ phase = "mutator" /\ phase' = "stopped"
  /\ UNCHANGED <<live, edges, roots>>

HeapNext ==
  \/ \E o \in Obj : \/ Allocate(o) \/ AddRoot(o) \/ DropRoot(o) \/ Release(o)
                    \/ \E targets \in SUBSET Obj : Mutate(o, targets)
  \/ BeginCollection \/ EndCollection \/ Stop

HeapSpec == HeapInit /\ [][HeapNext]_heapVars
=============================================================================
