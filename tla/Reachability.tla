---------------------------- MODULE Reachability ----------------------------
(***************************************************************************)
(* Reachability in an object graph, without recursion: what is reachable   *)
(* from the roots is what lies in every set that holds the roots and is    *)
(* closed under the edges.  The collector's promise (ManagedHeap), the     *)
(* collector (HulkGC) and generated code (Mutator) all speak of it.        *)
(***************************************************************************)

\* edges[o] is the set of objects o refers to.
Closed(S, edges) == \A o \in S : edges[o] \subseteq S

\* The least closed set of objects that holds the roots.
ReachableFrom(roots, edges) ==
  {o \in DOMAIN edges : \A S \in SUBSET DOMAIN edges :
                           roots \subseteq S /\ Closed(S, edges) => o \in S}
=============================================================================
