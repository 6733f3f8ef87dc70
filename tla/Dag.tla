-------------------------------- MODULE Dag --------------------------------
(***************************************************************************)
(* The frozen DAG as the engine sees it: a set of nodes and, for each, the *)
(* nodes named by its m_Dependencies.  Dependencies may form cycles: the   *)
(* closure below must still terminate.                                     *)
(***************************************************************************)
EXTENDS FiniteSets

CONSTANTS
  Nodes,  \* the DAG's nodes (model values or small integers)
  Deps    \* Deps[n]: the nodes n depends on

ASSUME Deps \in [Nodes -> SUBSET Nodes]

(* The nodes reachable from seeds through dependency edges, seeds          *)
(* included: the reference definition of the working set that              *)
(* DriverPrepareNodes computes.                                            *)
RECURSIVE ReachableFrom(_, _)
ReachableFrom(frontier, seen) ==
  IF frontier \subseteq seen THEN seen
  ELSE LET new == frontier \ seen
       IN  ReachableFrom(UNION {Deps[n] : n \in new}, seen \cup new)

DependencyClosure(seeds) == ReachableFrom(seeds, {})
=============================================================================
