--------------------------- MODULE SelectWorkingSet ---------------------------
(***************************************************************************)
(* What DriverSelectNodes and DriverPrepareNodes (Driver.cpp 632-752)      *)
(* promise the rest of the driver, in two steps: a set of at most          *)
(* MaxTargets seed nodes is chosen; then, in one step, the working set is  *)
(* the dependency closure of the seeds, each of its nodes once in some     *)
(* order, the remap table is the inverse of that order (-1 elsewhere), and *)
(* a node is linked to a previous record exactly when the state file has   *)
(* one with its GUID.  NodeSelector is shown to implement this module.     *)
(***************************************************************************)
EXTENDS Naturals, FiniteSets, Sequences, SequencesExt, Relation

CONSTANTS NodeCount, MaxTargets

Idx == 0 .. NodeCount - 1
NoIndex == -1

VARIABLES
  deps,      \* the frozen DAG's dependency lists
  oldGuids,  \* GUIDs with a record in the previous state file
  seeds,     \* the selected targets
  nodes,     \* self->m_Nodes: global index of each RuntimeNode
  remap,     \* self->m_NodeRemap
  linked,    \* whether each RuntimeNode has its m_MmapState set
  phase

vars == <<deps, oldGuids, seeds, nodes, remap, linked, phase>>

(* Every node reachable from S along dependency edges, S included.         *)
Reaches(S) ==
  LET E == [p \in Idx \X Idx |-> p[2] \in ToSet(deps[p[1]])]
      R == TransitiveClosure(E, Idx)
  IN  S \cup {j \in Idx : \E i \in S : R[i, j]}

(* Every order in which a set of nodes can be listed once each.           *)
Orderings(S) == {s \in [1 .. Cardinality(S) -> S] : IsInjective(s)}

(* The table mapping each listed node to its zero-based position.         *)
InverseOf(s) ==
  [g \in Idx |-> IF g \in ToSet(s) THEN CHOOSE i \in 0 .. Len(s) - 1 : s[i + 1] = g
                                   ELSE NoIndex]

Init ==
  /\ deps \in [Idx -> BoundedSeq(Idx, NodeCount)]
  /\ oldGuids \subseteq Idx
  /\ seeds = {}
  /\ nodes = <<>>
  /\ remap = [g \in Idx |-> NoIndex]
  /\ linked = <<>>
  /\ phase = "select"

(* DriverSelectNodes: the named targets, or the default nodes.            *)
Select ==
  /\ phase = "select"
  /\ \E S \in SUBSET Idx : Cardinality(S) <= MaxTargets /\ seeds' = S
  /\ phase' = "selected"
  /\ UNCHANGED <<deps, oldGuids, nodes, remap, linked>>

(* DriverPrepareNodes returns true with the working set built.            *)
Prepare ==
  /\ phase = "selected"
  /\ nodes' \in Orderings(Reaches(seeds))
  /\ remap' = InverseOf(nodes')
  /\ linked' = [i \in 1 .. Len(nodes') |-> nodes'[i] \in oldGuids]
  /\ phase' = "done"
  /\ UNCHANGED <<deps, oldGuids, seeds>>

Next == Select \/ Prepare

Spec == Init /\ [][Next]_vars /\ WF_vars(Next)

=============================================================================
