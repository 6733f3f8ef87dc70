---------------------------- MODULE NodeSelector ----------------------------
(***************************************************************************)
(* DriverSelectNodes and DriverPrepareNodes (Driver.cpp 632-752): the     *)
(* working set of a build.  The target nodes (resolved names, or the DAG's *)
(* default nodes) are sorted and deduplicated onto a stack; a depth-first  *)
(* walk with a visited bitset collects every node reachable through        *)
(* dependency edges; each collected node gets a RuntimeNode, linked to its *)
(* BuiltNode record from the previous state file if one has its GUID; and  *)
(* a remap table from global DAG index to local index is filled, with a    *)
(* CHECK that no global index is mapped twice.                             *)
(*                                                                         *)
(* Every dependency graph on NodeCount nodes is a possible initial state,  *)
(* cycles included: the frozen DAG comes from the frontend, and nothing in *)
(* this code rejects a cycle.  A node's GUID is its index (GUIDs are       *)
(* distinct); the visited bitset is a set of indices (bit i & 31 of word   *)
(* i / 32 stands for index i).                                             *)
(***************************************************************************)
EXTENDS Naturals, Sequences, SequencesExt, Relation, VisitedBits

CONSTANTS
  NodeCount,    \* dag->m_NodeCount
  MaxTargets    \* longest target list a command line gives

Idx == 0 .. NodeCount - 1
NoIndex == -1

(* node->m_Dependencies of every node, in the frozen (ascending) order.    *)
DepLists == {[i \in Idx |-> SetToSortSeq(d[i], <)] : d \in [Idx -> SUBSET Idx]}

VARIABLES
  deps,        \* the frozen DAG: dependency array of every node
  oldGuids,    \* GUIDs with a BuiltNode in the loaded state file
  seeds,       \* history: the nodes DriverSelectNodes returned
  stack,       \* node_stack
  visited,     \* node_visited_bits
  indices,     \* node_indices: global index of each local node
  mmapState,   \* out_nodes[i].m_MmapState is set (a previous record found)
  remap,       \* node_remap: global index -> local index or -1
  k,           \* local_index of the remap loop
  pc

vars == <<deps, oldGuids, seeds, stack, visited, indices, mmapState, remap, k, pc>>

Init ==
  /\ deps \in DepLists
  /\ oldGuids \in SUBSET Idx
  /\ seeds = {}
  /\ stack = <<>>
  /\ visited = {}
  /\ indices = <<>>
  /\ mmapState = <<>>
  /\ remap = [g \in Idx |-> NoIndex]
  /\ k = 0
  /\ pc = "select"

(* DriverSelectNodes: the resolved targets, or the default nodes when no   *)
(* target is named, are sorted and made unique (std::sort, std::unique).   *)
SelectNodes ==
  /\ pc = "select"
  /\ \E targets \in BoundedSeq(Idx, MaxTargets) :
       /\ stack' = SetToSortSeq(ToSet(targets), <)
       /\ seeds' = ToSet(targets)
  /\ pc' = "walk"
  /\ UNCHANGED <<deps, oldGuids, visited, indices, mmapState, remap, k>>

(* Mutation of Visit: only the first dependency is pushed (a count of one *)
(* passed to BufferAppend).                                                *)
MutVisitPushFirstDepOnly ==
  /\ pc = "walk"
  /\ stack # <<>>
  /\ LET n == Last(stack) IN
       IF n \notin visited
         THEN /\ indices' = Append(indices, n)
              /\ visited' = visited \cup {n}
              /\ stack' = Front(stack) \o
                        (IF deps[n] = <<>> THEN <<>> ELSE <<Head(deps[n])>>)
         ELSE /\ stack' = Front(stack)
              /\ UNCHANGED <<indices, visited>>
  /\ UNCHANGED <<deps, oldGuids, seeds, mmapState, remap, k, pc>>

(* Mutation of Visit: a visited node is peeked at and never popped.        *)
MutVisitPeekVisited ==
  /\ pc = "walk"
  /\ stack # <<>>
  /\ LET n == Last(stack) IN
       IF n \notin visited
         THEN /\ indices' = Append(indices, n)
              /\ visited' = visited \cup {n}
              /\ stack' = Front(stack) \o deps[n]
         ELSE UNCHANGED <<stack, indices, visited>>
  /\ UNCHANGED <<deps, oldGuids, seeds, mmapState, remap, k, pc>>

(* One iteration of the while loop: pop a node; if its bit is clear,       *)
(* append it to node_indices, set its bit and push its dependencies.       *)
Visit ==
  /\ pc = "walk"
  /\ stack # <<>>
  /\ LET n == Last(stack)
         rest == Front(stack)
     IN  IF n \notin visited
           THEN /\ indices' = Append(indices, n)
                /\ visited' = visited \cup {n}
                /\ stack' = rest \o deps[n]
           ELSE /\ stack' = rest
                /\ UNCHANGED <<indices, visited>>
  /\ UNCHANGED <<deps, oldGuids, seeds, mmapState, remap, k, pc>>

(* Mutation of AllocateNodes: the remap table is allocated without the     *)
(* -1 fill, so it holds whatever the heap held.                            *)
MutAllocateNodesNoFill ==
  /\ pc = "walk"
  /\ stack = <<>>
  /\ mmapState' = [i \in 1 .. Len(indices) |-> indices[i] \in oldGuids]
  /\ remap' \in [Idx -> {NoIndex} \cup Idx]
  /\ k' = 0
  /\ pc' = "remap"
  /\ UNCHANGED <<deps, oldGuids, seeds, stack, visited, indices>>

(* Mutation of AllocateNodes: the previous record is looked up with the    *)
(* GUID of the node at the local index (src_guids + i).                    *)
MutAllocateNodesLocalGuid ==
  /\ pc = "walk"
  /\ stack = <<>>
  /\ mmapState' = [i \in 1 .. Len(indices) |-> i - 1 \in oldGuids]
  /\ remap' = [g \in Idx |-> NoIndex]
  /\ k' = 0
  /\ pc' = "remap"
  /\ UNCHANGED <<deps, oldGuids, seeds, stack, visited, indices>>

(* After the loop: allocate the RuntimeNodes, link each to the previous    *)
(* BuiltNode with its GUID (BinarySearch over the state file's GUIDs, only *)
(* when a state file is loaded), and fill the remap table with -1.         *)
AllocateNodes ==
  /\ pc = "walk"
  /\ stack = <<>>
  /\ mmapState' = [i \in 1 .. Len(indices) |-> indices[i] \in oldGuids]
  /\ remap' = [g \in Idx |-> NoIndex]
  /\ k' = 0
  /\ pc' = "remap"
  /\ UNCHANGED <<deps, oldGuids, seeds, stack, visited, indices>>

(* Mutation of RemapNode: the local index stored is one-based.             *)
MutRemapNodeOneBased ==
  /\ pc = "remap"
  /\ k < Len(indices)
  /\ LET g == indices[k + 1] IN
       IF remap[g] = NoIndex
         THEN /\ remap' = [remap EXCEPT ![g] = k + 1]
              /\ k' = k + 1
              /\ UNCHANGED pc
         ELSE /\ pc' = "checkfailed"
              /\ UNCHANGED <<remap, k>>
  /\ UNCHANGED <<deps, oldGuids, seeds, stack, visited, indices, mmapState>>

(* One iteration of the remap loop, CHECK(node_remap[global_index] == -1)  *)
(* included: a failed CHECK aborts the process.                            *)
RemapNode ==
  /\ pc = "remap"
  /\ k < Len(indices)
  /\ LET g == indices[k + 1] IN
       IF remap[g] = NoIndex
         THEN /\ remap' = [remap EXCEPT ![g] = k]
              /\ k' = k + 1
              /\ UNCHANGED pc
         ELSE /\ pc' = "checkfailed"
              /\ UNCHANGED <<remap, k>>
  /\ UNCHANGED <<deps, oldGuids, seeds, stack, visited, indices, mmapState>>

(* DriverPrepareNodes returns true.                                        *)
Finish ==
  /\ pc = "remap"
  /\ k = Len(indices)
  /\ pc' = "done"
  /\ UNCHANGED <<deps, oldGuids, seeds, stack, visited, indices, mmapState, remap, k>>

Next == SelectNodes \/ Visit \/ AllocateNodes \/ RemapNode \/ Finish

(* The driver runs DriverPrepareNodes on one thread to completion.         *)
Spec == Init /\ [][Next]_vars /\ WF_vars(Next)

-----------------------------------------------------------------------------
TypeOK ==
  /\ deps \in DepLists
  /\ oldGuids \subseteq Idx
  /\ seeds \subseteq Idx
  /\ stack \in Seq(Idx)
  /\ visited \subseteq Idx
  /\ indices \in Seq(Idx)
  /\ mmapState \in Seq(BOOLEAN)
  /\ remap \in [Idx -> {NoIndex} \cup Idx]
  /\ k \in 0 .. NodeCount
  /\ pc \in {"select", "walk", "remap", "checkfailed", "done"}

(* Reference: the nodes reachable from the seeds along dependency edges,   *)
(* from the transitive closure of the edge relation.                       *)
DependsOn == [p \in Idx \X Idx |-> p[2] \in ToSet(deps[p[1]])]
Closure(S) ==
  LET R == TransitiveClosure(DependsOn, Idx)
  IN  S \cup {j \in Idx : \E i \in S : R[i, j]}

(* The working set DriverPrepareNodes builds is exactly the dependency     *)
(* closure of the selected targets, for every graph, cyclic ones included: *)
(* no dependency of a selected node is left out and nothing else gets in.  *)
WorkingSetIsClosure ==
  pc = "done" => ToSet(indices) = Closure(seeds)

(* When DriverPrepareNodes returns, node_remap is the inverse of           *)
(* node_indices (local index i maps back to global index indices[i]) and   *)
(* -1 for every node outside the working set; the CHECK never fires.       *)
RemapIsInverse ==
  /\ pc # "checkfailed"
  /\ pc = "done" =>
       \A g \in Idx :
         IF g \in ToSet(indices)
           THEN remap[g] + 1 \in DOMAIN indices /\ indices[remap[g] + 1] = g
           ELSE remap[g] = NoIndex

(* While DriverPrepareNodes walks the DAG, node_visited_bits stands for    *)
(* the set of visited indices NodeSelector keeps: marking and testing a    *)
(* node through dag_word and dag_bit, at both ends of every word of a DAG  *)
(* of BitsetNodeCount nodes (1 << 31 included), and through the word count *)
(* allocated, behave as adding to and testing a set.                       *)
VisitedBitsAreASet == pc = "walk" => BitsetRepresentsSet

(* The walk terminates on every graph: the visited bits stop a cycle from  *)
(* being walked forever, and DriverPrepareNodes returns true, the CHECK of *)
(* the remap loop never aborting it.                                       *)
PrepareNodesReturns == <>(pc = "done")


(* The abstract view of DriverPrepareNodes: the seeds are visible once    *)
(* DriverSelectNodes returns; the working set, the remap table and the    *)
(* links to previous records only once DriverPrepareNodes returns.  A      *)
(* failed CHECK leaves the abstract specification waiting forever.         *)
AbsPhase ==
  CASE pc = "select" -> "select"
    [] pc = "done"   -> "done"
    [] OTHER         -> "selected"

Abs == INSTANCE SelectWorkingSet WITH
         phase  <- AbsPhase,
         nodes  <- IF pc = "done" THEN indices ELSE <<>>,
         remap  <- IF pc = "done" THEN remap ELSE [g \in Idx |-> NoIndex],
         linked <- IF pc = "done" THEN mmapState ELSE <<>>

(* DriverSelectNodes followed by DriverPrepareNodes implements the         *)
(* abstract working-set selection: every run of the depth-first walk, the  *)
(* RuntimeNode allocation with its BinarySearch for previous records and   *)
(* the remap loop returns the closure of the seeds, listed once, with the  *)
(* inverse remap and the right links.  The fairness of Abs!Spec (Prepare  *)
(* eventually happens) is PrepareNodesReturns, checked on its own.         *)
ImplementsSelectWorkingSet == Abs!Init /\ [][Abs!Next]_Abs!vars

=============================================================================
