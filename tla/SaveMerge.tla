------------------------------ MODULE SaveMerge ------------------------------
(***************************************************************************)
(* The merge at the heart of DriverSaveBuildState (Driver.cpp 1014-1217),  *)
(* as operators.  The RuntimeNodes, in working-set order, are sorted by    *)
(* their DagNode pointer (line 1020), which is GUID order because the      *)
(* frontend writes the node table sorted by GUID; TraverseSortedArrays     *)
(* then walks them against the previous state file's GUID table, calling  *)
(* save_new for a working-set node (both sides equal: the old record is    *)
(* passed over) and save_old for an old record alone.  What is written is  *)
(* the state file's GUID table, which the next invocation BinarySearches   *)
(* (DriverPrepareNodes, save_new) and merges again.                        *)
(*                                                                         *)
(* A GUID is a number: only its order matters here.                        *)
(***************************************************************************)
EXTENDS Naturals, Sequences, SequencesExt

CONSTANTS
  MergeDagSize,  \* m_NodeCount of the DAG
  MaxGuid        \* GUIDs are 1 .. MaxGuid

DagIdx == 0 .. MergeDagSize - 1
GuidValues == 1 .. MaxGuid

IsAscending(s) == \A i \in 1 .. Len(s) - 1 : s[i] < s[i + 1]

(* m_NodeGuids: the DAG's GUID table, sorted.                              *)
GuidTables == {t \in [DagIdx -> GuidValues] :
                 \A i \in DagIdx : i + 1 \in DagIdx => t[i] < t[i + 1]}

(* Mutation of SortRuntimeNodes: m_Nodes is merged in the order           *)
(* DriverPrepareNodes built it, without the sort.                          *)
MutSortRuntimeNodesUnsorted(nodes) == nodes

(* Line 1020: std::sort of m_Nodes by m_DagNode, a pointer into the node   *)
(* array, so by DAG index.                                                 *)
SortRuntimeNodes(nodes) == SortSeq(nodes, <)

(* key_new: the GUID of the index-th sorted RuntimeNode.                   *)
KeyNew(guids, newState, index) == guids[newState[index]]

(* TraverseSortedArrays(count1, f1, key1, count2, f2, key2) over the two   *)
(* key sequences: the calls it makes, in order, as <<key, side>>.          *)
RECURSIVE TraverseSortedArrays(_, _)
TraverseSortedArrays(k1, k2) ==
  IF k1 = <<>> THEN [i \in 1 .. Len(k2) |-> <<k2[i], "old">>]
  ELSE IF k2 = <<>> THEN [i \in 1 .. Len(k1) |-> <<k1[i], "new">>]
  ELSE IF Head(k1) < Head(k2)
         THEN <<<<Head(k1), "new">>>> \o TraverseSortedArrays(Tail(k1), k2)
  ELSE IF Head(k2) < Head(k1)
         THEN <<<<Head(k2), "old">>>> \o TraverseSortedArrays(k1, Tail(k2))
  ELSE <<<<Head(k1), "new">>>> \o TraverseSortedArrays(Tail(k1), Tail(k2))

(* save_new writes a record unless the node did not run and BinarySearch  *)
(* finds no old record for its GUID.                                       *)
SaveNewWrites(g, didNotRun, old) == ~didNotRun \/ g \in ToSet(old)

(* save_old keeps a record whose node is in the DAG (BinarySearch over all *)
(* of src_guids, not only the working set) or that this DAG never used.    *)
SaveOldWrites(g, guids, usedByThisDag) ==
  g \in Range(guids) \/ g \notin usedByThisDag

(* The GUID table DriverSaveBuildState writes: nodes is m_Nodes in the     *)
(* order DriverPrepareNodes built it, notRun the GUIDs whose RuntimeNode  *)
(* is still kDidNotRun, old the loaded state file's GUID table.            *)
Written(guids, nodes, notRun, old, usedByThisDag) ==
  LET newState == SortRuntimeNodes(nodes)
      k1 == [i \in 1 .. Len(newState) |-> KeyNew(guids, newState, i)]
      calls == TraverseSortedArrays(k1, old)
      writes(c) == IF c[2] = "new" THEN SaveNewWrites(c[1], c[1] \in notRun, old)
                   ELSE SaveOldWrites(c[1], guids, usedByThisDag)
  IN  [i \in 1 .. Len(SelectSeq(calls, writes)) |-> SelectSeq(calls, writes)[i][1]]

(* Reference: the records the merge must keep, as a set.                   *)
Kept(guids, nodes, notRun, old, usedByThisDag) ==
  LET ws == {guids[n] : n \in ToSet(nodes)}
  IN  {g \in ws : g \notin notRun \/ g \in ToSet(old)}
        \cup {g \in ToSet(old) \ ws : g \in Range(guids) \/ g \notin usedByThisDag}

-----------------------------------------------------------------------------
(* Every order DriverPrepareNodes can leave m_Nodes in, and every GUID     *)
(* table a previous save can have written.                                 *)
WorkingSetOrders == {s \in BoundedSeq(DagIdx, MergeDagSize) : IsInjective(s)}
OldTables == {SetToSortSeq(S, <) : S \in SUBSET GuidValues}

(* For every DAG, working set in any order, set of nodes that never ran    *)
(* and previous state file, the sort at line 1020 and the merge write each *)
(* record the spec keeps exactly once, in ascending GUID order, so that    *)
(* the next invocation's BinarySearch and merge over that table are valid; *)
(* no record is lost or duplicated when the working set and the old table  *)
(* interleave.                                                             *)
SortedMergeSound ==
  \A guids \in GuidTables, nodes \in WorkingSetOrders, old \in OldTables :
    \A notRun \in SUBSET {guids[n] : n \in ToSet(nodes)}, used \in SUBSET ToSet(old) :
      LET w == Written(guids, nodes, notRun, old, used)
      IN  IsAscending(w) /\ ToSet(w) = Kept(guids, nodes, notRun, old, used)

=============================================================================
