---------------------------- MODULE StaleOutputs ----------------------------
(***************************************************************************)
(* Several DAG variants (build configurations) share one state file.  Each *)
(* invocation builds one variant: DriverRemoveStaleOutputs deletes the     *)
(* outputs of nodes this variant built before and no longer declares (and *)
(* their directories, longest path first), the nodes of the DAG run, and  *)
(* DriverSaveBuildState merges the results with the records of the state  *)
(* file, keeping the records of the other variants.                        *)
(*                                                                         *)
(* A variant is identified by its DAG's m_HashedIdentifier, the same for   *)
(* every regeneration of that variant's DAG; a regeneration may add or     *)
(* drop nodes.  Every node of the DAG is in the working set (no targets).  *)
(* Paths are sequences of one-character segments, so strlen orders paths  *)
(* as their length does.  The state write is assumed to succeed here;      *)
(* BuildState covers a failed write.                                       *)
(***************************************************************************)
EXTENDS Naturals, Sequences, FiniteSets, SaveMerge

CONSTANTS
  Variants,   \* DAG identifiers sharing the state file
  Guids,      \* node GUIDs
  Outputs,    \* Outputs[g]: output and aux output files of node g
  Dags,       \* Dags[v]: the node sets variant v's frontend can produce
  MaxBuilds,  \* invocations explored
  Symlinks,   \* outputs the actions create as symbolic links
  NoRecord, None

ASSUME /\ \A g \in Guids : Outputs[g] \subseteq Seq(STRING)
       /\ \A v \in Variants : Dags[v] \subseteq SUBSET Guids
       /\ Symlinks \subseteq UNION {Outputs[g] : g \in Guids}

(* A path's parent directories, outermost first.                           *)
Ancestors(p) == {SubSeq(p, 1, i) : i \in 1 .. Len(p) - 1}
WithParents(S) == S \cup UNION {Ancestors(p) : p \in S}

DidNotRun == "DidNotRun"
UpToDate == "UpToDate"
RanSuccesfully == "RanSuccesfully"
RanFailed == "RanFailed"

VARIABLES
  disk,      \* paths that exist: files and directories
  state,     \* the state file: GUID -> [seen, success] or NoRecord
  loaded,    \* the state file this invocation mapped (m_StateData)
  variant,   \* the variant being built
  dag,       \* its DAG's nodes
  nuke,      \* nuke_table entries not yet passed to CleanupPath
  result,    \* m_BuildResult of each node
  pc,
  builds

vars == <<disk, state, loaded, variant, dag, nuke, result, pc, builds>>

NoState == [g \in Guids |-> NoRecord]

Init ==
  /\ disk = {}
  /\ state = NoState
  /\ loaded = NoState
  /\ variant = None
  /\ dag = {}
  /\ nuke = {}
  /\ result = [g \in Guids |-> DidNotRun]
  /\ pc = "idle"
  /\ builds = 0

(* An invocation of variant v: the frontend gives one of its DAGs and the  *)
(* state file is mapped.                                                   *)
StartBuild(v, d) ==
  /\ pc = "idle"
  /\ builds < MaxBuilds
  /\ variant' = v
  /\ dag' = d
  /\ loaded' = state
  /\ result' = [g \in Guids |-> DidNotRun]
  /\ pc' = "collect"
  /\ builds' = builds + 1
  /\ UNCHANGED <<disk, state, nuke>>

(* node_was_used_by_this_dag_previously                                     *)
UsedByThisDagPreviously(r, v) == r # NoRecord /\ v \in r.seen

(* file_table: every output and aux output the current DAG declares.       *)
FileTable == UNION {Outputs[g] : g \in dag}

(* Mutation of NukeTable: the parent walk stops one segment late and adds  *)
(* the empty root path.                                                    *)
MutNukeTableWithRoot ==
  LET stale == UNION {Outputs[g] \ FileTable :
                        g \in {h \in Guids : UsedByThisDagPreviously(loaded[h], variant)}}
  IN  WithParents(stale) \cup (IF stale = {} THEN {} ELSE {<<>>})

(* check_file over the records this DAG used: an output no longer declared *)
(* goes to the nuke table with all its parent directories.                 *)
NukeTable ==
  LET stale == UNION {Outputs[g] \ FileTable :
                        g \in {h \in Guids : UsedByThisDagPreviously(loaded[h], variant)}}
  IN  WithParents(stale)

(* DriverRemoveStaleOutputs, lines 1266-1363: with no previous state there *)
(* is nothing to check; otherwise fill the nuke table.                     *)
CollectStale ==
  /\ pc = "collect"
  /\ nuke' = IF loaded = NoState THEN {} ELSE NukeTable
  /\ pc' = "nuke"
  /\ UNCHANGED <<disk, state, loaded, variant, dag, result, builds>>

(* CleanupPath: a path that does not exist or is a symlink is left;       *)
(* otherwise remove() deletes a file, or a directory only when empty.      *)
HasChildren(p) == \E q \in disk : Len(q) > Len(p) /\ SubSeq(q, 1, Len(p)) = p
CleanupPath(p) ==
  IF p \in disk /\ p \notin Symlinks /\ ~HasChildren(p) THEN disk \ {p} ELSE disk

(* Lines 1365-1383: the paths, sorted by descending length (ties in any    *)
(* order: std::sort over a hash-set walk), each handed to CleanupPath.     *)
(* Mutation of NextToNuke: the paths are sorted shortest first.            *)
MutNextToNukeShortestFirst(p) == \A q \in nuke : Len(p) <= Len(q)

NextToNuke(p) == \A q \in nuke : Len(q) <= Len(p)

NukePath ==
  /\ pc = "nuke"
  /\ \E p \in nuke :
       /\ NextToNuke(p)
       /\ disk' = CleanupPath(p)
       /\ nuke' = nuke \ {p}
  /\ UNCHANGED <<state, loaded, variant, dag, result, pc, builds>>

NukeDone ==
  /\ pc = "nuke"
  /\ nuke = {}
  /\ pc' = "build"
  /\ UNCHANGED <<disk, state, loaded, variant, dag, nuke, result, builds>>

(* One node of the working set: up to date when its record says it was    *)
(* built successfully (the input signature is part of the GUID's action    *)
(* here); otherwise RunAction creates the parent directories and either    *)
(* writes the outputs or, failing, removes them.                           *)
BuildNode(g) ==
  /\ pc = "build"
  /\ g \in dag
  /\ result[g] = DidNotRun
  /\ IF loaded[g] # NoRecord /\ loaded[g].success
       THEN /\ result' = [result EXCEPT ![g] = UpToDate]
            /\ UNCHANGED disk
       ELSE \/ /\ result' = [result EXCEPT ![g] = RanSuccesfully]
               /\ disk' = disk \cup WithParents(Outputs[g])
            \/ /\ result' = [result EXCEPT ![g] = RanFailed]
               /\ disk' = (disk \cup WithParents(Outputs[g])) \ Outputs[g]
  /\ UNCHANGED <<state, loaded, variant, dag, nuke, pc, builds>>

(* save_new: a node of the working set that ran gets a fresh record, with  *)
(* this DAG added to the DAGs that have seen it; one that never ran (an    *)
(* upstream failure, a cancelled build) keeps its old record unchanged, or *)
(* has none (save_node_state_old copies the old seen list as it is).       *)
NodeWasBuiltSuccesfully(r) == r = RanSuccesfully

(* save_node_state: the DAGs that have seen the node are those of its old *)
(* record, previous_dags, with this DAG appended when it is not among them *)
(* (haveToAddOurselves), so that the list holds each DAG once.             *)
DagsWeHaveSeenThisNodeInPreviously(r) ==
  (IF r = NoRecord THEN {} ELSE r.seen) \cup {variant}

SaveNew(g) ==
  IF result[g] = DidNotRun THEN loaded[g] ELSE
  [success |-> NodeWasBuiltSuccesfully(result[g]),
   seen    |-> DagsWeHaveSeenThisNodeInPreviously(loaded[g])]

(* Mutation of SaveOld: every old record outside the DAG is kept.          *)
MutSaveOldKeepAll(g) == loaded[g]

(* save_old: a record of a node outside the DAG is kept only if this DAG   *)
(* never used it.                                                          *)
SaveOld(g) ==
  IF loaded[g] # NoRecord /\ ~UsedByThisDagPreviously(loaded[g], variant)
    THEN loaded[g] ELSE NoRecord

(* DriverSaveBuildState: merge by GUID and commit, once DriverBuild has    *)
(* returned, whichever nodes it ran.                                       *)
SaveBuildState ==
  /\ pc = "build"
  /\ state' = [g \in Guids |-> IF g \in dag THEN SaveNew(g) ELSE SaveOld(g)]
  /\ pc' = "idle"
  /\ UNCHANGED <<disk, loaded, variant, dag, nuke, result, builds>>

Next ==
  \/ \E v \in Variants : \E d \in Dags[v] : StartBuild(v, d)
  \/ CollectStale
  \/ NukePath
  \/ NukeDone
  \/ \E g \in Guids : BuildNode(g)
  \/ SaveBuildState

Spec == Init /\ [][Next]_vars

-----------------------------------------------------------------------------
Records == {NoRecord} \cup [success : BOOLEAN, seen : SUBSET Variants]

TypeOK ==
  /\ disk \subseteq WithParents(UNION {Outputs[g] : g \in Guids})
  /\ state \in [Guids -> Records]
  /\ loaded \in [Guids -> Records]
  /\ variant \in Variants \cup {None}
  /\ dag \subseteq Guids
  /\ nuke \subseteq WithParents(UNION {Outputs[g] : g \in Guids})
  /\ result \in [Guids -> {DidNotRun, UpToDate, RanSuccesfully, RanFailed}]
  /\ pc \in {"idle", "collect", "nuke", "build"}
  /\ builds \in 0 .. MaxBuilds

(* Between invocations, every record that says its node was built         *)
(* successfully, whichever variant wrote it, has all the node's outputs on *)
(* disk: the collector of one variant never deletes what a record kept for *)
(* another variant still vouches for, and a variant's own dropped nodes    *)
(* lose their records together with their outputs.                         *)
SuccessRecordHasOutputs ==
  pc = "idle" =>
    \A g \in Guids : state[g] # NoRecord /\ state[g].success => Outputs[g] \subseteq disk

(* Once the collector has passed over its whole nuke table, running it     *)
(* again before any node runs would delete nothing: CleanupPath leaves the *)
(* disk as it is for every path of the table, which is gone, a symlink, or *)
(* a directory that still holds something (longest path first removes     *)
(* children before their parents).                                         *)
CleanupIdempotent ==
  /\ pc = "build"
  /\ loaded # NoState
  /\ \A g \in Guids : result[g] = DidNotRun
  => \A p \in NukeTable : CleanupPath(p) = disk

(* Every state file DriverSaveBuildState writes is a GUID table the next   *)
(* invocation can BinarySearch and merge again: the sort of m_Nodes by     *)
(* DagNode pointer and TraverseSortedArrays with save_new and save_old     *)
(* write each record the merge keeps once, in ascending GUID order, for    *)
(* every DAG of MergeDagSize nodes, working-set order, set of nodes left  *)
(* kDidNotRun and previous table (SaveMerge).                              *)
MergeWritesSortedTable == pc = "idle" /\ builds > 0 => SortedMergeSound

=============================================================================
