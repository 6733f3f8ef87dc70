----------------------------- MODULE BuildState -----------------------------
(***************************************************************************)
(* Successive invocations of the build engine over one DAG, and the state  *)
(* file that carries what each build learned to the next one.              *)
(*                                                                         *)
(* One invocation: LoadFrozenData maps the previous state file             *)
(* (Driver.cpp), DriverPrepareNodes selects the dependency closure of the  *)
(* targets, the build queue decides for each ready node whether it is up   *)
(* to date or must run, RunAction runs it, and DriverSaveBuildState merges *)
(* the results with the previous records and commits the new state file   *)
(* with an atomic rename.  The process may crash (be killed) at any point  *)
(* of a build; the user may edit sources between builds.                   *)
(*                                                                         *)
(* The build queue is not part of the repository: its up-to-date decision  *)
(* is taken from spec.md (a prior record that says the node was built      *)
(* successfully with the same input signature).  Nodes run one at a time  *)
(* here; the concurrency of the queue is the subject of another module.    *)
(* A node's outputs are one file whose content is the input signature it   *)
(* was produced from, complete or not.                                     *)
(***************************************************************************)
EXTENDS Naturals, FiniteSets, Dag

CONSTANTS
  Versions,      \* contents a node's own source files can have
  MaxBuilds,     \* bound on the number of invocations
  Absent,        \* a missing output file (model value)
  NoRecord,      \* no BuiltNode for this GUID in the state file (model value)
  None,          \* no node is being run (model value)
  Unreadable     \* a state file LoadFrozenData rejects (model value)

ASSUME MaxBuilds \in Nat

(* NodeBuildResult::Enum (RuntimeNode.hpp).                                *)
DidNotRun == "DidNotRun"
UpToDate == "UpToDate"
RanSuccesfully == "RanSuccesfully"
RanFailed == "RanFailed"
RanSuccessButRerun == "RanSuccessButDependeesRequireFrontendRerun"
Results == {DidNotRun, UpToDate, RanSuccesfully, RanFailed, RanSuccessButRerun}

VARIABLES
  src,          \* node -> version of its own source inputs
  disk,         \* node -> its output file: Absent or [sig, complete]
  stateFile,    \* the committed state file: node GUID -> BuiltNode or
                \* NoRecord, or Unreadable
  phase,        \* "idle" between invocations, "building" during one
  prev,         \* self->m_StateData: the records this invocation loaded
  selected,     \* the working set (m_Nodes)
  result,       \* node -> m_BuildResult
  inputSig,     \* node -> m_InputSignature, once the queue computed it
  running,      \* the node inside RunAction, or None
  builds,       \* invocations started so far
  interrupted,  \* history: nodes a crash cut off inside RunAction, whose
                \* record has not been rewritten since
  confirmed     \* history: node -> signature whose outputs the last
                \* committed build found built or up to date, or NoRecord

vars == <<src, disk, stateFile, phase, prev, selected, result, inputSig,
          running, builds, interrupted, confirmed>>

(* The input signature the queue computes for a node: a digest of its own *)
(* inputs and of the dependency outputs it reads.                          *)
InputSignature(n) == [own |-> src[n], deps |-> [d \in Deps[n] |-> disk[d]]]

(* The BuiltNode fields this model keeps (save_node_sharedcode).           *)
Record(success, sig) == [success |-> success, sig |-> sig]

NoState == [n \in Nodes |-> NoRecord]

Init ==
  /\ src \in [Nodes -> Versions]
  /\ disk = [n \in Nodes |-> Absent]
  /\ stateFile \in {NoState, Unreadable}
  /\ phase = "idle"
  /\ prev = NoState
  /\ selected = {}
  /\ result = [n \in Nodes |-> DidNotRun]
  /\ inputSig = [n \in Nodes |-> NoRecord]
  /\ running = None
  /\ builds = 0
  /\ interrupted = {}
  /\ confirmed = [n \in Nodes |-> NoRecord]

-----------------------------------------------------------------------------
(* The user edits a node's sources between two invocations.                *)
EditSource(n, v) ==
  /\ phase = "idle"
  /\ src' = [src EXCEPT ![n] = v]
  /\ UNCHANGED <<disk, stateFile, phase, prev, selected, result, inputSig,
                 running, builds, interrupted, confirmed>>

(* LoadFrozenData: a state file that is missing, too short or has a bad    *)
(* magic number at its start or end is no previous state.                  *)
LoadFrozenData(file) == IF file = Unreadable THEN NoState ELSE file

(* DriverInitData/DriverPrepareNodes: map the state file, select the       *)
(* closure of the targets (the default nodes, all of them here, when none  *)
(* is given), and start every selected node as kDidNotRun.                *)
StartBuild(targets) ==
  /\ phase = "idle"
  /\ builds < MaxBuilds
  /\ prev' = LoadFrozenData(stateFile)
  /\ selected' = DependencyClosure(IF targets = {} THEN Nodes ELSE targets)
  /\ result' = [n \in Nodes |-> DidNotRun]
  /\ inputSig' = [n \in Nodes |-> NoRecord]
  /\ phase' = "building"
  /\ builds' = builds + 1
  /\ UNCHANGED <<src, disk, stateFile, running, interrupted, confirmed>>

(* The queue takes a selected node whose dependencies all finished         *)
(* successfully (dependents of a failure are never enqueued), computes its *)
(* input signature, and finds it up to date if the previous record says it *)
(* was built successfully with that signature; otherwise RunAction starts *)
(* on it: it may fail to prepare before touching the outputs, remove them  *)
(* before running the action, or, for a node that overwrites in place, the *)
(* action starts rewriting them.                                           *)
Succeeded(r) == r \in {UpToDate, RanSuccesfully, RanSuccessButRerun}

Ready(n) ==
  /\ n \in selected
  /\ result[n] = DidNotRun
  /\ \A d \in Deps[n] : Succeeded(result[d])

IsUpToDate(n, sig) ==
  prev[n] # NoRecord /\ prev[n].success /\ prev[n].sig = sig

CheckNode(n) ==
  /\ phase = "building"
  /\ running = None
  /\ Ready(n)
  /\ inputSig' = [inputSig EXCEPT ![n] = InputSignature(n)]
  /\ IF IsUpToDate(n, InputSignature(n))
       THEN /\ result' = [result EXCEPT ![n] = UpToDate]
            /\ UNCHANGED <<running, disk>>
       ELSE /\ running' = n
            /\ disk' \in {disk,
                          [disk EXCEPT ![n] = Absent],
                          [disk EXCEPT ![n] = [sig |-> InputSignature(n),
                                               complete |-> FALSE]]}
            /\ UNCHANGED result
  /\ UNCHANGED <<src, stateFile, phase, prev, selected, builds, interrupted,
                 confirmed>>

(* RunAction returns.  A success leaves the outputs complete and produced  *)
(* from the node's input signature.  A failure removes the outputs, or     *)
(* leaves what is there when the outputs are precious or the action exited *)
(* 0 without writing them; a preparation failure can also leave the        *)
(* outputs untouched (modelled by the removal having been a no-op).        *)
FinishRun ==
  /\ phase = "building"
  /\ running # None
  /\ LET n == running IN
       \/ /\ result' = [result EXCEPT ![n] = RanSuccesfully]
          /\ disk' = [disk EXCEPT ![n] = [sig |-> inputSig[n], complete |-> TRUE]]
       \/ /\ result' = [result EXCEPT ![n] = RanSuccessButRerun]
          /\ disk' = [disk EXCEPT ![n] = [sig |-> inputSig[n], complete |-> TRUE]]
       \/ /\ result' = [result EXCEPT ![n] = RanFailed]
          /\ disk' \in {disk, [disk EXCEPT ![n] = Absent]}
  /\ running' = None
  /\ UNCHANGED <<src, stateFile, phase, prev, selected, inputSig, builds,
                 interrupted, confirmed>>

-----------------------------------------------------------------------------
(* DriverSaveBuildState, save_new: a node that did not run keeps its       *)
(* previous record, if it had one; any other node gets a fresh record of   *)
(* whether it was built successfully and of its input signature.           *)
NodeWasBuiltSuccesfully(r) == r \in {RanSuccesfully, RanSuccessButRerun}

MutSaveNewKeepOldOnFailure(n) ==
  IF result[n] \in {DidNotRun, RanFailed} THEN prev[n]
  ELSE Record(NodeWasBuiltSuccesfully(result[n]), inputSig[n])

(* save_node_state_old: the old record is written again field by field,   *)
(* its input files, implicit inputs and seen DAGs as they were loaded.     *)
SaveNodeStateOld(r) == r

SaveNew(n) ==
  IF result[n] = DidNotRun THEN SaveNodeStateOld(prev[n])
  ELSE Record(NodeWasBuiltSuccesfully(result[n]), inputSig[n])

(* save_old: a previous record whose node is not in the working set is     *)
(* kept, since its node is still in this DAG.                              *)
SaveOld(n) == SaveNodeStateOld(prev[n])

(* TraverseSortedArrays over the working set and the previous records,     *)
(* both sorted by GUID: each node's record comes from the side(s) it is    *)
(* on, the new one winning.                                                *)
MergedState == [n \in Nodes |-> IF n \in selected THEN SaveNew(n) ELSE SaveOld(n)]

(* The build queue is done when nothing runs and no node is ready.         *)
BuildDone ==
  /\ phase = "building"
  /\ running = None
  /\ \A n \in Nodes : ~Ready(n)

MutTouchedWithNone == {n \in selected : result[n] \notin {DidNotRun, UpToDate}} \cup {running}

(* Nodes whose outputs this build touched: the ones that ran and the one   *)
(* running now.                                                            *)
Touched == {n \in selected : result[n] \notin {DidNotRun, UpToDate}} \cup
           ({running} \ {None})

(* History: what the build found good, kept only once committed.           *)
ConfirmedAfterSave ==
  [n \in Nodes |->
     CASE Succeeded(result[n])  -> inputSig[n]
       [] result[n] = RanFailed -> NoRecord
       [] OTHER                 -> confirmed[n]]

(* The merged records are written to the temporary file and renamed over   *)
(* the state file; if the write fails the temporary file is removed and    *)
(* the previous state file stays.                                          *)
SaveBuildState ==
  /\ BuildDone
  /\ \/ /\ stateFile' = MergedState
        /\ interrupted' = {n \in interrupted : n \notin selected \/ result[n] = DidNotRun}
        /\ confirmed' = ConfirmedAfterSave
     \/ /\ interrupted' = interrupted \cup Touched
        /\ UNCHANGED <<stateFile, confirmed>>
  /\ phase' = "idle"
  /\ UNCHANGED <<src, disk, prev, selected, result, inputSig, running, builds>>

(* The process is killed during a build: nothing of this invocation is     *)
(* saved; files on disk stay as they are.                                  *)
Crash ==
  /\ phase = "building"
  /\ phase' = "idle"
  /\ running' = None
  /\ interrupted' = interrupted \cup Touched
  /\ UNCHANGED <<src, disk, stateFile, prev, selected, result, inputSig,
                 builds, confirmed>>

Next ==
  \/ \E n \in Nodes, v \in Versions : EditSource(n, v)
  \/ \E t \in SUBSET Nodes : StartBuild(t)
  \/ \E n \in Nodes : CheckNode(n)
  \/ FinishRun
  \/ SaveBuildState
  \/ Crash

Spec == Init /\ [][Next]_vars

-----------------------------------------------------------------------------
OutputFiles == {Absent} \cup [sig : {InputSignature(n) : n \in Nodes} \cup
                                    {inputSig[n] : n \in Nodes}, complete : BOOLEAN]

TypeOK ==
  /\ src \in [Nodes -> Versions]
  /\ phase \in {"idle", "building"}
  /\ selected \subseteq Nodes
  /\ result \in [Nodes -> Results]
  /\ running \in Nodes \cup {None}
  /\ builds \in 0..MaxBuilds
  /\ interrupted \subseteq Nodes
  /\ stateFile = Unreadable \/ DOMAIN stateFile = Nodes
  /\ prev # Unreadable /\ DOMAIN prev = Nodes
  /\ \A n \in Nodes :
       /\ stateFile = Unreadable \/ stateFile[n] = NoRecord
          \/ stateFile[n].success \in BOOLEAN
       /\ prev[n] = NoRecord \/ prev[n].success \in BOOLEAN

(* The outputs of n are valid for signature s: complete, produced from s.  *)
ValidOutputs(n, s) == disk[n] = [sig |-> s, complete |-> TRUE]

(* The record a later invocation will load for n claims valid outputs     *)
(* for n's current input signature.                                       *)
ClaimsValid(n) ==
  LET r == LoadFrozenData(stateFile)[n]
  IN  r # NoRecord /\ r.success /\ r.sig = InputSignature(n)

(* The engine's central invariant, between invocations, for every node     *)
(* that no crash has cut off: if the committed state file says the node    *)
(* was built successfully with the input signature the node has now, its   *)
(* outputs on disk are complete and were produced from that signature.  It *)
(* must hold across carry-forward of the records of nodes that did not     *)
(* run, partial builds, failed builds, failed state writes and unreadable  *)
(* state files.                                                            *)
RecordReflectsOutputs ==
  phase = "idle" =>
    \A n \in Nodes \ interrupted : ClaimsValid(n) => ValidOutputs(n, InputSignature(n))

(* The same invariant for every node, crash or not (spec.md section 1: a   *)
(* node's on-disk build record must always correctly reflect whether its  *)
(* outputs are currently valid).                                           *)
RecordAlwaysReflectsOutputs ==
  phase = "idle" =>
    \A n \in Nodes : ClaimsValid(n) => ValidOutputs(n, InputSignature(n))

(* A node whose outputs are intact and that the last committed build found *)
(* built or up to date with its current input signature is not executed   *)
(* again (spec.md section 8: saving and reloading the state reproduces     *)
(* up-to-date behaviour for every node whose inputs did not change).       *)
NoSpuriousRebuild ==
  [][\A n \in Nodes :
       (running' = n /\ running = None)
         => ~(confirmed[n] = InputSignature(n) /\ ValidOutputs(n, confirmed[n]))
    ]_vars
=============================================================================
