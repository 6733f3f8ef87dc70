----------------------------- MODULE RunAction -----------------------------
(***************************************************************************)
(* The per-node execution protocol of src/src/RunAction.cpp: RunAction()   *)
(* run by one worker thread on one RuntimeNode.                            *)
(*                                                                         *)
(* The node's flags and the filesystem it finds are chosen in Init; every  *)
(* outcome of the outside world (shared resource construction, directory   *)
(* deletion and creation, what the action writes, its exit code, its       *)
(* console output) is a nondeterministic choice of the step that meets    *)
(* it; the user's edits of the node's frontend files and globbed           *)
(* directories are steps of their own, interleaved with the worker's.      *)
(* Files are abstracted to their timestamp and                             *)
(* to who wrote their content: "stale" (left by an earlier build),         *)
(* "fresh" (completely written by this run) or "partial" (written by this  *)
(* run by an action that then failed).                                     *)
(***************************************************************************)
EXTENDS Naturals, FiniteSets

CONSTANTS
  Outputs,      \* the node's declared m_OutputFiles (model values)
  Resources,    \* shared resources the DAG declares (model values)
  Absent,       \* a missing file (model value)
  Dirty         \* a stat cache entry marked dirty (model value)

ASSUME Outputs # {}   \* a write-text-file action writes m_OutputFiles[0]

(* GetFileInfo of a missing file reports timestamp 0; this run writes at   *)
(* time Now, and a file left by an earlier build carries a timestamp in    *)
(* OldStamps.  A file last written in the same clock tick as this run      *)
(* (timestamp Now) is allowed: timestamps have finite resolution.          *)
Now == 2
OldStamps == {1, Now}
Stamps == {0} \cup OldStamps

Contents == {"stale", "fresh", "partial"}
File == [ts : OldStamps \cup {Now}, content : Contents]

(* m_OutputFiles[0], the file a write-text-file action writes.            *)
FirstOutput == CHOOSE o \in Outputs : TRUE

(* NodeBuildResult::Enum values RunAction can return.                      *)
RanSuccesfully == "RanSuccesfully"
RanFailed == "RanFailed"
RanSuccessButRerun == "RanSuccessButDependeesRequireFrontendRerun"
Results == {"DidNotRun", RanSuccesfully, RanFailed, RanSuccessButRerun}

(* ValidationResult, in the order of its declaration: the test at line 311 *)
(* compares with < UnexpectedConsoleOutputFail.                            *)
Pass == 0
UnexpectedConsoleOutputFail == 1
UnwrittenOutputFileFail == 2
Validations == {Pass, UnexpectedConsoleOutputFail, UnwrittenOutputFileFail}

(* The node's m_GlobSignatures and m_FileSignatures, when non-empty.       *)
SignatureKinds == {"glob", "file"}

(* The Frozen::DagNode properties RunAction branches on.                   *)
NodeData ==
  [ overwrite      : BOOLEAN,   \* kFlagOverwriteOutputs
    precious       : BOOLEAN,   \* kFlagPreciousOutputs
    allowUnwritten : BOOLEAN,   \* kFlagAllowUnwrittenOutputFiles
    writeTextFile  : BOOLEAN,   \* kFlagIsWriteTextFileAction
    hasAction      : BOOLEAN,   \* m_Action is a non-empty string
    hasAux         : BOOLEAN,   \* m_AuxOutputFiles non-empty
    hasOutputDir   : BOOLEAN,   \* m_OutputDirectories non-empty
    resources      : SUBSET Resources,   \* m_SharedResources
    signatures     : SUBSET SignatureKinds ]

VARIABLES
  node,         \* node->m_DagNode
  pc,           \* where in RunAction the worker is
  disk,         \* output file -> File or Absent
  outDirExists, \* does the declared output directory exist
  statCache,   \* output file -> cached stat, or "dirty"
  held,         \* shared resources acquired by this worker
  preTs,        \* pre_timestamps[]
  untouched,    \* untouched_outputs[]
  exitCode,     \* result.m_ReturnCode
  validation,   \* passedOutputValidation
  rerun,        \* requireFrontendRerun
  dynListed,    \* m_DynamicallyDiscoveredOutputFiles was filled
  printed,      \* PrintNodeResult was called for this node
  result,       \* the NodeBuildResult RunAction returned
  drift,        \* the signature kinds whose files differ from the DAG's
  editedBeforeCheck  \* history: drift that arose before the signature check

vars == <<node, pc, disk, outDirExists, statCache, held, preTs, untouched,
          exitCode, validation, rerun, dynListed, printed, result, drift,
          editedBeforeCheck>>

(* FileInfo.m_Timestamp as GetFileInfo reports it.                         *)
Stamp(f) == IF f = Absent THEN 0 ELSE f.ts

Init ==
  /\ node \in NodeData
  /\ pc = "start"
  /\ disk \in [Outputs -> {Absent} \cup [ts : OldStamps, content : {"stale"}]]
  /\ outDirExists \in BOOLEAN
  /\ statCache \in {c \in [Outputs -> {Dirty, Absent} \cup File] :
                      \A o \in Outputs : c[o] \in {Dirty, disk[o]}}
  /\ held = {}
  /\ preTs = [o \in Outputs |-> 0]
  /\ untouched = [o \in Outputs |-> FALSE]
  /\ exitCode = 0
  /\ validation = Pass
  /\ rerun = FALSE
  /\ dynListed = FALSE
  /\ printed = FALSE
  /\ result = "DidNotRun"
  /\ drift \in SUBSET node.signatures
  /\ editedBeforeCheck = drift

(* FailWithPreparationError: print the failure, return kRanFailed.         *)
FailWithPreparationError ==
  /\ printed' = TRUE
  /\ result' = RanFailed
  /\ pc' = "done"

-----------------------------------------------------------------------------
(* Mutation of Begin: the acquisition loop takes resources by their      *)
(* position in the node's list rather than by the index stored there, so  *)
(* a failing node may hold resources it never declared.                   *)
MutBeginAcquireByPosition ==
  /\ pc = "start"
  /\ node.writeTextFile \/ node.hasAction
  /\ \E acquired \in SUBSET Resources :
        /\ Cardinality(acquired) <= Cardinality(node.resources)
        /\ acquired # node.resources
        /\ held' = acquired
        /\ FailWithPreparationError
  /\ UNCHANGED <<node, disk, outDirExists, statCache, preTs, untouched,
                 exitCode, validation, rerun, dynListed>>

(* Lines 88-143: an action with an empty command line that is not a        *)
(* write-text-file action succeeds at once; otherwise every declared       *)
(* shared resource is acquired in turn, and the first one that cannot be   *)
(* created fails the node, keeping those already acquired.                 *)
Begin ==
  /\ pc = "start"
  /\ \/ /\ ~node.writeTextFile /\ ~node.hasAction
        /\ result' = RanSuccesfully
        /\ pc' = "done"
        /\ UNCHANGED <<held, printed>>
     \/ /\ node.writeTextFile \/ node.hasAction
        /\ \/ /\ held' = node.resources
              /\ pc' = "prepare"
              /\ UNCHANGED <<printed, result>>
           \/ \E acquired \in SUBSET node.resources \ {node.resources} :
                 /\ held' = acquired
                 /\ FailWithPreparationError
  /\ UNCHANGED <<node, disk, outDirExists, statCache, preTs, untouched,
                 exitCode, validation, rerun, dynListed>>

(* Mutation of PrepareOutputs: output files are removed before the run    *)
(* without StatCacheMarkDirty.                                            *)
MutPrepareOutputsNoMarkDirty ==
  /\ pc = "prepare"
  /\ IF node.overwrite
       THEN /\ pc' = "mkdirs"
            /\ UNCHANGED <<disk, outDirExists, printed, result>>
       ELSE /\ disk' = [o \in Outputs |-> Absent]
            /\ IF node.hasOutputDir /\ outDirExists
                 THEN \/ /\ outDirExists' = FALSE
                         /\ pc' = "mkdirs"
                         /\ UNCHANGED <<printed, result>>
                      \/ /\ UNCHANGED outDirExists
                         /\ FailWithPreparationError
                 ELSE /\ pc' = "mkdirs"
                      /\ UNCHANGED <<outDirExists, printed, result>>
  /\ UNCHANGED <<node, statCache, held, preTs, untouched, exitCode, validation,
                 rerun, dynListed>>

(* Lines 145-167: unless outputs may be overwritten in place, remove every *)
(* output file and mark it dirty in the stat cache, then delete the output *)
(* directory if it exists; a failed directory deletion fails the node.     *)
PrepareOutputs ==
  /\ pc = "prepare"
  /\ IF node.overwrite
       THEN /\ pc' = "mkdirs"
            /\ UNCHANGED <<disk, statCache, outDirExists, printed, result>>
       ELSE /\ disk' = [o \in Outputs |-> Absent]
            /\ statCache' = [o \in Outputs |-> Dirty]
            /\ IF node.hasOutputDir /\ outDirExists
                 THEN \/ /\ outDirExists' = FALSE
                         /\ pc' = "mkdirs"
                         /\ UNCHANGED <<printed, result>>
                      \/ /\ UNCHANGED outDirExists
                         /\ FailWithPreparationError
                 ELSE /\ pc' = "mkdirs"
                      /\ UNCHANGED <<outDirExists, printed, result>>
  /\ UNCHANGED <<node, held, preTs, untouched, exitCode, validation, rerun,
                 dynListed>>

(* Lines 169-195: create the parent directories of the aux outputs, the    *)
(* output directories (recursively) and the parents of the output files.   *)
(* A failure for an aux or output file goes through                        *)
(* FailWithPreparationError; a failure of MakeDirectoriesRecursive for an  *)
(* output directory returns kRanFailed without printing anything.          *)
MakeOutputDirectories ==
  /\ pc = "mkdirs"
  /\ \/ /\ outDirExists' = (outDirExists \/ node.hasOutputDir)
        /\ pc' = "exec"
        /\ UNCHANGED <<printed, result>>
     \/ /\ node.hasAux
        /\ UNCHANGED outDirExists
        /\ FailWithPreparationError
     \/ /\ node.hasOutputDir
        /\ UNCHANGED <<outDirExists, printed>>
        /\ result' = RanFailed
        /\ pc' = "done"
     \/ /\ outDirExists' = (outDirExists \/ node.hasOutputDir)
        /\ FailWithPreparationError
  /\ UNCHANGED <<node, disk, statCache, held, preTs, untouched, exitCode,
                 validation, rerun, dynListed>>

(* Lines 219-236: record the outputs' timestamps (unless unwritten outputs *)
(* are allowed), then run the action.  WriteTextFile writes the first      *)
(* output; fopen can fail (nothing written) or fwrite can write short (a   *)
(* partial file), both with return code 1.  An external command writes    *)
(* any subset of the outputs, exits 0 or not, and its console output is    *)
(* validated against the allowed output.  What a failing command wrote is  *)
(* not trusted: it is "partial".                                           *)
WriteTextFileOutcome ==
  { [disk |-> disk, rc |-> 1],
    [disk |-> [disk EXCEPT ![FirstOutput] = [ts |-> Now, content |-> "partial"]],
     rc |-> 1],
    [disk |-> [disk EXCEPT ![FirstOutput] = [ts |-> Now, content |-> "fresh"]],
     rc |-> 0] }

CommandOutcome ==
  { [disk |-> [o \in Outputs |->
                 IF o \in w
                   THEN [ts |-> Now, content |-> IF rc = 0 THEN "fresh" ELSE "partial"]
                   ELSE disk[o]],
     rc |-> rc] : w \in SUBSET Outputs, rc \in {0, 1} }

LaunchAction ==
  /\ pc = "exec"
  /\ preTs' = IF node.allowUnwritten THEN preTs
              ELSE [o \in Outputs |-> Stamp(disk[o])]
  /\ IF node.writeTextFile
       THEN /\ \E r \in WriteTextFileOutcome :
                 disk' = r.disk /\ exitCode' = r.rc
            /\ UNCHANGED validation
       ELSE /\ \E r \in CommandOutcome :
                 disk' = r.disk /\ exitCode' = r.rc
            /\ validation' \in {Pass, UnexpectedConsoleOutputFail}
  /\ pc' = "validate"
  /\ UNCHANGED <<node, outDirExists, statCache, held, untouched, rerun,
                 dynListed, printed, result>>

(* Lines 238-289: if the console output passed and unwritten outputs are   *)
(* not allowed, an output whose timestamp did not change is untouched and  *)
(* fails validation; then the node's glob and file signatures are          *)
(* recomputed against the files as they are now, after the action ran (a  *)
(* mismatch requires a frontend rerun), and the output                     *)
(* directories are listed into the dynamically discovered outputs.         *)
UntouchedOutputs == {o \in Outputs : preTs[o] = Stamp(disk[o])}

(* Mutation of FrontendDrifted: VerifyFileSignatures is not called.        *)
MutFrontendDriftedGlobOnly(d) == "glob" \in d

(* VerifyNodeGlobSignatures and VerifyFileSignatures: a glob whose digest, *)
(* or a frontend file whose timestamp, differs from the value baked into   *)
(* the DAG makes requireFrontendRerun true.                                *)
FrontendDrifted(d) == "glob" \in d \/ "file" \in d

(* Mutation of ValidateOutputs: the untouched-output comparison is left    *)
(* out, so an action that exits 0 without writing an output passes.       *)
MutValidateOutputsNoTimestampCheck ==
  /\ pc = "validate"
  /\ rerun' = FrontendDrifted(drift)
  /\ dynListed' = node.hasOutputDir
  /\ pc' = "finish"
  /\ UNCHANGED <<node, disk, outDirExists, statCache, held, preTs, exitCode,
                 printed, result, untouched, validation>>

ValidateOutputs ==
  /\ pc = "validate"
  /\ IF validation = Pass /\ ~node.allowUnwritten
       THEN /\ untouched' = [o \in Outputs |-> o \in UntouchedOutputs]
            /\ validation' = IF UntouchedOutputs # {}
                               THEN UnwrittenOutputFileFail ELSE validation
       ELSE UNCHANGED <<untouched, validation>>
  /\ rerun' = FrontendDrifted(drift)
  /\ dynListed' = node.hasOutputDir
  /\ pc' = "finish"
  /\ UNCHANGED <<node, disk, outDirExists, statCache, held, preTs, exitCode,
                 printed, result>>

(* Lines 294-326: mark every output dirty, print the result, and return    *)
(* success if the exit code is 0 and validation passed.  Otherwise, unless *)
(* the outputs are precious or the only failure was an unwritten output    *)
(* of an action that exited 0, remove every output and mark it dirty.      *)
Succeeded == exitCode = 0 /\ validation < UnexpectedConsoleOutputFail

(* Mutation of KeepOutputsOnFailure: the exit-code conjunct of line 316    *)
(* is dropped, so any unwritten output spares the others from cleanup.    *)
MutKeepOutputsOnFailureAnyExit ==
  node.precious \/ validation = UnwrittenOutputFileFail

KeepOutputsOnFailure ==
  node.precious \/ (exitCode = 0 /\ validation = UnwrittenOutputFileFail)

FinishAction ==
  /\ pc = "finish"
  /\ statCache' = [o \in Outputs |-> Dirty]
  /\ printed' = TRUE
  /\ IF Succeeded
       THEN /\ result' = IF rerun THEN RanSuccessButRerun ELSE RanSuccesfully
            /\ UNCHANGED disk
       ELSE /\ result' = RanFailed
            /\ disk' = IF KeepOutputsOnFailure THEN disk
                       ELSE [o \in Outputs |-> Absent]
  /\ pc' = "done"
  /\ UNCHANGED <<node, outDirExists, held, preTs, untouched, exitCode,
                 validation, rerun, dynListed>>

(* The user, not the worker: while RunAction runs, a frontend file or a    *)
(* directory globbed by one of the node's signatures is edited.  An edit   *)
(* is recorded in editedBeforeCheck unless the signature check is already  *)
(* behind the worker.  A timestamp only moves forward, so an edit is never *)
(* undone.                                                                 *)
EditFrontendFile ==
  /\ pc # "done"
  /\ \E k \in node.signatures \ drift :
        /\ drift' = drift \cup {k}
        /\ editedBeforeCheck' = IF pc = "finish" THEN editedBeforeCheck
                                ELSE editedBeforeCheck \cup {k}
  /\ UNCHANGED <<node, pc, disk, outDirExists, statCache, held, preTs,
                 untouched, exitCode, validation, rerun, dynListed, printed,
                 result>>

Next ==
  \/ /\ \/ Begin
        \/ PrepareOutputs
        \/ MakeOutputDirectories
        \/ LaunchAction
        \/ ValidateOutputs
        \/ FinishAction
     /\ UNCHANGED <<drift, editedBeforeCheck>>
  \/ EditFrontendFile

(* RunAction returns once; a state with pc = "done" has no successor.       *)
Spec == Init /\ [][Next]_vars

-----------------------------------------------------------------------------
TypeOK ==
  /\ node \in NodeData
  /\ pc \in {"start", "prepare", "mkdirs", "exec", "validate", "finish", "done"}
  /\ disk \in [Outputs -> {Absent} \cup File]
  /\ outDirExists \in BOOLEAN
  /\ statCache \in [Outputs -> {Dirty, Absent} \cup File]
  /\ held \subseteq node.resources
  /\ preTs \in [Outputs -> Stamps]
  /\ untouched \in [Outputs -> BOOLEAN]
  /\ exitCode \in {0, 1}
  /\ validation \in Validations
  /\ rerun \in BOOLEAN
  /\ dynListed \in BOOLEAN
  /\ printed \in BOOLEAN
  /\ result \in Results
  /\ drift \subseteq node.signatures
  /\ editedBeforeCheck \subseteq drift

Successes == {RanSuccesfully, RanSuccessButRerun}
ActionRan == node.writeTextFile \/ node.hasAction

(* A node whose action ran and that RunAction reports successful has every *)
(* declared output completely written by this run, unless the node allows  *)
(* unwritten outputs: the pre-run deletion, the timestamp comparison and   *)
(* the success test together must never let a stale or missing output      *)
(* through, including one whose old timestamp equals the run's.            *)
SuccessMeansOutputsFresh ==
  (pc = "done" /\ result \in Successes /\ ActionRan /\ ~node.allowUnwritten)
    => \A o \in Outputs : disk[o] # Absent /\ disk[o].content = "fresh"

(* A node that RunAction reports failed never leaves on disk an output     *)
(* that its failing action only partly wrote, unless the outputs are       *)
(* precious: the failure cleanup must not be skipped for a nonzero exit.   *)
NoPartialOutputAfterFailure ==
  (pc = "done" /\ result = RanFailed /\ ~node.precious)
    => \A o \in Outputs : disk[o] = Absent \/ disk[o].content # "partial"

(* When RunAction returns, no stat cache entry of an output disagrees with *)
(* the file on disk: every path that changed an output also marked it      *)
(* dirty, so dependents never see a stat of the file from before the run.  *)
StatCacheCoherentOnReturn ==
  pc = "done" => \A o \in Outputs : statCache[o] \in {Dirty, disk[o]}

(* A node whose action ran successfully is reported as needing a frontend *)
(* rerun exactly when a frontend file or glob of its signatures was edited *)
(* before RunAction checked them, also while its action was running.      *)
(* Without the flag the next invocation would trust a DAG that the        *)
(* frontend file no longer describes.                                     *)
RerunFlaggedForDrift ==
  (pc = "done" /\ result \in Successes /\ ActionRan)
    => (result = RanSuccessButRerun <=> editedBeforeCheck # {})

(* Every node that RunAction fails has its failure printed through         *)
(* PrintNodeResult (spec section 7: node-level failures are funneled       *)
(* through the same result-printing path as successes).                    *)
FailureIsReported ==
  (pc = "done" /\ result = RanFailed) => printed
=============================================================================
