# TLA+ models of the tundra incremental build engine

This directory holds TLA+ models of the build engine in `src/src/`. They are
checked with TLC. Each module is translated from the C++ source it names. The
code this repository does not ship (the build queue `BuildQueue.cpp`, the
output validation `OutputValidation.hpp`) is modelled from `spec.md` and is
marked `spec_modelled` in `PROJECT.json`.

## 1. Inventory

### Components

| Component | Source | State it keeps | Operations that change state |
|---|---|---|---|
| NodeExecutor | `RunAction.cpp` `RunAction` (86-327), `WriteTextFile` (50-82), `Actions.cpp` | per run: acquired shared resources, output files on disk, stat-cache entries of outputs, pre-run timestamps, untouched flags, return code, validation result, frontend-rerun flag, dynamic output list | degenerate success; acquire resources; remove outputs; make directories; run the action; validate outputs; re-check signatures; list output dirs; mark outputs dirty; print; clean up after failure |
| NodeSelector | `Driver.cpp` `FindNodesByName` (516-630), `DriverSelectNodes` (632-650), `DriverPrepareNodes` (652-752), `LevenshteinDistanceNoCase` (476-510) | seed list, visited bitset, node stack, selected indices, RuntimeNode array, global-to-local remap table | resolve each target name; fall back to default nodes; sort and dedupe; depth-first closure; attach prior BuiltNode by binary search; fill the remap table |
| Scheduler (BuildQueue) | not shipped; `Driver.cpp` `DriverBuild` (812-895) configures it | per node: queued/active flags, build result; ready queue; worker states; shared-resource counts | enqueue ready nodes; pick a node; decide up-to-date or run; publish result; skip dependents of failures; throttle |
| IncrementalStateStore | `Driver.cpp` `DriverSaveBuildState` (988-1245), `save_node_sharedcode` (951-980), `node_was_used_by_this_dag_previously` (982-986), `LoadFrozenData` (96-148) | the state file: GUID-sorted BuiltNode records (success flag, input signature, outputs, inputs, DAG generations seen) | merge this build's nodes with the previous records; carry forward records of nodes that did not run; drop records of nodes gone from this DAG; write temp file and rename |
| StaleOutputCollector | `Driver.cpp` `DriverRemoveStaleOutputs` (1266-1395), `CleanupPath` (1249-1264) | file table of current outputs, nuke table | collect stale outputs and their parent directories; delete longest path first |
| SignatureVerifier | `Driver.cpp` `DriverPrepareDag` (345-421), `DriverCheckDagSignatures` (423-474) | loaded DAG, out-of-date reason | reuse the DAG or rerun the frontend; recheck the fresh DAG |
| Driver setup and reporting | `Driver.cpp` `DriverReportIncludes` (196-288), `GetIncludesRecursive` (171-194), `DriverInit`, `DriverDestroy`, `DriverShowTargets`, `DriverReportStartup`, `DriverCleanOutputs` | for the includes report: the seen table (file to scanner GUID) and the direct set | crawl the DAG's scanned nodes; walk the scan data recursively; write the report |
| Cache persistence | `Driver.cpp` `DriverSaveScanCache` (898-923), `DriverSaveDigestCache` (926-930) | scan cache file, digest cache file | save to temp and rename when dirty |
| Utilities | `Common.cpp` (hashes, logging, timers, `MakeDirectory`, `RenameFile`, `RemoveFileOrDir`) | log flags, structured log file | pure functions or thin OS wrappers |
| Legacy portability layer | `portable.c` | Win32 pthread shim thread table, signal-handler info | thread create/join, `td_exec`, signal thread |

### How they interact

The driver loads the DAG and checks its signatures (SignatureVerifier). It
loads the previous state file and scan cache. NodeSelector then picks the
working set and attaches each node's previous BuiltNode record. The
StaleOutputCollector deletes outputs that the previous state records for
this DAG and that the current DAG no longer declares. The Scheduler runs the
working set on a pool of worker threads. Each worker calls `RunAction` for
one node. The queue mutex protects the ready queue and the printing of
results. `RunAction` also takes that mutex from its slow-process callback.
The stat cache is shared by all workers, and `RunAction` marks outputs dirty
in it. After the build, the IncrementalStateStore merges the run's results
into the state file and commits it atomically. The next invocation reads
that file to decide which nodes are up to date.

### What is hard

- Interleaving. Workers run nodes concurrently and share the stat cache,
  shared resources and the printing lock.
- Partial failure. `RunAction` has six early returns. Each leaves outputs,
  directories, resources and the stat cache in a different state.
- Crash between steps. Outputs are deleted before the action runs. The state
  file is only rewritten at the end of the build. A crash in between leaves
  an old "built successfully" record beside missing or partial outputs.
- Cross-generation merge. Records are keyed by GUID and kept per DAG variant.
  Nodes that did not run carry their old record forward. Nodes that left the
  DAG are dropped only for the variant that saw them.
- Finite timestamp resolution. Unwritten outputs are detected by comparing
  timestamps.

### Properties that make each component correct

- NodeExecutor. A success means every mandatory output was written by this
  run. A failure leaves no partly written output unless outputs are precious.
  The stat cache agrees with the disk when it returns. Every failure is
  reported. A success asks for a frontend rerun when a frontend file changed
  before the signature re-check.
- NodeSelector. The working set is exactly the dependency closure of the
  seeds. It has no duplicates. The remap table is a bijection between the
  selected global indices and the local indices. Name resolution prefers an
  exact match.
- Scheduler. No node runs before all its dependencies finished. No node runs
  twice. Dependents of a failure are skipped unless continue-on-error is set.
  Shared resources are never over-subscribed and are always released. The
  build terminates.
- IncrementalStateStore. A record saying "built successfully with signature
  S" means the outputs on disk were produced from S, including across a
  crash. A node whose inputs did not change is not re-executed on the next
  build. The merged state is GUID-sorted and has no duplicates. Records of
  other DAG variants are kept.
- StaleOutputCollector. It never deletes a path the current DAG declares. A
  second run right after the first deletes nothing.

## 2. Plan and status

| Module | Models | Status |
|---|---|---|
| `RunAction` | the per-node execution protocol | done |
| `BuildState` (+ `Dag`) | successive builds of one DAG, the state file, crashes | done |
| `StaleOutputs` | two DAG variants sharing a state file; stale-output cleanup and the merge | done |
| `NodeSelector` (+ `VisitedBits`) | `DriverSelectNodes`, `DriverPrepareNodes`, the visited bitset | done |
| `SelectWorkingSet` | the abstract working-set selection `NodeSelector` refines | done |
| `SaveMerge` | the sort and sorted merge of `DriverSaveBuildState`, as operators | done |
| `FindNodesByName` | target-name resolution and `LevenshteinDistanceNoCase` | done |
| `PrepareDag` | DAG reuse, frontend rerun, recheck | done |
| `CommonBits` | `NextPowerOfTwo`, `CountTrailingZeroes` of `Common.cpp` | done |
| `IncludesReport` | `DriverReportIncludes` and `GetIncludesRecursive`, as recursive operators | done; the JSON output is left out |
| `BuildQueue` | workers, ready queue, failure propagation, shared resources | not modelled (section 6) |

The runs are listed in `PROJECT.json` and described in section 3.

## 3. Modules and runs

### RunAction (`RunAction.tla`, `MC_RunAction.tla`)

State: `node` holds the DagNode flags and is chosen in Init over every
combination. The other variables are `disk` (per output: absent, or a
timestamp and a content tag), `statCache`, `outDirExists`, `held`,
`preTs`, `untouched`, `exitCode`, `validation`, `rerun`, `dynListed`,
`printed`, `result`, and `pc`. `drift` is the set of signature kinds (glob,
file) whose files on disk no longer match the values baked into the DAG.
The history variable `editedBeforeCheck` records the drift that arose before
the signature check. Each action is one segment of `RunAction()` between
two points where it can return:

- `Begin` covers lines 88-143: the degenerate check and resource acquisition.
- `PrepareOutputs` covers 145-167.
- `MakeOutputDirectories` covers 169-195.
- `LaunchAction` covers 197-236.
- `ValidateOutputs` covers 238-289.
- `FinishAction` covers 294-326.
- `EditFrontendFile` is the user, not the worker. It edits a frontend file
  or a globbed directory named by the node's signatures at any point before
  `RunAction` returns. It has no fairness, and an edit is never undone,
  because timestamps only move forward. `ValidateOutputs` recomputes the
  signatures in one step (`FrontendDrifted`, lines 250-276), so an edit
  between the glob check and the file check is not separated out.

Outputs carry timestamps `0` (missing), `1` or `Now = 2`. A file left by an
earlier build may carry `Now`, which models finite timestamp resolution.
Content is `stale`, `fresh` or `partial`. Output written by a command that
exits nonzero counts as `partial`.

- Run `runaction` (pass). It checks `TypeOK`, `SuccessMeansOutputsFresh`,
  `NoPartialOutputAfterFailure`, `StatCacheCoherentOnReturn` and
  `RerunFlaggedForDrift`. It covers every flag combination, both signature
  kinds, two outputs and two resources (3,255,792 states, about 70 s).
  `RerunFlaggedForDrift` says that a node whose action succeeded reports
  `kRanSuccessButDependeesRequireFrontendRerun` exactly when a signature
  file was edited before the check, including while the action ran. An edit
  after the check is not flagged by the node. The next invocation's
  `DriverCheckDagSignatures` catches it.
- Run `runaction_report` (violation). It checks `FailureIsReported`. TLC
  finds a node with an output directory whose `MakeDirectoriesRecursive`
  fails (line 189-190). RunAction returns `kRanFailed` and prints nothing,
  while every other failure goes through `PrintNodeResult`.


### BuildState (`BuildState.tla`, `Dag.tla`, `MC_BuildState.tla`)

This module covers several invocations of the engine over one DAG. Each
invocation does the following:

- `StartBuild` maps the state file with `LoadFrozenData`. An unreadable file
  means no previous state.
- It selects the dependency closure of the targets. `Dag.tla` holds the
  closure operator.
- `CheckNode` decides for each ready node whether it is up to date or must
  run. The decision comes from spec.md, because the build queue is not
  shipped.
- `FinishRun` stands for `RunAction`'s outcomes, as they appear on disk.
- `SaveBuildState` is `DriverSaveBuildState`: save_new and save_old merge by
  GUID, then the temp-file-and-rename commit runs. The write may fail.
- `Crash` can happen at any step.
- Between builds, `EditSource` changes a node's source version, and may revert it.

A node's output is one file. Its content is the input signature it was built
from, complete or not.

Runs:

- `buildstate` (pass, 101,612 states; three builds, two nodes where `b`
  depends on `a`, two source versions). `RecordReflectsOutputs` holds
  between builds. A committed success record whose signature matches the
  current inputs has matching outputs on disk, for every node that no crash
  or failed save cut off.
- `buildstate_uptodate` (violation of `NoSpuriousRebuild`). save_new stores
  `kUpToDate` as "not built successfully" (`Driver.cpp:1179`), so the next
  build runs the node again.
- `buildstate_crash` (violation of `RecordAlwaysReflectsOutputs`). The old
  success record survives a crash after `RunAction` removed or rewrote the
  outputs. Reverting the edit makes it match again while the outputs are
  wrong.

### StaleOutputs (`StaleOutputs.tla`, `MC_StaleOutputs.tla`)

Two DAG variants share one state file. Each variant's frontend may drop a node
on regeneration. The actions are:

- `CollectStale` fills the nuke table. It keeps the outputs of records this
  variant has seen that the current DAG no longer declares, with their parent
  directories.
- `NukePath` passes the paths to `CleanupPath`, longest first. A file is
  removed, and so is a directory that is empty. A symbolic link is never
  removed (`Symlinks`; lines 1254-1255), so its directory stays too.
  Dynamically discovered outputs are never saved to the state file
  (`save_node_sharedcode` writes only the declared and aux outputs), so
  the collector cannot see them, and the model leaves them out.
- `BuildNode` runs the nodes.
- `SaveBuildState` merges the records once `DriverBuild` has returned, so
  some nodes may still be kDidNotRun (an upstream failure or a cancelled
  build). save_new gives a node that ran a fresh record and adds the variant
  to its seen set. A node that did not run keeps its old record as it was,
  seen set included (`save_node_state_old`, line 1172), or gets none.
  `DagsWeHaveSeenThisNodeInPreviously` is the seen-list update of
  `save_node_state` (lines 1116-1127): the variant is appended unless the
  list already holds it. save_old keeps a record only if this variant never
  used it.

`SaveMerge.tla` holds the merge itself as operators, extended by
`StaleOutputs`. `SortRuntimeNodes` is the `std::sort` at line 1020 and
`KeyNew` is `key_new`. `TraverseSortedArrays` is a recursive operator for
the helper of that name, which is not in the repository and is modelled from
spec.md 4.4. `SaveNewWrites` and `SaveOldWrites` decide whether save_new and
save_old write a record. `Written` is the GUID table the save produces.
`Kept` is the set-level reference, the same rule `SaveNew` and `SaveOld`
apply per GUID in `StaleOutputs`.

Runs:

- `staleoutputs` (pass, 12,041 states, four builds). It checks these
  properties:
  - `SuccessRecordHasOutputs`: no kept success record loses its outputs;
  - `CleanupIdempotent`: a second cleanup would delete nothing;
  - `MergeWritesSortedTable`: for every DAG of three nodes with GUIDs from
    1..4, every order of the working set, every set of nodes left
    kDidNotRun and every previous table, the table written is ascending (so
    it has no duplicates) and holds exactly the kept records. The next
    invocation's `BinarySearch` and merge rely on that. Dropping the sort
    breaks it.

  The model runs the collector before the build. `DriverSaveBuildState`
  sets `m_StateData` to null (line 1228) after unmapping the old state file
  and before it flushes the new one (line 1230), and
  `DriverRemoveStaleOutputs` returns at once when `m_StateData` is null
  (line 1279). So a collector run after the save would remove nothing.
  `main`, which fixes the real order, is not in the repository, so the
  model takes the order in which the collector has data to work on.

  spec.md 4.4 says a node that did not run also gets this DAG's identifier
  in its seen set, but the code copies the old set unchanged. The model
  follows the code. `SuccessRecordHasOutputs` still holds: a record whose seen
  set lacks this variant was written by another variant, whose outputs this
  variant's collector must leave alone anyway.
- `staleoutputs_shared` (violation of `SuccessRecordHasOutputs`). Here node
  `g1` of variant A and node `g3` of variant B both declare `o/a`, and each
  variant's DAG always holds its node, so no collector ever deletes `o/a`.
  A builds `g1` and saves a success record for it. B then runs `g3`, which
  fails, and `RunAction`'s failure cleanup (`RunAction.cpp:316`) removes
  `g3`'s outputs, `o/a` included. B's save keeps A's record for `g1`
  through save_old (`Driver.cpp:1193`), because B never saw `g1`. A's next
  build would treat `g1` as up to date while `o/a` is missing.

### NodeSelector (`NodeSelector.tla`)

- `SelectNodes` sorts the targets and removes duplicates.
- `Visit` is one iteration of the depth-first loop: pop a node, test and set
  its visited bit, push its dependencies.
- `AllocateNodes` covers the RuntimeNode array, the lookup of the old record
  and the -1 fill of the remap table.
- `RemapNode` is one iteration of the remap loop, with its CHECK.

`VisitedBits.tla` keeps the bitset as words: `NodeWordCount` is
`(m_NodeCount + 31) / 32`, and `DagWord` and `DagBit` are the index
arithmetic of lines 677-678. A word is the set of its bit positions, because
TLC's integers cannot hold 2^31. `1 << 31` overflows the `int` `dag_bit`,
and the compilers tundra is built with make it bit 31.

`SelectWorkingSet.tla` is the abstract specification: `Select` chooses at
most `MaxTargets` seeds, and `Prepare`, in one step, lists the closure once
each in some order, with the inverse remap and the links to previous records.
`NodeSelector` defines `Abs == INSTANCE SelectWorkingSet WITH ...`. The
mapping shows the seeds once `DriverSelectNodes` returns. It shows the
working set, remap and links only at `pc = "done"`, and `"checkfailed"` maps
to the abstract `"selected"`. The walk, the allocation and the remap loop
are stuttering steps.

Every dependency graph on three nodes is an initial state, cycles included.
The `nodeselector` run passes (280,576 states, about 50 s) and checks these
properties:

- `WorkingSetIsClosure`: the working set equals the closure computed by
  `TransitiveClosure`;
- `RemapIsInverse`: the remap table inverts the index list, and the CHECK
  never fires;
- `VisitedBitsAreASet`: during the walk, the bitset of a 65-node DAG (three
  words, the last one partial) behaves as the set `NodeSelector` keeps.
  This is checked for any two marked nodes and any tested node at both ends
  of every word. Rounding the word count down breaks it;
- `ImplementsSelectWorkingSet`: `Abs!Init /\ [][Abs!Next]_Abs!vars`, the
  safety part of the refinement. It is the only property that checks the
  links to previous records: a lookup with the local index's GUID breaks it;
- `PrepareNodesReturns`: `DriverPrepareNodes` returns true, `<>(pc =
  "done")`. This is a liveness property. Under the mapping it is exactly
  the fairness of `Abs!Spec` (the abstract `Prepare` eventually happens).
  It is checked on its own because checking `Abs!Spec` whole made TLC's
  liveness check take over four minutes.

### FindNodesByName (`FindNodesByName.tla`, `MC_FindNodesByName.tla`)

Names are sequences of the characters `a`, `A` and `b`.

- `LevenshteinDistanceNoCase` is the code's dynamic-programming table,
  written as a recursive function.
- `ScanNamedNode` is one iteration over the named nodes: an exact match, a
  fuzzy match or a prefix match.
- `EndScan` ends the scan.
- `ResolveName` and `ResolveLastName` handle the prefix autocompletion, the
  output-file lookup and the move to the next name.
- `Croak` ends the process when a name has no mapping.

The named-node table has two entries with distinct names of up to two
letters. The command line has up to two targets of up to three letters,
empty ones included. Three letters is the shortest length at which the fuzzy
limit is above 0.

- `findnodes` (pass, 1,197,732 states). It checks four properties:
  - `LevenshteinMatchesReference`: the table equals the recursive
    edit-distance definition;
  - `ResolutionFollowsPrecedence`: each name gets what a declarative
    statement of the code's order gives it;
  - `NextPowerOfTwoBounded` and `CountTrailingZeroesExact`, defined in
    `MC_FindNodesByName.tla`, check the other pure algorithms of the
    project (below).
- `findnodes_exact` (violation of `ExactMatchPreferred`). The first match at
  case-insensitive distance 0 wins. With the entries `a` and `A`, the target
  `A` maps to `a`'s node, while spec.md 4.1 puts a case-sensitive match first.

### CommonBits (`CommonBits.tla`)

`NextPowerOfTwo` and `CountTrailingZeroes` of `Common.cpp`, on `uint32_t`.
As in `VisitedBits`, a word is the set of its 1 bits. This keeps arithmetic
modulo 2^32 within TLC's 32-bit integers. `Decrement` and `Increment` are
`- 1` and `+ 1` with the borrow and carry, wrapping at 0 and at all ones.
`ShiftRight` is `>>`. `AtLeast` is the unsigned `>=`.

- `NextPowerOfTwo` is `mask = val - 1` smeared down by shifts of 16, 8, 4, 2
  and 1, then `pow2 = mask + 1`.
- `PowerChecksPass` is its three CHECKs. Common.hpp, which defines CHECK, is
  not in the repository, so the value and the checks are stated apart.
- `CountTrailingZeroes` keeps the lowest 1 bit with `v & -v`, then takes
  16, 8, 4, 2 and 1 off 31 by mask tests.

The checks run in `findnodes`, over every word with at most three 1 bits:
every power of two, the words next to one, 0, and the words above 2^31.

- `NextPowerOfTwoBounded`: every value from 1 to 2^31 gives the least power
  of two at or above it, with the CHECKs passing. 0 gives 0, which is not a
  power of two, and the CHECKs pass anyway. Above 2^31, `pow2` wraps to 0
  and the CHECK `pow2 >= val` fails. Dropping the smear by 16 breaks the
  first case.
- `CountTrailingZeroesExact`: the result is the position of the lowest
  1 bit, and 32 for 0. Skipping `v & -v` breaks it.

The helpers have no caller in this repository. The numeric edges are
listed as hazards for the hash-table code outside it that sizes tables
with them.

### PrepareDag (`PrepareDag.tla`, `MC_PrepareDag.tla`)

A signature is a build-file timestamp or a glob digest. The user may change
one at any moment (`Edit`).

- `UseDagForIncludes`, `TryReuseDag` and `MustGenerate` are the three ways
  out of the option checks.
- `SignatureMatches`, `SignatureDiffers` and `SignaturesChecked` are the
  loops of `DriverCheckDagSignatures`, used both for reuse and for the
  recheck.
- The frontend (`GenerateDag`, not shipped) reads each signature once and
  records what it saw (`FrontendRead`). It then writes a DAG file, possibly
  one that does not load (`FrontendWrites`), or it fails (`FrontendFails`).
- `ReloadDag` and `ReloadFails` are the reload of the fresh DAG.

Runs:

- `preparedag` (pass, 6,520 states; one file and one glob signature, two
  values each, up to two edits). `DagMatchesDisk` holds: a DAG returned for
  a build records every signature's current value, except one edited after
  the check passed it.
- `preparedag` also checks `IncludesReportFlagsDirect`, defined in
  `MC_PrepareDag.tla`. When `DriverPrepareDag` returns the loaded DAG on the
  includes-only path (`UseDagForIncludes`), the report `DriverReportIncludes`
  writes from it must flag a file "direct" exactly when the file is the
  first input of a node with a scanner. The check covers every DAG of up to
  three nodes (with or without a scanner or inputs) and every scan data on
  three files. `IncludesReport.tla` models the report:
  - `GetIncludesRecursive` is a RECURSIVE operator. It marks a depth-0 file
    direct, returns if the file is already in `seen`, and otherwise records
    the file with its scanner and walks each included file of its scan
    entry at depth + 1, folding the two tables through the walk.
  - `CrawlDag` is the loop over the DAG's nodes.
  - `ReportEntries` is the `HashTableWalk` that lists each seen file having
    a scan entry under its recorded scanner.

  The direct mark comes before the `seen` test. If it came after, a file
  an earlier node reached as an include would lose its flag. The mutant
  `MutGetIncludesLateDirect` does exactly that.

  The check uses one scanner, because `seen` is keyed by file name alone.
  With two scanners, a file reached by nodes of both is expanded only under
  the scanner of the node crawled first. The files that only the other
  scanner's entry includes are then missing from the report. That is a gap
  in the report rather than a property that holds, and showing it would
  take a violation run the project has no room for. It is listed as a
  hazard without a property.
- `preparedag_abort` (violation of `PrepareDagNeverAborts`). A build file is
  edited after the frontend read it. The recheck of the fresh DAG fails, and
  the process calls `exit(1)` (`Driver.cpp:413`).

## 4. Bounds

Every bound is the smallest one at which the behaviour a property is about
can happen:

- `BuildState`: two nodes, so that a dependency changes a dependent's
  signature. Two versions, so that an edit can be reverted. Three builds, so
  that there is a build, a crash or failed save, and a build that trusts the
  record.
- `StaleOutputs`: two variants and three nodes, one of them shared. A
  two-level directory tree, so that removing a file empties one directory
  and leaves a non-empty parent. One stale output is a symlink in the same
  directory as a regular stale output, so that the directory is kept while
  its regular file must still go.
- `NodeSelector`: every graph on three nodes, which includes every cycle
  shape. The bitset is checked on a 65-node DAG, the smallest with a
  partial third word.
- `SaveMerge`: three DAG nodes and GUIDs 1..4, so that old records fall
  before, between and after the working set's GUIDs, and every order of
  up to three RuntimeNodes is merged.
- `FindNodesByName` and `PrepareDag`: the sizes are given in their sections.
- `IncludesReport`: three files and DAGs of up to three nodes. That is
  enough for an include cycle, for a file that is an include of one node and
  the input of a later one, and for a node without a scanner or inputs
  between them.

## 5. Fairness

`NodeSelector` assumes `WF_vars(Next)`. `DriverPrepareNodes` runs on the
driver thread from start to end without waiting on anything, so an enabled
step is eventually taken. The other modules state invariants and action
properties only, and assume no fairness: the user's edits, new invocations
and crashes are not obliged to happen. Their terminal states (a returned `RunAction`, a
croak, an exit) have no successor, and their configurations turn off the
deadlock check for that reason.

## 6. Not modelled

- The build queue (`BuildQueue.cpp` is not in the repository) and its worker
  threads. `BuildState` runs nodes one at a time and takes the up-to-date
  rule from spec.md.
- The scan and digest cache persistence (`DriverSaveScanCache`,
  `DriverSaveDigestCache`). The caches' contents and their save functions
  live in `ScanCache.cpp` and `DigestCache.cpp`, which are not in the
  repository. What is left in `Driver.cpp` is a dirty-flag test, a save to
  a temp file and a rename. A partial file left by a crash is rejected on
  the next load by `LoadFrozenData`'s magic-number and size checks. That
  commit protocol is the state file's, which `BuildState` checks.
- `DriverBuild` (812-895) only fills the queue configuration and calls the
  queue. Its CHECKED_BUILD paranoia loop (864-874) asserts that
  `m_NodeRemap` inverts `m_Nodes`, which is what `RemapIsInverse` checks.
  With `m_DebugSigning` set, a failed `fopen` of `signing-debug.txt` leaves
  a null log that line 887 passes to `fclose`. That is an I/O failure with
  no state to model.
- `DriverCleanOutputs` (1396-1413) counts a path when `RemoveFileOrDir`
  returns false. That function returns true on success (`Common.cpp`
  481-493), so the "Removed %d output files" log reports the failures.
  Only the log message is wrong, so no property is stated about it.
- A scheduler model. The project already has the twelve runs the checking
  setup allows, and the queue itself is not in the repository.
- The rest of `Common.cpp`: the Djb2 hashes and the wrappers
  `MakeDirectory`, `RenameFile` and `RemoveFileOrDir`. Every hash-set lookup
  compares the strings as well as the hashes, so a hash value decides no
  outcome. The models take a wrapper's result, success or failure of a file
  operation, as a nondeterministic outcome. On Unix, `MakeDirectory` also
  reports success when a plain file is in the way (`EEXIST`). The Windows
  branch checks that the path is a directory. On Unix the action that then
  writes beneath that path fails, which is one of `RunAction`'s action
  outcomes.
- Reporting other than the includes report, the JSON text of that report,
  and logging (`Driver.cpp` setup, `Common.cpp`). These are formatting.
- `portable.c`: the Win32 thread shim, `td_exec` and the signal-handler
  thread. Nothing in the repository calls it, and spec.md does not describe
  it. It does have two races, listed as hazards:
  - `pthread_join` frees a slot with a plain `memset` that races the
    `InterlockedExchange` of a concurrent `alloc_thread` (line 140);
  - the signal thread reads `siginfo` and then locks the mutex it points to,
    which a concurrent `td_remove_sighandler` and destroy can free first
    (line 279).

  Each would need a violation run, and the project has no free run.
- The contents of signatures and hashes. They are abstracted to small value
  sets, and equal inputs give equal signatures.
