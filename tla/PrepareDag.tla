------------------------------ MODULE PrepareDag ------------------------------
(***************************************************************************)
(* DriverPrepareDag and DriverCheckDagSignatures (Driver.cpp 345-474): the *)
(* DAG file left by the last frontend run is reused when it loads, is not  *)
(* marked for rebuild, regeneration is not forced, and every file and glob *)
(* signature recorded in it still matches the disk; otherwise the frontend *)
(* runs, the fresh DAG is loaded and its signatures are checked once more, *)
(* a mismatch then aborting the process with exit(1).                      *)
(*                                                                         *)
(* A signature is a build file's timestamp or a directory listing's        *)
(* digest; both are values the user may change at any moment, while the  *)
(* check or the frontend is running.  The frontend (GenerateDag, not in    *)
(* this repository) reads each signature once, records the value it saw,  *)
(* and writes a DAG file; it may fail, or leave a file that does not load. *)
(***************************************************************************)
EXTENDS Naturals, Sequences, SequencesExt

CONSTANTS
  SigList,     \* m_FileSignatures then m_GlobSignatures, in DAG order
  Values,      \* timestamps / digests a signature may take
  MaxEdits,    \* user edits explored
  NoDag,       \* no DAG file, or one that fails LoadFrozenData
  Unread

Sigs == ToSet(SigList)

DagImages == [sigs : [Sigs -> Values], forceRebuild : BOOLEAN]

VARIABLES
  files,        \* current value of every signature on disk
  dagFile,      \* the DAG file on disk
  mapped,       \* self->m_DagData, or NoDag
  forceRegen,   \* m_Options.m_ForceDagRegen
  includesOnly, \* m_Options.m_IncludesOutput != nullptr
  read,         \* what the running frontend has recorded
  k,            \* signatures DriverCheckDagSignatures has passed
  pc,
  edits,
  editedSinceCheck \* history: signatures changed after the check passed them

vars == <<files, dagFile, mapped, forceRegen, includesOnly, read, k, pc, edits,
          editedSinceCheck>>

Init ==
  /\ files \in [Sigs -> Values]
  /\ dagFile \in DagImages \cup {NoDag}
  /\ mapped = NoDag
  /\ forceRegen \in BOOLEAN
  /\ includesOnly \in BOOLEAN
  /\ read = [s \in Sigs |-> Unread]
  /\ k = 0
  /\ pc = "start"
  /\ edits = 0
  /\ editedSinceCheck = {}

Loaded == dagFile # NoDag

(* The existing DAG may be reused (line 373).                              *)
DagReusable == Loaded /\ ~forceRegen /\ ~dagFile.forceRebuild

(* Only showing includes: the loaded DAG is used without checks.           *)
UseDagForIncludes ==
  /\ pc = "start"
  /\ Loaded /\ includesOnly
  /\ mapped' = dagFile
  /\ pc' = "done"
  /\ UNCHANGED <<files, dagFile, forceRegen, includesOnly, read, k, edits, editedSinceCheck>>

(* Try to use the existing DAG.                                            *)
TryReuseDag ==
  /\ pc = "start"
  /\ DagReusable /\ ~includesOnly
  /\ mapped' = dagFile
  /\ k' = 0
  /\ editedSinceCheck' = {}
  /\ pc' = "check"
  /\ UNCHANGED <<files, dagFile, forceRegen, includesOnly, read, edits>>

(* No loadable DAG, regeneration forced, or the DAG marked for rebuild:    *)
(* the frontend runs.                                                      *)
MustGenerate ==
  /\ pc = "start"
  /\ ~(Loaded /\ includesOnly)
  /\ ~DagReusable
  /\ pc' = "generate"
  /\ UNCHANGED <<files, dagFile, mapped, forceRegen, includesOnly, read, k, edits,
                 editedSinceCheck>>

(* One iteration of the signature loops: the value on disk equals the one  *)
(* recorded in the DAG.                                                    *)
SignatureMatches ==
  /\ pc \in {"check", "recheck"}
  /\ k < Len(SigList)
  /\ files[SigList[k + 1]] = mapped.sigs[SigList[k + 1]]
  /\ k' = k + 1
  /\ UNCHANGED <<files, dagFile, mapped, forceRegen, includesOnly, read, pc, edits,
                 editedSinceCheck>>

(* DriverCheckDagSignatures returns false.  On the first check the DAG is  *)
(* unmapped and the frontend runs; on the check of the fresh DAG the       *)
(* process exits.                                                          *)
SignatureDiffers ==
  /\ pc \in {"check", "recheck"}
  /\ k < Len(SigList)
  /\ files[SigList[k + 1]] # mapped.sigs[SigList[k + 1]]
  /\ mapped' = IF pc = "check" THEN NoDag ELSE mapped
  /\ pc' = IF pc = "check" THEN "generate" ELSE "exit"
  /\ UNCHANGED <<files, dagFile, forceRegen, includesOnly, read, k, edits, editedSinceCheck>>

(* Mutation of AllSignaturesMatch: the loop is taken as done one           *)
(* signature early.                                                        *)
MutAllSignaturesMatch == k + 1 >= Len(SigList)

AllSignaturesMatch == k = Len(SigList)

(* DriverCheckDagSignatures returns true: PrepareDag returns true.         *)
SignaturesChecked ==
  /\ pc \in {"check", "recheck"}
  /\ AllSignaturesMatch
  /\ pc' = "done"
  /\ UNCHANGED <<files, dagFile, mapped, forceRegen, includesOnly, read, k, edits,
                 editedSinceCheck>>

(* The frontend reads one signature and records the value it sees.        *)
FrontendRead(s) ==
  /\ pc = "generate"
  /\ read[s] = Unread
  /\ read' = [read EXCEPT ![s] = files[s]]
  /\ UNCHANGED <<files, dagFile, mapped, forceRegen, includesOnly, k, pc, edits, editedSinceCheck>>

(* GenerateDag returns false: PrepareDag returns false.                    *)
FrontendFails ==
  /\ pc = "generate"
  /\ pc' = "failed"
  /\ UNCHANGED <<files, dagFile, mapped, forceRegen, includesOnly, read, k, edits, editedSinceCheck>>

(* Mutation of FrontendWrites: GenerateDag returns before the frontend    *)
(* process has finished reading the build description.                     *)
MutFrontendWritesEarly ==
  /\ pc = "generate"
  /\ dagFile' \in {[sigs |-> read, forceRebuild |-> f] : f \in BOOLEAN} \cup {NoDag}
  /\ pc' = "reload"
  /\ UNCHANGED <<files, mapped, forceRegen, includesOnly, read, k, edits, editedSinceCheck>>

(* The frontend writes the DAG file and exits successfully.                *)
FrontendWrites ==
  /\ pc = "generate"
  /\ \A s \in Sigs : read[s] # Unread
  /\ dagFile' \in {[sigs |-> read, forceRebuild |-> f] : f \in BOOLEAN} \cup {NoDag}
  /\ pc' = "reload"
  /\ UNCHANGED <<files, mapped, forceRegen, includesOnly, read, k, edits, editedSinceCheck>>

(* The fresh DAG is mapped, and checked again.                            *)
ReloadDag ==
  /\ pc = "reload"
  /\ Loaded
  /\ mapped' = dagFile
  /\ k' = 0
  /\ editedSinceCheck' = {}
  /\ pc' = "recheck"
  /\ UNCHANGED <<files, dagFile, forceRegen, includesOnly, read, edits>>

(* "panic: couldn't load in freshly generated DAG": PrepareDag returns     *)
(* false.                                                                  *)
ReloadFails ==
  /\ pc = "reload"
  /\ ~Loaded
  /\ pc' = "failed"
  /\ UNCHANGED <<files, dagFile, mapped, forceRegen, includesOnly, read, k, edits,
                 editedSinceCheck>>

(* The user changes a build file or a globbed directory.                  *)
Edit(s) ==
  /\ pc \notin {"done", "failed", "exit"}
  /\ edits < MaxEdits
  /\ \E v \in Values \ {files[s]} : files' = [files EXCEPT ![s] = v]
  /\ edits' = edits + 1
  /\ editedSinceCheck' =
       IF pc \in {"check", "recheck"} /\ s \in ToSet(SubSeq(SigList, 1, k))
         THEN editedSinceCheck \cup {s} ELSE editedSinceCheck
  /\ UNCHANGED <<dagFile, mapped, forceRegen, includesOnly, read, k, pc>>

Next ==
  \/ UseDagForIncludes \/ TryReuseDag \/ MustGenerate
  \/ SignatureMatches \/ SignatureDiffers \/ SignaturesChecked
  \/ \E s \in Sigs : FrontendRead(s)
  \/ FrontendFails \/ FrontendWrites \/ ReloadDag \/ ReloadFails
  \/ \E s \in Sigs : Edit(s)

(* DriverPrepareDag returns, or the process exits.                         *)
Spec == Init /\ [][Next]_vars

-----------------------------------------------------------------------------
TypeOK ==
  /\ files \in [Sigs -> Values]
  /\ dagFile \in DagImages \cup {NoDag}
  /\ mapped \in DagImages \cup {NoDag}
  /\ forceRegen \in BOOLEAN
  /\ includesOnly \in BOOLEAN
  /\ read \in [Sigs -> Values \cup {Unread}]
  /\ k \in 0 .. Len(SigList)
  /\ pc \in {"start", "check", "generate", "reload", "recheck", "done", "failed", "exit"}
  /\ edits \in 0 .. MaxEdits
  /\ editedSinceCheck \subseteq Sigs

(* When DriverPrepareDag returns true for a build, the DAG in memory       *)
(* records the current value of every file and glob signature, except one *)
(* the user changed after the check had passed it; whether that DAG was    *)
(* reused or freshly generated, checked once or twice.                     *)
DagMatchesDisk ==
  pc = "done" /\ ~includesOnly =>
    \A s \in Sigs : mapped.sigs[s] = files[s] \/ s \in editedSinceCheck

(* spec.md 7: the invocation is fatal only for an unresolved target or a   *)
(* DAG that cannot be regenerated; a DAG the frontend just wrote is used. *)
PrepareDagNeverAborts == pc # "exit"

=============================================================================
