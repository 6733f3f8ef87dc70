---------------------------- MODULE IncludesReport ----------------------------
(***************************************************************************)
(* DriverReportIncludes (Driver.cpp 171-288), as operators: the includes   *)
(* report written instead of a build when the -I option names a file.  The *)
(* DAG's nodes are crawled in index order; for each node with an include   *)
(* scanner and at least one input, GetIncludesRecursive walks the previous *)
(* build's scan data from the node's first input.  Two tables are kept:   *)
(* direct, the files walked at depth 0, and seen, each file walked with    *)
(* the GUID of the scanner it was first walked with.  The report lists    *)
(* every seen file that has a scan entry under that scanner, with its      *)
(* includes and a "direct" flag.                                           *)
(*                                                                         *)
(* A file name and a scanner GUID are numbers; a scan entry's included     *)
(* files are walked in ascending order.  The JSON text and the file write *)
(* are left out.                                                           *)
(***************************************************************************)
EXTENDS Naturals, Sequences, SequencesExt, FiniteSets

CONSTANTS
  IncFiles,     \* file names, a set of numbers
  IncScanners,  \* scanner GUIDs, a set of numbers
  MaxDagNodes   \* dag->m_NodeCount is at most this

NoScanner == 0   \* node.m_Scanner == nullptr
NoInput == 0     \* node.m_InputFiles.GetCount() == 0

(* A DAG node as the crawl sees it: its scanner and its first input.       *)
DagNodes == (IncScanners \cup {NoScanner}) \X (IncFiles \cup {NoInput})

(* The crawl's two tables: seen maps a file to its scanner GUID.           *)
EmptyTables == [seen |-> <<>>, direct |-> {}]

(* Mutation of GetIncludesRecursive: the direct set is filled after the    *)
(* seen test, so a file already walked as an include is never direct.      *)
RECURSIVE MutGetIncludesLateDirect(_, _, _, _, _)
MutGetIncludesLateDirect(scan, s, fn, depth, t) ==
  IF fn \in DOMAIN t.seen THEN t
  ELSE LET t1 == [seen |-> t.seen @@ (fn :> s),
                  direct |-> IF depth = 0 THEN t.direct \cup {fn} ELSE t.direct]
           walk(acc, g) == MutGetIncludesLateDirect(scan, s, g, depth + 1, acc)
       IN  IF <<fn, s>> \in DOMAIN scan
             THEN FoldLeft(walk, t1, SetToSortSeq(scan[<<fn, s>>], <))
             ELSE t1

(* GetIncludesRecursive: mark a depth-0 file direct; return if the file is *)
(* already in seen, whatever scanner it was seen with; otherwise record it *)
(* with this scanner and, if BinarySearch finds the scan entry of (fn,     *)
(* scanner), walk each included file at depth + 1.                         *)
RECURSIVE GetIncludesRecursive(_, _, _, _, _)
GetIncludesRecursive(scan, s, fn, depth, t) ==
  LET t0 == IF depth = 0 THEN [t EXCEPT !.direct = @ \cup {fn}] ELSE t
  IN  IF fn \in DOMAIN t0.seen THEN t0
      ELSE LET t1 == [t0 EXCEPT !.seen = t0.seen @@ (fn :> s)]
               walk(acc, g) == GetIncludesRecursive(scan, s, g, depth + 1, acc)
           IN  IF <<fn, s>> \in DOMAIN scan
                 THEN FoldLeft(walk, t1, SetToSortSeq(scan[<<fn, s>>], <))
                 ELSE t1

(* The crawl of DriverReportIncludes over the DAG's nodes in index order.  *)
CrawlDag(scan, dag) ==
  LET visit(t, n) == IF n[1] # NoScanner /\ n[2] # NoInput
                       THEN GetIncludesRecursive(scan, n[1], n[2], 0, t)
                       ELSE t
  IN  FoldLeft(visit, EmptyTables, dag)

(* The HashTableWalk over seen: a file is reported when the scan data has  *)
(* an entry for it under the scanner it was seen with.                     *)
ReportEntries(scan, dag) ==
  LET t == CrawlDag(scan, dag)
      listed == {f \in DOMAIN t.seen : <<f, t.seen[f]>> \in DOMAIN scan}
  IN  [f \in listed |-> [direct |-> f \in t.direct,
                         includes |-> scan[<<f, t.seen[f]>>]]]

-----------------------------------------------------------------------------
(* Every scan data a previous build can have left: a partial map from      *)
(* (file, scanner) to the set of files it includes.                        *)
ScanDatas ==
  UNION {[K -> SUBSET IncFiles] : K \in SUBSET (IncFiles \X IncScanners)}

(* Every DAG of at most MaxDagNodes nodes.                                 *)
Dags == BoundedSeq(DagNodes, MaxDagNodes)

(* Reference: the files compiled directly, the first inputs of the nodes   *)
(* with a scanner.                                                         *)
DirectFiles(dag) ==
  {dag[i][2] : i \in {j \in DOMAIN dag : dag[j][1] # NoScanner /\ dag[j][2] # NoInput}}

(* For every DAG and scan data, the report flags a file direct exactly     *)
(* when it is the first input of a scanned node, also when an earlier node *)
(* reached it as an include first, and never otherwise.                    *)
DirectFlagsExact ==
  \A scan \in ScanDatas, dag \in Dags :
    LET r == ReportEntries(scan, dag)
    IN  \A f \in DOMAIN r : r[f].direct <=> f \in DirectFiles(dag)

=============================================================================
