---------------------------- MODULE MC_PrepareDag ----------------------------
(***************************************************************************)
(* DriverPrepareDag, and the includes report the driver writes with the   *)
(* DAG it returns when only the includes are asked for.                    *)
(***************************************************************************)
EXTENDS PrepareDag, IncludesReport

CONSTANTS tundra_lua, src_glob

(* One build file timestamp and one glob digest.                           *)
MCSigList == <<tundra_lua, src_glob>>

(* When DriverPrepareDag has returned the loaded DAG for an includes       *)
(* report, the report DriverReportIncludes writes from it flags a file    *)
(* "direct" exactly when it is the first input of a node with a scanner,  *)
(* whatever order the crawl reached it in.                                 *)
IncludesReportFlagsDirect == pc = "done" /\ includesOnly => DirectFlagsExact
=============================================================================
