--------------------------- MODULE MC_RunAction ---------------------------
(* Model-checking instance of RunAction: two output files, so that one    *)
(* can be written and the other not, and two shared resources, so that a  *)
(* node can fail after acquiring one of them.                              *)
EXTENDS RunAction

CONSTANTS o1, o2, r1, r2

MCOutputs == {o1, o2}
MCResources == {r1, r2}
=============================================================================
