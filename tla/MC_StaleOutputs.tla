-------------------------- MODULE MC_StaleOutputs --------------------------
(* Two variants.  Node g2 is in both; g1 only in A, g3 only in B.  Each    *)
(* variant's frontend can drop one node on a regeneration, so records and *)
(* outputs go stale in both directions.  Outputs sit in a small tree:     *)
(* o/a, o/s/b, o/s/d, o/c, so that removing o/s/b leaves o/s holding the  *)
(* symlink o/s/d, which the collector never deletes, and o keeps a         *)
(* sibling.                                                                *)
EXTENDS StaleOutputs, TLC

CONSTANTS A, B, g1, g2, g3

MCVariants == {A, B}
MCGuids == {g1, g2, g3}

\* Disjoint outputs: no two nodes declare the same path.
MCOutputs == (g1 :> {<<"o", "a">>}) @@ (g2 :> {<<"o", "s", "b">>, <<"o", "s", "d">>}) @@ (g3 :> {<<"o", "c">>})

\* Variant B also writes o/a, from a node of its own.
MCSharedOutputs == (g1 :> {<<"o", "a">>}) @@ (g2 :> {<<"o", "s", "b">>, <<"o", "s", "d">>}) @@ (g3 :> {<<"o", "a">>})

\* g2's second output is a symbolic link.
MCSymlinks == {<<"o", "s", "d">>}

MCDags == (A :> {{g1, g2}, {g1}}) @@ (B :> {{g2, g3}, {g3}})
=============================================================================
