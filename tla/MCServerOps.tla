---------------------------- MODULE MCServerOps -----------------------------
(***************************************************************************)
(* ServerOps for two shells and four scripts, of which one may start while *)
(* the other runs and one may stop halfway: three releases and a rollback, *)
(* the least for a rollback that skips one. Three runs of the set-up with  *)
(* two mishaps.                                                            *)
(***************************************************************************)
EXTENDS ServerOps, TLC

Symmetry == Permutations(Scripts)

=============================================================================
