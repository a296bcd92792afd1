-------------------------- MODULE MCCatalogReload --------------------------
(***************************************************************************)
(* Small instances of the catalog reload for TLC.                          *)
(***************************************************************************)
EXTENDS CatalogReload, TLC

JobSymmetry == Permutations(Job)
=============================================================================
