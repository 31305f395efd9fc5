--------------------------- MODULE MCTerrainCache ---------------------------
(***************************************************************************)
(* Small instances of TerrainCache.  Files and processes are               *)
(* interchangeable.                                                        *)
(***************************************************************************)
EXTENDS TerrainCache, TLC

Symmetry == Permutations(Acquirers) \cup Permutations(Inodes)

=============================================================================
