---------------------------- MODULE MCGhostCells ----------------------------
(***************************************************************************)
(* The meshes of MCGhostFill, without its sweeps.                          *)
(***************************************************************************)
EXTENDS GhostCells, GhostExamples

MCMeshes == SmallMeshes \cup {RefinedPeers}
=============================================================================
