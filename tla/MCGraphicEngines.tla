---------------------------- MODULE MCGraphicEngines ----------------------------
(* Instances of GraphicEngines for TLC. *)
EXTENDS GraphicEngines, TLC
Symmetry == Permutations(Handles) \cup Permutations(Inputs) \cup Permutations(Outputs)
=============================================================================
