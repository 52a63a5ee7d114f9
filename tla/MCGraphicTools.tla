----------------------------- MODULE MCGraphicTools -----------------------------
(* Instances of GraphicTools for TLC. *)
EXTENDS GraphicTools
=============================================================================
