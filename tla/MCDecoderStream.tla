---------------------------- MODULE MCDecoderStream ----------------------------
(* Instances of DecoderStream for TLC. *)
EXTENDS DecoderStream
=============================================================================
