---------------------------- MODULE MCBufferBlock ----------------------------
(* BufferBlock on small instances.                                          *)
EXTENDS BufferBlock, TLC

(* Blocks are interchangeable: no action names one.                         *)
BlockSymmetry == Permutations(Blocks)
=============================================================================
