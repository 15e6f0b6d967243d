---------------------------- MODULE MCProcessor ----------------------------
(* Two calls, of the same attempt or of two.                                *)
EXTENDS Processor, TLC
CONSTANTS c1, c2
=============================================================================
