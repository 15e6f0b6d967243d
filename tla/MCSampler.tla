----------------------------- MODULE MCSampler -----------------------------
(* Two target files; one change has a block for both, the other leaves the  *)
(* second file alone.                                                       *)
EXTENDS Sampler

CONSTANTS f1, f2, both, partial

MCFiles   == {f1, f2}
MCChanges == {both, partial}
MCTouches == [c \in MCChanges |-> IF c = both THEN {f1, f2} ELSE {f1}]
=============================================================================
